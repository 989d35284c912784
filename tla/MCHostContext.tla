--------------------------- MODULE MCHostContext ---------------------------
(***************************************************************************)
(* Hosts with and without SELinux, subordinate IDs and installed units.    *)
(***************************************************************************)
EXTENDS HostContext

MCHost(enforce, lines, units, mode) ==
  [enforce |-> enforce, mountinfo |-> "table", portstart |-> "80",
   subuid |-> lines, subgid |-> Missing, units |-> units, rootless |-> mode]

MCMine  == {[name |-> "me", range |-> "r1"], [name |-> "other", range |-> "r2"]}
MCHosts ==
  {MCHost("1", MCMine, {"a.container"}, "true"),
   MCHost("0", {[name |-> "other", range |-> "r2"]}, {}, "false"),
   MCHost(Missing, Missing, Missing, "true")}
MCOneHost == {MCHost("1", MCMine, {"a.container"}, "true")}

MCEmpty  == {EmptyDir}
MCLegacy == {EmptyDir,
             [EmptyDir EXCEPT !["legacy"] = [rootless |-> "true", units |-> {"a.container"}],
                              !["rootless"] = "true"],
             [EmptyDir EXCEPT !["legacy"] = [rootless |-> "false", units |-> {"a.container"}]]}
============================================================================
