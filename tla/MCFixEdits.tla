----------------------------- MODULE MCFixEdits -----------------------------
(***************************************************************************)
(* Short files over an alphabet with every construct the fixes look at.    *)
(***************************************************************************)
EXTENDS FixEdits

MCAtoms == {"/d", "/s", "/x", "v", ":", ",", "ro", "z", "Z", "pasta", "shared.network",
            "host", "default.target", "type=", "bind", "source=", "target=",
            "relabel=", "shared", "private", "[", "]", "=",
            "Container", "Install", "Volume", "Mount", "Network", "WantedBy"}

MCHostPaths == {"/d", "/s"}
MCShared == {<<"/s">>}
MCNetworkUnit == <<"shared.network">>

MountLine == Assign("Mount", <<"type=", "bind", ",", "source=", "/s", ",", "target=", "/x">>)

MCLines ==
  {Blank, Comment, Header("Container"), Header("Install"),
   Assign("Volume", <<"/d", ":", "/x">>),
   Assign("Volume", <<"/s", ":", "/x", ":", "ro">>),
   Assign("Volume", <<>>), MountLine,
   Assign("Network", <<"pasta">>), Assign("Network", <<"shared.network">>),
   Assign("Network", <<>>), Assign("WantedBy", <<"default.target">>)}

MCOpen == {Open(Assign("Volume", <<"/d", ":">>)), Open(Assign("Image", <<"v">>))}

\* [Container] and up to three lines more, or any two lines.
MCAll == {<<Header("Container")>> \o f : f \in BoundedSeq(MCLines \cup MCOpen, 3)}
           \cup BoundedSeq(MCLines \cup MCOpen, 2)

MCFiles == {f \in MCAll : Terminated(f)}

\* Somebody moved, removed or added lines after the audit, or labelled a mount.
MCLabelled == {Assign("Volume", <<"/d", ":", "/x", ":", "Z">>),
               Assign("Mount", MountLine.val \o <<",", "relabel=", "shared">>)}
MCAudited == {<<Header("Container")>> \o f : f \in BoundedSeq(MCLines, 2)}
MCSaved(f) ==
  {f} \cup IF f \notin MCAudited THEN {}
           ELSE {<<Header("Container")>> \o g : g \in BoundedSeq(MCLines \cup MCLabelled, 2)}
=============================================================================
