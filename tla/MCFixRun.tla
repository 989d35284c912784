------------------------------ MODULE MCFixRun ------------------------------
(***************************************************************************)
(* Instances of FixRun for TLC: two containers whose paths surround the    *)
(* network unit's, so that a failure can fall before and after it.         *)
(***************************************************************************)
EXTENDS FixStoreRun, TLC

MCContainers == {"db.container", "web.container"}
MCRank == "db.container" :> 1 @@ "infra.network" :> 2 @@
          "shared.network" :> 3 @@ "web.container" :> 4
MCRankOne == "db.container" :> 1 @@ "shared.network" :> 2 @@ "web.container" :> 3

Bind(src, label) == [src |-> src, label |-> label, folded |-> FALSE]
FoldedBind(src)  == [src |-> src, label |-> "none", folded |-> TRUE]

Unit(mounts, networks, install) ==
  [mounts |-> mounts, nets |-> networks, install |-> install,
   pod |-> FALSE, bare |-> FALSE, mute |-> {}]

\* One mount per container: unlabelled, labelled either way, continued over
\* two lines, muted, on the host network, in a pod, under a system path.
PlainUnit == Unit(<<Bind("/data", "none")>>, {}, FALSE)
MCContents ==
  {PlainUnit,
   Unit(<<Bind("/data", "Z")>>, {}, TRUE),
   Unit(<<FoldedBind("/data")>>, {"own"}, TRUE),
   Unit(<<Bind("/etc", "none")>>, {"host"}, FALSE),
   [PlainUnit EXCEPT !.mute = {"QD001", "QD030"}],
   [PlainUnit EXCEPT !.pod = TRUE],
   Truncated}

\* Two mounts per container, of one source or of two.
MCContentsTwo ==
  {Unit(<<Bind("/data", "none"), Bind("/data", "none")>>, {}, TRUE),
   Unit(<<Bind("/data", "none"), Bind("/logs", "Z")>>, {}, TRUE),
   Unit(<<Bind("/data", "Z"), Bind("/logs", "none")>>, {"own"}, FALSE),
   Unit(<<NoMount, Bind("/logs", "none")>>, {}, TRUE),
   Truncated}

Whole(only, write) == [dir |-> TRUE, sel |-> {}, only |-> only, write |-> write]
Named(sel, write) == [dir |-> FALSE, sel |-> sel, only |-> {}, write |-> write]

MCWhole == {Whole({}, TRUE), Whole({"QD001"}, TRUE)}
MCMixed == {Whole({}, TRUE), Whole({}, FALSE), Whole({"QD030"}, TRUE),
            Named(MCContainers, TRUE), Named({"web.container"}, TRUE)}
=============================================================================
