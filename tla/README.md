# QuadDoc in TLA+

TLA+ models of [QuadDoc](../src/README.md), a linter, fixer and generator of
Podman Quadlet units, with TLC runs that check them on small instances and
TLAPS proofs of what holds for all of them. Paths below are relative to `src/`.

## The system

| Component | State it keeps | Operations | What is hard |
|---|---|---|---|
| `fix` command (`cmd/quaddoc/main.go` runFix, audit; `internal/fix`) | the unit files on disk; in memory the loaded project, the findings, the proposed changes | load, run the rules, plan a network, read every file again and edit it, write file by file | files change between the phases; a write fails or the process is killed half way; runs follow one another with other flags and paths |
| edits (`internal/fix` fixQD001, fixQD022, fixQD030) | the logical lines of one file | append an SELinux option, insert `[Install]`, join a network | the findings cite lines of an older file; continued lines, repeated sections, resetting assignments |
| preview (`internal/fix` Diff) | two texts | a walk over the table of common subsequences | ties and tails of the walk |
| parser (`internal/parse/quadlet`) | the lines of a file | Parse, Render | comments and blank lines inside continuations, files that end inside one |
| project model (`internal/ir`) | units, mounts, sharing of bind sources | LoadProject, FromParsed, BindSourceUsage | sharing is a property of the whole project |
| rules and engine (`internal/rules`) | none; a catalogue of pure checks | Run, effectiveSeverity | rules that must not contradict each other; what they predict depends on the order in which containers start, end and start again; host, configuration and directives all decide what is shown |
| configuration (`internal/config`) | `.quaddoc.toml`, inline directives, one map shared with the engine | Load, RuleConfig, ParseSuppressions, ApplySuppressions | precedence; two places that decide what is off; slips in a directive |
| command line (`main.go` runLint, parseArgs) | arguments, flags, exit status | parseArgs, flag.Parse, audit | two parsers that must read one line alike |
| host context (`internal/hostctx`) | files of the host, a capture directory, a cache | the questions rules ask; Capture; replay | a capture is not a snapshot; absence is a fact too |
| `convert` (`runConvert`, `internal/parse/compose`, `internal/generate`) | the output directory | Load, Convert, write unit by unit | several projects share one directory, names carry the references, runs follow one another |
| reports, key tables (`internal/output`, `keys*.go`) | none | formatting | nothing that TLC would tell better than a unit test |

The commands share no memory and no lock: they interact through files. `lint`
and `fix` call the same `audit`; `fix` acts on findings, that is on line
numbers, and looks at the files again; a capture is written by one invocation
and read by others; a converted directory is what `lint` and `fix` read next.
So the interleavings that matter are those of a command's phases with other
writers of the same directory, and of a command with its own earlier runs. There
are no goroutines.

What would make the components correct: a fix is idempotent, local, and never
makes a new finding (`fix.go:1-16`); what it does not fix it says; it never
overwrites a file it did not read; the parser loses no line; a replayed capture
agrees with the host; the host wins over the configuration; advice that is
followed is not contradicted; what fails on the machine was reported, and what
was mended stays mended; flags count wherever they stand, and what is hidden has
a reason; converted services keep their isolation, start, wait and restart as
compose would have made them; and the exit status of `convert` says what it left
behind.

## Modules

| Module | Models |
|---|---|
| `ProjectRules` | QD001, QD002, QD022, QD030 on a loaded project, and what `fixFile` does to a file for each finding |
| `FixRun` | an invocation of `quaddoc fix` as phases over the files, with other editors, failures and kills |
| `FixStore` | what a directory may expect of `fix`: announced contents, reached file by file in path order, or given up |
| `FixStoreRun` | the refinement mapping from `FixRun` to `FixStore` |
| `UnitFile` | physical and logical lines: `Parse` (declaratively), `Render`, `splitEntry` |
| `Parser` | `Parse` as the loop it is, one action per step |
| `UnitModel` | `FromParsed`, `ParseMount`, `ParseMountKey` and the network modes: from lines to what rules see |
| `FixEdits` | `fixFile` on the lines of a file, twice, from findings of this or of an older version |
| `Diff` | `diffLines` and `longestCommonSubsequence`: the table and the two walks |
| `Lint` | the SELinux rules, the engine's severities, directives, and a person who follows the advice |
| `Ports` | `PublishPort=` values token by token: `ParsePort`, `shiftedPublish`, and what Podman publishes for them |
| `UnitRules` | QD010 to QD013, QD020 to QD023, QD031, QD040, QD042, QD043 on a project and a host, and their remediations |
| `Boot` | a reader who follows remediations, and the machine that boots what comes of it |
| `Migrate` | compose services, `generateContainer` with `renderRestart`, `renderMount` and `PublishedPort`, and the converted project on the machine of `Boot` |
| `Audit` | one `quaddoc lint` from its arguments to its exit status: flags, configuration, directives |
| `HostContext` | `capture-context`, the cached getters, replay, a host that changes |
| `Convert` | `quaddoc convert` of several projects into one directory |
| `FixRunProofs`, `HostContextProofs`, `ParserProofs`, `AuditProofs`, `ConvertProofs`, `LintProofs`, `DiffProofs`, `BootProofs` | the theorems about the module of that name, and their proofs; `BootProofs` is about `Migrate` as well |
| `MC*` | the instances TLC checks |

`FixRun` and `Lint` extend `ProjectRules`; `Parser` and `UnitModel` extend
`UnitFile`; `FixEdits` extends `UnitModel`; `Migrate` extends `Boot`, `UnitRules`
and `Ports` in a row. The two levels of the fix meet in
`ProjectRules!Fixed` (a whole unit at a time, on mounts and networks) and
`FixEdits!Edited` (the lines that say so). Recursion is written as recursive
functions (`UnitFile!ParseFrom`, `Diff!Table`), which the provers can reason about.

An operator whose comment begins with *Mutant:* is not part of the model. It is
a plausible error in the definition below it, kept to show that each property
would notice one; `PROJECT.json` says which mutant breaks which property.

### How state and actions correspond to the code

`FixRun`. `file` and `network` are the directory. A container is a record of
what the four rules read: mounts by line, kinds of `Network=`, whether there is
an `[Install]`, a pod, a `[Container]` section, and the rules a directive mutes.
`pc` follows runFix: *load* (`LoadUnit`, one action per file, as the walk reads
them one after another), `RunRules`, `PlanNetwork` (`plannedNetwork` and
`networkUnitChange` with its `Lstat`), *fix* (`FixFile`, which reads the file
again), `Conclude` (preview or nothing to do), *write* (`OpenFile` truncates or
creates with `O_EXCL`, `WriteFile` fills), `Finish`. `WriteFails`, `Kill` and
`Edit` are the environment. `last` is a history variable: the clean run that
`Idempotent` compares with. What is printed is left out, and so are the
configuration and the host context; a path is a directory or a file of that
directory.

`FixEdits`. `physical` is the file, `lines` its parsed form, `findings` what
`audited`, the file lint saw, gives rise to. One `Apply` is one finding of the
loop in `fixFile`; `WriteBack` renders. White space, quoting and the final
newline are abstracted; values are sequences of atoms, so that `:` and `,` cut
them as in the code.

`Parser` has the loop variables of `Parse`: where the current logical line
began, its last content line, the section. `UnitFile!Parse` says the same
without a loop.

`Lint`. `Run` is Engine.Run with its severities, `Reported` what
`ApplySuppressions` leaves, `Mend(f)` a person who does what the finding's
remediation says (its text is in the code; `Remedied` follows it rule by rule).

`HostContext`. A fact is a file; `Order` is the order in which `Capture` copies
them; `Truncate` and `Write` are the halves of `os.WriteFile`, `Skip` the early
return of `copyInto`. `Ask` is a getter with its cache. `during` and `seen` are
history variables. The longest-prefix search of `MountFor` and the ranges'
arithmetic are inside one opaque value per fact.

`Convert`. A compose file is what compose-go makes of it, objects under the names
compose gives them; `normalise` makes of it what `internal/parse/compose` does:
it drops inactive services, keeps of the keys those that are used later, and
gives volumes other names (`ObjectName`). A service's other keys are a set of
names: `Untranslated` are those `unsupportedFor` looks for, `Warned` and `Remarked`
those `generateContainer` remarks on, and any other key passes without a note. A
unit is its project, the Podman object it defines and the units and objects it
refers to. Names are sequences of words, an underscore being one of them: joining
project and network by a hyphen is concatenation, which is what makes two names
equal. `Load`, `Convert`, `OpenUnit`, `WriteUnit` and `Finish` follow runConvert.
`source`, `before` and `made` are history: the compose file the run has read, the
directory when it began, and each project's last finished conversion. The keys a
container copies one to one are not modelled.

`FixStore` knows files, `disk` and `goal`. `FixStoreRun` reads `goal` off a run:
what is still to be written by a run in its *write* phase, and the disk otherwise.
`OpenFile` is `Empty`, `WriteFile` is `Fill`, a fault that ends a run with work
left is `GiveUp`, and the phases before the first write stutter. What `Propose`
may announce is `MayWrite`: labels where there were none, an `[Install]`, one
network in the place of a stack of the container's own, and nothing else.

`UnitRules` has one operator per rule. A finding is cited by rule, unit and the
key or line it is about, since what is checked is whether a failure was reported
there. `Remedies` gives the units a reader may have after doing what the
remediation's text says. `after` has one element for each `After=`, the set of units
that value names, since QD020 compares a value whole with a unit's name while
systemd splits it (`Boot!Awaited`). `Alias` in `[Install]` is honoured and starts
nothing. A container has up to two mounts, one `PublishPort=`, at most one misspelt `Volumes=` and one miscased `image=`; a mount names its
source by a spelling, and `Boot!PlaceOf` says which spellings are one place.

`Boot`. `Mend(f)` replaces a unit, or changes the host where the remediation
offers that (`usermod`, the sysctl). `Boot`, `Launch`, `StartByHand`,
`BecomeReady`, `TimeOut` and `Exit` are the machine: the Quadlet generator
rejects units, systemd holds units back for `After=`, gives up, restarts, and
rootless Podman maps IDs, publishes ports and chowns volumes. Whatever goes wrong
is added to `mishaps`. None of that is QuadDoc's code, so these definitions are
marked external; they follow what the rules' own Rationale and Citation texts say.

`Migrate`. A compose service is what `normalise` keeps of it. `generateContainer`
gives the unit as the loader reads it back: `After=` for every dependency
whatever its condition, never `Notify=`, and the group part of `user` as `Group=`.

`Audit`. `phase` follows runLint: *args* (one turn of parseArgs's loop each),
*flags* (one turn of the flag package), *config* (one line each), *rules*,
*suppress*. A directive is a sequence of rule IDs, words, `=`, `,`, `:` and blanks.
`disabled` and `engine` are one map in the code, which is what `SharedMap` says.

## Runs

| Run | Shows | Distinct states |
|---|---|---|
| `fix_alone` | `NoPrivateOnShared`, `WritesArePrefix`, `Termination`, `ImplementsStore`, types: two runs over a whole directory, one fault anywhere | 37,794 |
| `fix_repeat` | `NothingNewNothingForgotten`, `Idempotent`, `CreatedNeverClobbers`: three runs with any of five command lines, one edit anywhere | 1.3 million |
| `parser` | the loop agrees with the definition, tiles the file and ends | 47,313 |
| `fix_edits` | `LinesKept`, `ReadsBackAsEdited`, `Idempotent`, `FixedOrReported` on short files, saved since the audit or not | 301,805 |
| `capture` | `ReplayAgrees`, `CaptureIsPrefix`, `OneAnswer` | 1.2 million |
| `capture_over` | violated: `SameAbsence` | |
| `lint` | `AdviceHolds`, `Settles`, `HostWins` | 628,679 |
| `diff` | `Truthful`, `Shortest` | 179,493 |
| `convert` | `EndsAsItSays`, `KeepsIsolation`, `Resolves`, types | 535,486 |
| `convert_hyphen` | violated: `ProjectsDoNotCollide` | |
| `boot` | `FailuresAreForetold`, `MendedStaysMended`, `RemediesRaiseNothing`, `ExposureKept`, `MigrationKept`: two containers, by hand or from compose, mended up to twice and booted | 453,804 |
| `audit` | `FlagsCountAnywhere`, `SwitchedOffIsSilent`, `HiddenIsExplained`, `StatusIsEarned` | 100,993 |

What the properties of `boot` say, since they are the least obvious.
`FailuresAreForetold`: a container that is rejected, stays idle, has an ID that is
not mapped, cannot bind its port, lacks a group, is denied its files, starts before
a dependency is ready or is not restarted was reported by the rule about it, at
that mount, ID or dependency, in whatever order things happened, unless it belongs
to a class the rules are silent on. `Answerable` and `Overlooked` list these:
facts of the host that are not known, ownership that depends on an image or on two
spellings of one place, `After=` lines with several units, an `[Install]` with
`Alias=` alone, `PublishPort=` values Podman refuses, and `Rootfs=` next to `Image=`
(see the disagreements below). The run has such failures; they are just not foretold.
`MendedStaysMended` and `RemediesRaiseNothing` are about following remediations
one after another: a finding does not come back, and what appears was hidden by
the mended line (`Reveals`). `ExposureKept`: a port moved for QD031, again and
again if need be, stays published on the same address, as many ports and the same
protocol, unless it is moved above the highest port there is. `MigrationKept` compares a converted project with what compose would
have done: starting at boot, coming back, staying away, waiting, publishing.

Of `convert`: `EndsAsItSays` relates the directory at every moment, and after every
failure or kill, to what it was when the run began: a beginning of the units, in the
order of their names, is written over it and at most the next one is torn; a status
of 0 or 1 says that all are there (with `--dry-run`, that nothing was touched), and 0 that no
service was left out. `KeepsIsolation` follows the references of every service of a
finished conversion through the directory as it is now. Networks and network stacks
are exactly compose's. Volumes are those of the compose file under the names
conversion gives them, which are not always compose's (see *Conversion* below), and
two services of one project share a volume exactly if compose lets them, unless a
volume is called what another is called by default (`Distinct`). Of a unit that another
project has written over (`Lost`) nothing is claimed, and of the service that uses
it only that it gets nothing foreign through the others. `Resolves` says that its
references lead to units that are there.

**Bounds.** Two containers are enough for sharing and for a failure before,
between and after them; their paths surround the network unit's, so that the
created file is written in the middle. Two slots let a unit mount one source
twice. Three runs are a clean one, something else, and the one that is compared.
One edit can fall between any two steps. Files of four lines hold every pair of
constructs the edits look at plus the section header; the diff's four lines over
three texts contain every tie of the walk. One change of the host during one
capture can make any two facts disagree, and the property is about one fact at a
time. Four mounts need at most twelve mendings, which `MaxMends` does not cut
off (TLC's search ends at depth 10). Two containers are also enough for `boot`: a rule looks at one unit, or at one
and another it shares a volume with or waits for, and ownership, waiting and
restarts need nobody else. Two mendings are a remedy and what another remedy does
to it. IDs, ranges and thresholds lie on both sides of every comparison in the
code and at it (1500 and 1501 with ranges of 1000 and 500; 65536, 65537 and 70000
with one of 65536; ports 80, 443, 1999 and 2000 with thresholds of 1024, 2000 and
9000). In `audit` every command line of up to four arguments has each pair of
a flag, its value, a path, `--` and an unknown flag in each order, and a directive
of four tokens each slip the code knows of and more. In `convert` three runs and two edits let
one project be converted before, between and after the other. Every bound is a
constant named `Max...` or a set in an MC module. `CHECK_DEADLOCK FALSE` stands
where the bounded number of runs, rounds or mendings is all there is to do.

**Fairness.** `FixRun` assumes weak fairness of `Tool`, the steps of the running
invocation: a process that is neither blocked nor killed goes on, and nothing
in it waits for anybody. Nobody is obliged to start runs, edit, fail or kill.
`Termination` says an invocation ends. `Parser` assumes the same of its only
process. `FixStore` is fair to its `Proceed`: an announcement does not
stay for ever; `FixRun` meets that by the fairness of `Tool`. The other modules
have no liveness property: `Settles` bounds the
number of steps instead, so that it needs no person who keeps mending.

## Disagreements between code and documents

Two are kept as runs that end in a violation.

* `capture_over`: `copyInto` leaves the file of an earlier capture in place when
  the host has none (`live.go:425`), though its comment says replay will read
  the same absence.
* `convert_hyphen`: `<project>-<network>` is not unique (`generate.go:235`),
  though ADR-0001 says projects do not collide.

The models have the steps of the following, without a run of their own.

*Fixing.* In a file whose last entry ends in a backslash the appended `[Install]`
becomes part of that entry (`fix.go:328`), so every further fix appends it again,
against the idempotence `fix.go:11` promises; the files of `fix_edits` are closed.
After a kill between a container and the network file it was joined to, the next
clean fix leaves the reference dangling, since any reference to a `.network` unit
counts as joined.

*Preview.* The comment on `diffLines` (`fix.go:443-445`) says that it is "not a minimal
edit script". Counted in lines removed and added it always is one: that is what
`Shortest` says, and `PreviewIsShortest` proves. The code does better than its comment.

*Ordering.* QD020 takes the whole value of an `After=` for one unit's name
(`network.go:343-346`). systemd takes several, so with `After=db.service
cache.service`, or with `network-online.target` on the same line, a container is
started before its dependency is ready and nothing is reported. `Answerable` leaves
out a race with a dependency that has no `After=` of its own.

*Installation.* `Alias=` is one of the keys Quadlet honours, so a unit whose
`[Install]` has nothing else satisfies QD022 and QD023 (`install.go:53-60`, `93`). It is
never started at boot, though QD022 is the rule about units that are not.
`Answerable` leaves out a unit that is idle for that reason.

*Labels and host.* QD003 advises `context=` and no label, and QD001 then asks for
the label (`selinux.go:170`). QD002 asks for `:z` on system directories, which are
QD004's business (`selinux.go:237`). An existing directory that is no capture
replays as a host without SELinux (`live.go:74`).

*Ownership.* `autoChownDefeated` (`rootless.go:258`) takes a sharer without
`User=` for a rival but not one with an explicit `User=0`, which owns the volume
just as well, though the comment above it speaks of whoever uses the volume first;
a sharer whose user is a name, and a volume named once by its unit and once by
its object, go unnoticed too. QD010 offers `keep-id` and `:U` for one directory: a
container that was given one and a second one that was given the other take it
from each other. QD013's citation says the largest usable ID is "the range's size
minus one" (`rootless.go:71-72`); the code and the machine allow the size itself.

*Ports.* The moved port of QD031 may lie above 65535, below a threshold of more
than 8001, or on a port somebody else publishes. `PublishedPort`
(`compose.go:601`) writes an IPv6 address without brackets and an address without
a host port as `address:port`; `load.go:305` gives the grammar these miss, Podman
refuses them, and QD031 is silent. `MigrationKept` excludes the two by name
(`Expressible`), and a compose port above 65535, which `convert` copies.

*Keys and images.* A unit with `Rootfs=`, added for QD043, and an `image=`, renamed
for QD042, ends up with both keys, which the generator refuses and no rule reports
(the mishap `conflict`).

*Directives and flags.* `disable=QD001, QD002 why` takes `QD002 why` as the reason;
`disable: QD001`, `disable= QD001` and anything else that is neither a list nor
`disable QD001` gives a reason and covers the whole file, against the care of
`config.go:193-197`; `WellPut` leaves these out. A lone `-` among the arguments
ends the flag package's reading, so the flags after it are dropped silently. Only
the configuration of the first path applies, whatever else is linted with it
(`main.go:488`).

*Conversion: what is dropped.* `generate.go:6-7` says that "nothing is dropped
silently", `compose.go:4-6` that "an unsupported key produces a finding, never a silent
drop", and `SPEC.md:110` asks for it. The code does not do that. `unsupportedFor`
(`compose.go:466-559`) looks for a fixed list of keys, and what is neither on it nor
kept by `normalise` (`compose.go:274-458`) goes without a note: `tty`, `stdin_open`,
`cpus`, `domainname`, `dns_opt`, `platform`, `runtime`, `links`, `mac_address` and
`deploy.resources` of a service, `driver_opts`, `enable_ipv6` and every IPAM gateway
but the first of a network. The labels of a network are kept and then not written
(`generate.go:238`), and with `--pod` neither are a service's `network_mode` and
its aliases and addresses (`generate.go:461`). The web server of the run `convert` has a
`tty` that is lost in this way. No property claims that what is dropped is noted,
since it is not; `EndsAsItSays` has what does hold, that no service is left out under
a status of 0.

*Conversion: volumes.* compose calls a volume `<project>_<key>` unless it has a
`name:`. `normalise` gives it the bare key instead (`compose.go:422-428`), on purpose, so
as not to strand data. Hence two projects that compose keeps apart, both with a
volume `data`, share one; in the run `convert` the shop and the blog do. Within one
project the bare key can also meet another volume's `name:`. And an explicit `name:`
that happens to be `<project>_<key>` is cut as well, though the comment on `ObjectName`
(`compose.go:166-167`) says that compose's name is taken "when set". ADR-0001's
sentence on keeping isolation (lines 28-29) stands in a paragraph on networks, and
for networks it holds, but for the names that meet in `convert_hyphen`;
`KeepsIsolation` says of volumes only what is left.

## Proofs

The theorems hold for all values of the constants that satisfy the named
assumptions of the modules, which say what the constants stand for and nothing
about the code: which values are records of which kind, that a sentinel is none of
them, that units and slots are finitely many where something is counted, and that
paths have distinct ranks. None of them mentions a bound on runs, edits, faults,
rounds, files or lines.

Several modules prove by induction over positions of a file or counts of lines.
The library's induction theorems cannot be used for that by the provers at hand,
so each of these modules begins with induction with the property given as a set,
from the well-foundedness of `<`.

**`fix`** (`FixRunProofs`).

* `FixRunTypes`: `Spec => []TypeOK`, with edits, failures and kills.
* `NetworksSurvive`: `Spec => CreatedNeverClobbers`. A network file changes only
  in `OpenFile`, whose guard is `O_EXCL`, and in `WriteFile`, whose file is the
  one that is open.
* `FixNeverMakesQD002`: when every command line names the whole directory,
  `SpecClean => []NoPrivateOnShared`. The property speaks of the disk only, and
  the label was chosen from a project read earlier. `SharingInv` ties the phases
  together: while the project is read, what has been read is what the disk holds;
  until the first write the findings are those of the disk; from then on every
  file, and everything still to be written, is `Safe`: no source it did not have
  when it was loaded, no private label on a source of another loaded unit. Old,
  truncated and new units are all safe, so every mixture of them is.
* `FixLeavesAPrefix`: `SpecAlone => []WritesArePrefix`. `PrefixInv` says that
  before the first write the disk is what was loaded, and that while files are
  written the ones to do are an untouched end of the plan, but for an open first one.
* `FixImplementsStore`: under `FixStoreRun`'s mapping the initial states of
  `SpecAlone` are initial states of `FixStore`, and every step is a step of
  `FixStore` or none. What a run may announce (`MayWrite`) comes from a lemma on
  what `Fixed` adds to a unit.
* `FixReportsWhatRemains`: `Spec => []NothingNewNothingForgotten`, even while
  somebody edits. `FoundInv` says of every file how far its findings have come. The
  proof rests on one lemma about the rules, `NothingNew`: a finding about the
  reworked project is one about the project as loaded that `Declined` names.
* `FixIsIdempotent`: `Spec => []Idempotent`. `RepeatInv` carries from one run to
  the next that the directory is `Settled` for the last command line: whichever
  network a run picks, no finding it is to fix applies any more. Runs with other
  flags may come in between only as previews or refusals, as the property says.

**Host context** (`HostContextProofs`): `HostContextTyped`, `CaptureReplays`
(`ReplayAgrees`), `CaptureLeavesAPrefix` (`CaptureIsPrefix`) and `OneRunOneAnswer`
(`OneAnswer`). The invariant relates every file of the capture that was copied to
an answer the host has given during the capture, so that a host that changes
between two copies does no harm to either; and every cached answer to the first
one given.

**Parser** (`ParserProofs`): `ParserTyped`, `LinesTileTheFile` (`Tiled`) and
`ParserAgreesWithParse` (`AgreesWithParse`). The invariant says that the lines read so
far, followed by what `ParseFrom` makes of the rest, are `Parse` of the file: the
loop's state always sits at a point of the definition's recursion, or inside one
logical line whose end it has not reached.

**`lint`** (`AuditProofs`): `AuditTyped`, `FlagsMayStandAnywhere` (`FlagsCountAnywhere`),
`WhatIsOffIsSilent` (`SwitchedOffIsSilent`), `WhatIsHiddenIsExplained`
(`HiddenIsExplained`) and `ExitStatusIsEarned` (`StatusIsEarned`). What a command
line means (`Meant`) is defined by the role of each argument; the invariant
follows parseArgs and the flag package from left to right and says that both
have given every argument behind them its role. For the report it says which
findings each phase may still drop and why.

**SELinux advice** (`LintProofs`): `TheHostWins` (`HostWins`), `AdviceIsNotTakenBack`
(`AdviceHolds`) and `AdviceEnds` (`Settles`). The last is a bound on a number of
steps and is proved by credits: six for each mount, two for each file with
directives, of which every mending spends two at least. A mount that is moved
from a system directory, that is labelled, and whose source is no longer private gives
up credits for good; that no mending of another mount gives them back is the
heart of it (`MovingLess`, `SharingLess`, `LabelLess`, `ReasonLess`).

**`convert`** (`ConvertProofs`): `ConvertTyped`, `ReferencesResolve` (`Resolves`),
`RunEndsAsItSays` (`EndsAsItSays`) and `ConversionKeepsIsolation` (`KeepsIsolation`),
for projects of any names, those that meet included. `DirInv` says that every
conversion that ended well still finds a unit under each of its names, its own where
nobody has written over it, and `RunInv` which of them the running one has written;
a file is overwritten, never removed, so references resolve. For isolation each
reference of a container is led back to the compose file (`GivesWhatIsMeant`): the unit it
names is there, is `Lost` or is the project's own, and then defines the very object.
That two volumes of one project stay two takes `Distinct` (`NamesKeepApart`).
`OutcomeInv` says in each phase what has become of the directory since the run
began; that the units written are a beginning in the order of names needs that
names are ordered, which is what `RankAssumption` says of the units of one conversion.

**Preview** (`DiffProofs`): `PreviewIsTrue` (`Truthful`) and `PreviewIsShortest`
(`Shortest`), for files of any length. `TableExists` builds a solution of the table's equation from the
end of the files; `TableIsBest` shows that no choice of common lines beats a
cell. The invariant says that the lines matched so far and those the current cell
promises add up to the first cell's, and that what is left of them is found,
in order, in the rest of both files, which is why the walk emits every line of
either file and takes each common one from both.

**Rules against the machine** (`BootProofs`), for any number of containers,
any units, ranges of IDs, texts of `PublishPort=` and facts known of the host.

* `BootTypes`: `Spec => []TypeOK`, the reworked units, ports and hosts included.
* `BootForetold`: `Spec => []FailuresAreForetold`. `BootInv` adds that nothing has
  happened before boot, that processes run as their units say, and `Owned`: every
  place belongs to who owned it first or to a container that mounts it, by a `:U`
  if it is a host directory. Findings are exchanged for what it takes
  to make them (`AtFault`, `FoundWhen`), and each kind of mishap has a lemma that
  leads it back to its rule. What is excepted is in the property (`Answerable`),
  not in a hypothesis. For `unmapped` an ID within the total of the ranges is
  shown to lie in one of them (`WithinIsMapped`, from sums over stretches of a
  sequence); for `unbindable` the port that `ParsePort` reads is shown to be the
  first of those Podman publishes (`JudgedPort`), whatever the text.
* `BootMended`: `Spec => []MendedStaysMended`, for any `MaxMends`. `MendInv` says
  that every mended finding is `Settled`, for a reason of its own rule that implies
  it is gone and that every later mending, of any rule in any unit, carries
  `Onward`. For QD031 that takes `MovedPort`: the text `shiftedPublish` writes is
  read back as the old port plus the offset. A finding that is merely absent would
  not do: the invariant is about why it is absent.
* `BootRaisesNothing`: `Spec => RemediesRaiseNothing`. `LooksAt` names the keys each
  rule looks at and `But` the only ones a remedy changes; what is left are the pairs
  of a rule and a remedy that meet in a key.
* `BootExposure`: `Spec => ExposureKept`. Two values that differ in numbers only have
  their fields in the same places (`FieldsAre`); `MovedWhere` says that the text of
  a moved port differs from the old one within the host field alone, and there by the
  offset, so the range has as many ports as before (`RaisedRange`).
* `BootMigration`: `Spec => MigrationKept`. `PortConverted` reads the value that
  `PublishedPort` writes the way Podman does, and finds the address, the ports and
  the protocol of the compose file. `MigInv` says that all that went wrong with
  units as converted had been noted. That `unless-stopped` becomes `always` and
  every unit is `WantedBy` something is why no such unit stays down or idle.

The proofs rest on what the constants of `Boot` stand for: which spellings of a
source are host paths and which place each means, that a line that says
`Volumes=` is not a mount already, and that `Target`, which stands for the units
that are no containers of the project, is none of them.

Only model-checked:

* `Termination`, `Terminates` and the fairness half of `ImplementsStore`: liveness,
  which these provers do not do.
* `FixEdits`: `LinesKept`, `ReadsBackAsEdited`, `Idempotent` and `FixedOrReported`
  compare two parses of a file; they need `ParserProofs` for files that differ in
  one line, and facts about every operator of `UnitModel`, folds over the lines of a
  file included.

## Assumptions about the machine

`Boot` needs a machine, which is outside the repository. It takes `keep-id` at the
rules' word (the process owns bind mounts as the host user and nothing else
changes), lets a container without a numeric user run as root or as one other
user of the image, keeps a failed unit failed, chowns a fresh volume for its first
user and a `:U` mount at every start, and lets `After=` wait only for units that
are being started. `Requires=`, images that cannot be pulled, and files put into
volumes by hand are not in it. `Answerable` says what the linter cannot know:
subordinate ranges and a threshold it has not been given, the image's own user,
and the cases named under *Ownership*, *Ordering* and *Installation*.

`Remedies` takes `usermod` to extend the range, which is what QD013's remediation is
for. The text of that command is not modelled: `rootless.go:364-367` builds the flag
from `subuid` by cutting off `id` and adding an `s`, and so prints `--add-subsubus`,
where `usermod(8)` has `--add-subuids`. A reader who types what is printed gets an
error, and the ranges stay as they were.

## Not modelled

QD032 (a unit's name against the host's search path) and QD041 (names and values
that look like credentials: predicates on strings); the longest-prefix search of
`MountFor`; `findUpwards`, which looks for `.quaddoc.toml`; the tables of keys for
units that are no containers; `Environment=` and the walk over nested directories;
output formats; `doctor`, `rules` and `version`; the keys `convert` copies one to
one; the generated key table; test support. `fix` over single files may put a
private label on a source a file it was not given shares (`main.go:517`); `FixRun`
has the run, and `NoPrivateOnShared` is claimed for whole directories only.

## Plan

The models are done, and the proofs of all but `FixEdits`. What is left:

1. Proofs: `LinesKept` and `FixedOrReported` of `FixEdits`, from `ParserProofs`.
2. `Search`: `MountFor`, the Quadlet search path and QD032, below `HostContext`.
3. `FixRun!Fixed` related to `FixEdits!Edited` by a refinement mapping.
4. A third container in `Boot`, for volumes shared by three.
