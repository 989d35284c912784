------------------------------- MODULE MCBoot -------------------------------
(***************************************************************************)
(* Two containers.  One family of situations pairs users with what they    *)
(* mount, another pairs the remaining things a unit can get wrong, on      *)
(* hosts that differ in what they allow and in what is known of them, and a*)
(* third is what convert makes of compose projects.                        *)
(***************************************************************************)
EXTENDS Migrate, TLC

CONSTANTS a, b

MCPlaceOf == "data.volume" :> "data" @@ "data" :> "data"
          @@ "srv.volume" :> "srv"   @@ "/srv" :> "srv"

Good ==
  [user |-> NoID, userGroup |-> NoID, group |-> NoID, keepId |-> FALSE,
   groupAdd |-> {}, mounts |-> [l \in Lines |-> NoMount],
   port |-> <<V4, Colon, Colon, 80>>,
   after |-> {}, notify |-> FALSE, health |-> FALSE, restart |-> "always",
   install |-> {"WantedBy"}, image |-> [registry |-> TRUE, tag |-> "1.27", digest |-> FALSE],
   imageKey |-> "Image", rootfs |-> FALSE, autoUpdate |-> FALSE, volumes |-> NoMount,
   remap |-> FALSE]

M(kind, src, ro, chown) == [kind |-> kind, src |-> src, ro |-> ro, chown |-> chown]

Mounter(user, mount) == [Good EXCEPT !.user = user, !.mounts["l1"] = mount]

\* keep-id makes a difference to bind mounts only.
Mounters ==
  {Mounter(u, m) :
     u \in {NoID, NamedID, 0, 70, 1000},
     m \in {M("named", "data.volume", FALSE, FALSE), M("named", "data.volume", FALSE, TRUE),
            M("named", "data", FALSE, FALSE), M("named", "srv.volume", FALSE, FALSE),
            M("bind", "/srv", FALSE, FALSE), M("bind", "/srv", TRUE, FALSE)}}
  \cup
  {[Mounter(u, M("bind", "/srv", FALSE, FALSE)) EXCEPT !.keepId = TRUE] : u \in {NoID, 0, 70, 1000}}
  \cup
  {[Mounter(70, M("bind", "/srv", FALSE, TRUE)) EXCEPT !.keepId = k] : k \in BOOLEAN}
  \cup
  {[Mounter(70, M("bind", "/srv", FALSE, FALSE)) EXCEPT !.mounts["l2"] = M("named", "srv.volume", FALSE, TRUE)]}

V6           == <<Open, Colon, Colon, 1, Close, Colon>>
Late         == M("named", "data.volume", FALSE, FALSE)

Faulty ==
  {[Good EXCEPT !.groupAdd = {"name", "keep-groups"}],
   [Good EXCEPT !.port = <<V4, Colon, 80, Dash, 81, Colon, 80, Dash, 81, Slash, Udp>>], [Good EXCEPT !.port = <<1999, Dash, 2000, Colon, 80, Dash, 81>>],
   [Good EXCEPT !.restart = "unless-stopped", !.install = {}],
   [Good EXCEPT !.install = {"Also"}, !.restart = ""],
   [Good EXCEPT !.install = {"Alias"}], [Good EXCEPT !.install = {"Alias", "Also"}],
   [Good EXCEPT !.install = {"Also", "WantedBy"}, !.port = V6 \o <<443, Colon, 443>>],
   [Good EXCEPT !.image.tag = "", !.image.registry = FALSE, !.autoUpdate = TRUE],
   [Good EXCEPT !.image.tag = "", !.image.digest = TRUE, !.autoUpdate = TRUE, !.remap = TRUE],
   [Good EXCEPT !.image.tag = "", !.imageKey = "image", !.autoUpdate = TRUE],
   [Good EXCEPT !.image = NoImage, !.user = 1000, !.volumes = Late],
   [Good EXCEPT !.user = 1501, !.mounts["l1"] = Late],
   [Good EXCEPT !.user = 1500, !.userGroup = 65536, !.volumes = M("bind", "/srv", FALSE, FALSE)],
   [Good EXCEPT !.user = 70000, !.userGroup = 70001, !.mounts["l1"] = Late],
   [Good EXCEPT !.user = 1, !.userGroup = 5, !.group = 65537]}

Others ==
  {Good, [Good EXCEPT !.health = TRUE], [Good EXCEPT !.notify = TRUE],
   [Good EXCEPT !.restart = "unless-stopped", !.mounts["l1"] = Late],
   [Good EXCEPT !.user = 1000, !.mounts["l1"] = Late, !.port = <<80, Colon, 80>>],
   [Good EXCEPT !.user = 70000, !.mounts["l1"] = Late, !.install = {"Also"}]}

HostWith(rootless, subuid, subgid, threshold) ==
  [rootless |-> rootless, subuid |-> subuid, subgid |-> subgid, threshold |-> threshold]

Usual == HostWith(TRUE, <<65536>>, <<65536>>, 1024)
Some  ==
  {[host |-> Usual, known |-> {}],
   [host |-> HostWith(TRUE, <<1000, 500>>, <<65536>>, 2000), known |-> Facts],
   [host |-> HostWith(TRUE, <<>>, <<1000>>, 9000), known |-> Facts \ {"rootless"}],
   [host |-> HostWith(TRUE, <<1000>>, <<>>, 2000), known |-> {"rootless", "subgid"}],
   [host |-> HostWith(FALSE, <<>>, <<>>, 1024), known |-> Facts]}

\* Compose projects, with two volumes of their own and an external one.
MCVolumes    == "data" :> [external |-> FALSE, object |-> "data"] @@
                "srv"  :> [external |-> FALSE, object |-> "srv"] @@
                "old"  :> [external |-> TRUE, object |-> "data"]
MCVolumeUnit == "data" :> "data.volume" @@ "srv" :> "srv.volume"

Exposing(address, published, protocol) ==
  [address |-> address, published |-> published, target |-> 80, protocol |-> protocol]

Svc ==
  [image |-> Good.image, build |-> FALSE, user |-> NoID, userGroup |-> NoID, keepId |-> FALSE,
   groupAdd |-> {}, mounts |-> [l \in Lines |-> NoMount], port |-> Exposing(<<V4>>, 8080, Tcp),
   needs |-> [c \in Containers |-> ""], check |-> "absent", restart |-> ""]

V(type, source, ro) == [type |-> type, source |-> source, ro |-> ro]

Policed == {[Svc EXCEPT !.restart = r] : r \in Policies}
Mounting ==
  {[Svc EXCEPT !.user = u, !.restart = "always", !.mounts["l1"] = m] :
     u \in {NoID, 70, 1000}, m \in {V("volume", v, FALSE) : v \in DOMAIN MCVolumes}
                                    \cup {V("bind", "/srv", r) : r \in BOOLEAN}}
Odd ==
  {[Svc EXCEPT !.image = NoImage, !.build = TRUE], [Svc EXCEPT !.build = TRUE, !.image.tag = ""],
   [Svc EXCEPT !.user = 999, !.userGroup = 70000, !.groupAdd = {"name"}, !.port = Exposing(<<V4>>, 80, Tcp)]}
Exposed ==
  {[Svc EXCEPT !.port = Exposing(i, n, t)] :
     i \in {<<>>, <<V4>>, <<Colon, Colon, 1>>}, n \in {0, 80, 8080}, t \in {Tcp, Udp}}
Backends ==
  {[Svc EXCEPT !.check = k, !.mounts["l1"] = V("volume", "data", FALSE)] : k \in {"NONE", "CMD"}}

Needing(x, y, n) == a :> [x EXCEPT !.needs[b] = n] @@ b :> y

MCComposeProjects ==
  {Needing(x, y, n) : x \in Policed \cup Odd, y \in Backends, n \in Conditions}
  \cup
  {Needing(x, Svc, "") : x \in Exposed}
  \cup
  {Needing(x, y, "service_started") : x \in Mounting, y \in {z \in Mounting : z.user = 70}}

MCSituations ==
  {[prj |-> a :> x @@ b :> y, host |-> Usual, known |-> {}] : x, y \in Mounters}
  \cup
  {[prj |-> a :> [x EXCEPT !.after = n] @@ b :> y, host |-> h.host, known |-> h.known] :
     x \in Faulty, y \in Others, n \in {{}, {{b}}, {{b, Target}}}, h \in Some}
  \cup
  {[prj |-> Converted(p), host |-> Usual, known |-> {}] : p \in MCComposeProjects}
=============================================================================
