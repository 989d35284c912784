------------------------------ MODULE MCConvert ------------------------------
(***************************************************************************)
(* Two projects that have a service name and a volume in common, and a     *)
(* second version of one compose file.                                     *)
(***************************************************************************)
EXTENDS Convert, TLC

Svc(name, nets, volumes, needs) ==
  [name |-> name, nets |-> nets, volumes |-> volumes, needs |-> needs, mode |-> <<>>,
   active |-> TRUE, healthy |-> FALSE, keys |-> {}]
Own(name)    == [external |-> FALSE, name |-> name]
Theirs(name) == [external |-> TRUE, name |-> name]

Web  == <<"web">>
Db   == <<"db">>
Job  == <<"job">>
Data == <<"data">>
Logs == <<"logs">>
Front == <<"front">>
Back  == <<"back">>
Shop  == <<"shop">>
BlogName == <<"blog">>

\* The shop: a front and a back network, two volumes, a dependency, a service in a
\* profile. Later the back network is somebody else's, the job is active, on the
\* network stack of the web server, and both use the volume `archive`, under two
\* keys.
Shop1 ==
  [services |-> Web :> [Svc("web", {Front, Back}, {Logs}, {Db}) EXCEPT !.keys = {"tty"}] @@
                Db  :> Svc("db", {Back}, {Data}, {}) @@
                Job :> [Svc("job", {Back}, {Data}, {Db}) EXCEPT !.active = FALSE, !.keys = {"build"}],
   networks |-> Front :> Own(DefaultName(Shop, Front)) @@ Back :> Own(DefaultName(Shop, Back)),
   volumes  |-> Data :> Own(DefaultName(Shop, Data)) @@ Logs :> Own(DefaultName(Shop, Logs))]
Shop2 ==
  [services |-> Web :> [Svc("web", {Front, Back}, {Logs}, {Job}) EXCEPT !.healthy = TRUE] @@
                Job :> [Svc("job", {}, {Data}, {}) EXCEPT !.mode = ServiceMode(Web)],
   networks |-> Front :> Own(DefaultName(Shop, Front)) @@ Back :> Theirs(<<"lan">>),
   volumes  |-> Data :> Theirs(<<"archive">>) @@ Logs :> Own(<<"archive">>)]

\* The blog has a database too.
Blog ==
  [services |-> Db :> Svc("blog-db", {Front}, {Data}, {}) @@
                <<"cache">> :> [Svc("cache", {}, {}, {Db}) EXCEPT !.mode = <<"host">>,
                                                                  !.keys = {"restart"}],
   networks |-> Front :> Own(DefaultName(BlogName, Front)),
   volumes  |-> Data :> Own(DefaultName(BlogName, Data))]

MCProjects == {Shop, BlogName}
MCFiles == Shop :> {Shop1, Shop2, Invalid} @@ BlogName :> {Blog}

\* Words in alphabetical order; names are compared word by word ("-" comes before
\* "."), then by type.
Words == <<"api", "back", "blog", "cache", "data", "db", "front", "job", "logs", "shop", "web">>
Index(w) == CHOOSE i \in 1..Len(Words) : Words[i] = w
MCRank(u) ==
  LET base == IF Len(u.base) = 1 THEN Index(u.base[1]) * 1000 + 900
              ELSE Index(u.base[1]) * 1000 + Index(u.base[2]) * 20
      third == IF Len(u.base) = 3 THEN Index(u.base[3]) ELSE 15
  IN  base * 20 + third * 10 + (CASE u.ext = "container" -> 1 [] u.ext = "network" -> 2
                                  [] u.ext = "pod" -> 3 [] u.ext = "volume" -> 4)

\* A project whose name continues another's, with a network to match.
Plain(p, net) ==
  [services |-> Web :> Svc("web", {net}, {}, {}),
   networks |-> net :> Own(DefaultName(p, net)),
   volumes  |-> [v \in {} |-> Own(v)]]
MCHyphens == {Shop, <<"shop", "api">>}
MCHyphenFiles ==
  Shop :> {Plain(Shop, <<"api", "front">>)} @@
  <<"shop", "api">> :> {Plain(<<"shop", "api">>, Front)}
=============================================================================
