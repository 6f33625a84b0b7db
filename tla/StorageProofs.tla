--------------------------- MODULE StorageProofs ----------------------------
(* Proofs about the files: the types, that a boot finds one version of the   *)
(* configuration in both files and the scenario in force in the global one,  *)
(* that a restart finds a save or a reset whole, and that a function reads   *)
(* its own status back.  The invariants speak of what the writes a task has  *)
(* still to do will leave on disk.                                           *)
EXTENDS Storage, TLAPS

-----------------------------------------------------------------------------
(* The configuration files: what the pending writes of a task will leave.  *)

\* The writes a task has still to do, without their order.
Pending(ws) == {ws[i] : i \in DOMAIN ws}

PartOf(c, part) == IF part = "head" THEN c.head ELSE c.body

PartTypes == {"head", "body"}
Writes == [file : Files, part : PartTypes, conf : Config]

\* This part of the file holds version v, or the task will still write it.
Coming(d, ws, f, part, v) ==
    \/ PartOf(d[f].conf, part) = v
    \/ \E w \in ws : w.file = f /\ w.part = part

\* What the task writes to the file is version v.
Carries(ws, f, v) == \A w \in ws : w.file = f => w.conf.head = v /\ w.conf.body = v

\* When the writes are done the file is version v.
Becomes(d, ws, f, v) ==
    Coming(d, ws, f, "head", v) /\ Coming(d, ws, f, "body", v) /\ Carries(ws, f, v)

\* A file that was only created, and that no write will reach.
Untouched(d, ws, f) == d[f].conf.head = 0 /\ d[f].conf.body = 0 /\ \A w \in ws : w.file # f

\* The scenario in the file is s, or the task will still write it.
ScenarioComes(d, ws, s) ==
    /\ \A w \in ws : w.file = "global" /\ w.part = "body" => w.conf.senaryo = s
    /\ \/ d["global"].conf.senaryo = s
       \/ \E w \in ws : w.file = "global" /\ w.part = "body"

\* Before default_start and app_main are through only main writes, afterwards,
\* except after a save, only the event loop.
Writer(u) == IF u = "run" THEN "loop" ELSE "main"

ConfigTypes ==
    /\ TypeOK
    /\ torn \in BOOLEAN /\ resetting \in BOOLEAN /\ saving \in BOOLEAN
    /\ reset_posted \in BOOLEAN /\ timer \in BOOLEAN
    /\ \A f \in Files : disk[f].exists \/ disk[f].conf = ZeroConfig
    /\ up # "global" => disk["global"].exists
    /\ up \in {"web", "run"} => disk["network"].exists

\* Who may be writing.
WhoWrites ==
    /\ up \in {"global", "run"} => todo["main"] = <<>>
    /\ up # "run" => ~stale.web /\ ~stale.loop
    /\ ~stale.web => todo["httpd"] = <<>>
    /\ ~stale.loop => todo["loop"] = <<>> /\ ~resetting

\* A save that nobody disturbs arrives in both files.
SaveArrives ==
    stale.web /\ ~stale.loop =>
        \A f \in Files : Becomes(disk, Pending(todo["httpd"]), f, saves + 1)

\* So does a default reset.
ResetArrives ==
    resetting /\ ~stale.web =>
        \A f \in Files : Becomes(disk, Pending(todo["loop"]), f, 1)

ScenarioArrives ==
    up # "global" /\ ~stale.web =>
        ScenarioComes(disk, Pending(todo[Writer(up)]), GlobalConfig.senaryo)

\* Both files are, or will be, version v; the network file of a first boot is
\* only created, and then v is the version of the defaults.
FilesAgree(d, ws, v) ==
    /\ Becomes(d, ws, "global", v)
    /\ Becomes(d, ws, "network", v) \/ (v = 1 /\ Untouched(d, ws, "network"))

Fresh(d) == \A f \in Files : d[f].conf.head = 0 /\ d[f].conf.body = 0

Holds(c, v) == c.head = v /\ c.body = v

\* What a restart finds.
AtRest(d) == Fresh(d) \/ \E v \in Versions \ {0} : FilesAgree(d, {}, v)

\* The files, the pending writes and the memory while the program runs.
Agreed(u, d, ws, g, n, v) ==
    /\ FilesAgree(d, ws, v)
    /\ Holds(g, v)
    /\ u \in {"web", "run"} => Holds(n, v)
    /\ u = "network" => \A w \in ws : w.file = "global"

\* Nothing but one version, in memory and on its way to the files, while no
\* restart came into the middle of a write and the page was not saved.
OneVersion ==
    ~torn /\ ~stale.web =>
        \/ up = "global" /\ AtRest(disk)
        \/ /\ up # "global"
           /\ \E v \in Versions \ {0} :
                 Agreed(up, disk, Pending(todo[Writer(up)]), GlobalConfig, NetworkConfig, v)

ConfigInv == ConfigTypes /\ WhoWrites /\ SaveArrives /\ ResetArrives /\ ScenarioArrives /\ OneVersion

-----------------------------------------------------------------------------
(* Lemmas about sequences of writes and about one write.                    *)

\* Nothing is pending in the empty sequence.
LEMMA PendingEmpty == Pending(<<>>) = {}
BY DEF Pending

\* The first write and the pending writes of the others are all there are.
LEMMA PendingStep ==
    ASSUME NEW ws \in Seq(Writes), ws # <<>>
    PROVE  /\ Head(ws) \in Writes
           /\ Tail(ws) \in Seq(Writes)
           /\ Pending(ws) = {Head(ws)} \union Pending(Tail(ws))
<1>1. Head(ws) \in Writes /\ Tail(ws) \in Seq(Writes)
  OBVIOUS
<1>2. Pending(ws) \subseteq {Head(ws)} \union Pending(Tail(ws))
  <2>1. SUFFICES ASSUME NEW i \in DOMAIN ws
                 PROVE  ws[i] = Head(ws) \/ \E j \in DOMAIN Tail(ws) : ws[i] = Tail(ws)[j]
    BY Zenon DEF Pending
  <2>2. CASE i = 1
    BY <2>2
  <2>3. CASE i # 1
    <3>1. i - 1 \in DOMAIN Tail(ws) /\ ws[i] = Tail(ws)[i - 1]
      BY <2>3
    <3> QED
      BY <3>1
  <2> QED
    BY <2>2, <2>3
<1>3. {Head(ws)} \union Pending(Tail(ws)) \subseteq Pending(ws)
  <2>1. \A j \in DOMAIN Tail(ws) : j + 1 \in DOMAIN ws /\ Tail(ws)[j] = ws[j + 1]
    OBVIOUS
  <2>2. 1 \in DOMAIN ws /\ Head(ws) = ws[1]
    OBVIOUS
  <2>3. Head(ws) \in Pending(ws)
    BY <2>2, Zenon DEF Pending
  <2>4. \A j \in DOMAIN Tail(ws) : Tail(ws)[j] \in Pending(ws)
    BY <2>1, Zenon DEF Pending
  <2>5. Pending(Tail(ws)) \subseteq Pending(ws)
    BY <2>4, Zenon DEF Pending
  <2> QED
    BY <2>3, <2>5, Zenon
<1> QED
  BY <1>1, <1>2, <1>3, Zenon

HeadWrite(f, c) == [file |-> f, part |-> "head", conf |-> c]
BodyWrite(f, c) == [file |-> f, part |-> "body", conf |-> c]

\* The two parts of a file, and nothing else, are pending in its write.
LEMMA PendingWriteOf ==
    ASSUME NEW f \in Files, NEW c \in Config
    PROVE  /\ WriteOf(f, c) \in Seq(Writes)
           /\ WriteOf(f, c) # <<>>
           /\ Pending(WriteOf(f, c)) = {HeadWrite(f, c), BodyWrite(f, c)}
<1>1. HeadWrite(f, c) \in Writes /\ BodyWrite(f, c) \in Writes
  BY DEF HeadWrite, BodyWrite, Writes, PartTypes
<1>2. WriteOf(f, c) = <<HeadWrite(f, c), BodyWrite(f, c)>>
  BY DEF WriteOf, HeadWrite, BodyWrite
<1>3. ASSUME NEW a, NEW b
      PROVE  Pending(<<a, b>>) = {a, b}
  <2>1. DOMAIN <<a, b>> = {1, 2} /\ <<a, b>>[1] = a /\ <<a, b>>[2] = b
    OBVIOUS
  <2>2. PICK s : s = <<a, b>>
    OBVIOUS
  <2>3. DOMAIN s = {1, 2} /\ s[1] = a /\ s[2] = b
    BY <2>1, <2>2
  <2>4. {s[i] : i \in {1, 2}} = {a, b}
    BY <2>3
  <2> QED
    BY <2>2, <2>3, <2>4, Zenon DEF Pending
<1> QED
  BY <1>1, <1>2, <1>3

\* The writes of a concatenation are those of both.
LEMMA PendingConcat ==
    ASSUME NEW s \in Seq(Writes), NEW t \in Seq(Writes)
    PROVE  /\ s \o t \in Seq(Writes)
           /\ s # <<>> => s \o t # <<>>
           /\ Pending(s \o t) = Pending(s) \union Pending(t)
<1>1. /\ s \o t \in Seq(Writes)
      /\ s # <<>> => s \o t # <<>>
  OBVIOUS
<1>2. \A i \in DOMAIN s : i \in DOMAIN (s \o t) /\ (s \o t)[i] = s[i]
  OBVIOUS
<1>3. \A j \in DOMAIN t :
         j + Len(s) \in DOMAIN (s \o t) /\ (s \o t)[j + Len(s)] = t[j]
  OBVIOUS
<1>4. ASSUME NEW i \in DOMAIN (s \o t)
      PROVE  \/ \E j \in DOMAIN s : (s \o t)[i] = s[j]
             \/ \E j \in DOMAIN t : (s \o t)[i] = t[j]
  <2>1. CASE i <= Len(s)
    BY <2>1
  <2>2. CASE i > Len(s)
    <3>1. i - Len(s) \in DOMAIN t /\ (s \o t)[i] = t[i - Len(s)]
      BY <2>2
    <3> QED
      BY <3>1, Zenon
  <2> QED
    BY <2>1, <2>2
<1>5. Pending(s) \subseteq Pending(s \o t)
  BY <1>2, Zenon DEF Pending
<1>6. Pending(t) \subseteq Pending(s \o t)
  BY <1>3, Zenon DEF Pending
<1>7. Pending(s \o t) \subseteq Pending(s) \union Pending(t)
  BY <1>4, Zenon DEF Pending
<1> QED
  BY <1>1, <1>5, <1>6, <1>7, Zenon

Disks == [Files -> [exists : BOOLEAN, conf : Config]]

\* The file holds what was written, in the part that was written.
Lands(d, w, e) ==
    /\ e \in Disks
    /\ \A f \in Files : e[f].exists = d[f].exists
    /\ \A f \in Files : f # w.file => e[f] = d[f]
    /\ PartOf(e[w.file].conf, w.part) = PartOf(w.conf, w.part)
    /\ \A part \in PartTypes :
          part # w.part => PartOf(e[w.file].conf, part) = PartOf(d[w.file].conf, part)
    /\ e[w.file].conf.senaryo = IF w.part = "body" THEN w.conf.senaryo ELSE d[w.file].conf.senaryo

\* A write of a part lands in its file, and in nothing else.
LEMMA Landed ==
    ASSUME NEW d \in Disks, NEW w \in Writes
    PROVE  Lands(d, w, After(d, w))
<1> DEFINE e == After(d, w)
<1>1. w.file \in Files /\ w.conf \in Config /\ w.part \in PartTypes /\ d[w.file].conf \in Config
      /\ d[w.file].exists \in BOOLEAN
  BY DEF Writes, Disks
<1>2. PICK p : p = Put(d[w.file].conf, w)
  BY Zenon
<1>3. /\ p \in Config
      /\ p.head = IF w.part = "head" THEN w.conf.head ELSE d[w.file].conf.head
      /\ p.body = IF w.part = "head" THEN d[w.file].conf.body ELSE w.conf.body
      /\ p.senaryo = IF w.part = "head" THEN d[w.file].conf.senaryo ELSE w.conf.senaryo
  BY <1>1, <1>2 DEF Put, Config
<1>4. PICK x : x = Written(d[w.file], w)
  BY Zenon
<1>5. x = [exists |-> d[w.file].exists, conf |-> p]
  BY <1>2, <1>4, Zenon DEF Written
<1>6. x \in [exists : BOOLEAN, conf : Config] /\ x.exists = d[w.file].exists /\ x.conf = p
  BY <1>1, <1>3, <1>5
<1>7. /\ e \in Disks
      /\ e[w.file] = x
      /\ \A f \in Files : f # w.file => e[f] = d[f]
  BY <1>1, <1>4, <1>6 DEF Disks, After
<1>8. \A f \in Files : e[f].exists = d[f].exists
  BY <1>6, <1>7
<1>9. PartOf(p, w.part) = PartOf(w.conf, w.part)
  BY <1>1, <1>3 DEF PartOf, PartTypes
<1>10. \A part \in PartTypes : part # w.part => PartOf(p, part) = PartOf(d[w.file].conf, part)
  BY <1>1, <1>3 DEF PartOf, PartTypes
<1>11. p.senaryo = IF w.part = "body" THEN w.conf.senaryo ELSE d[w.file].conf.senaryo
  BY <1>1, <1>3 DEF PartTypes
<1>12. e[w.file].conf = p
  BY <1>6, <1>7
<1> HIDE DEF e
<1>13. Lands(d, w, e)
  BY <1>7, <1>8, <1>9, <1>10, <1>11, <1>12, Zenon DEF Lands
<1> QED
  BY <1>13 DEF e

\* A write of what was to come leaves the rest to come.
LEMMA BecomesStep ==
    ASSUME NEW d \in Disks, NEW w \in Writes, NEW ws, NEW f \in Files, NEW v,
           d[w.file].exists, Becomes(d, {w} \union ws, f, v)
    PROVE  Becomes(After(d, w), ws, f, v)
<1>1. PICK g : g = After(d, w)
  OBVIOUS
<1>2. /\ \A h \in Files : h # w.file => g[h] = d[h]
      /\ PartOf(g[w.file].conf, w.part) = PartOf(w.conf, w.part)
      /\ \A part \in PartTypes :
            part # w.part => PartOf(g[w.file].conf, part) = PartOf(d[w.file].conf, part)
  BY <1>1, Landed, Zenon DEF Lands
<1>3. Carries(ws, f, v)
  BY Zenon DEF Becomes, Carries
<1>4. w.file = f => PartOf(w.conf, w.part) = v
  BY Zenon DEF Becomes, Carries, PartOf
<1>5. ASSUME NEW part \in PartTypes, Coming(d, {w} \union ws, f, part, v)
      PROVE  Coming(g, ws, f, part, v)
  <2>1. CASE w.file = f /\ w.part = part
    BY <1>2, <1>4, <2>1, Zenon DEF Coming
  <2>2. CASE ~(w.file = f /\ w.part = part)
    <3>1. PartOf(d[f].conf, part) = v \/ \E u \in ws : u.file = f /\ u.part = part
      BY <1>5, <2>2, Zenon DEF Coming
    <3>2. PartOf(g[f].conf, part) = PartOf(d[f].conf, part)
      BY <1>2, <2>2, Zenon
    <3> QED
      BY <3>1, <3>2, Zenon DEF Coming
  <2> QED
    BY <2>1, <2>2, Zenon
<1>6. "head" \in PartTypes /\ "body" \in PartTypes
  BY DEF PartTypes
<1>7. Becomes(g, ws, f, v)
  BY <1>3, <1>5, <1>6, Zenon DEF Becomes
<1> QED
  BY <1>1, <1>7, Zenon

\* The same for the scenario.
LEMMA ScenarioStep ==
    ASSUME NEW d \in Disks, NEW w \in Writes, NEW ws, NEW s,
           d[w.file].exists, ScenarioComes(d, {w} \union ws, s)
    PROVE  ScenarioComes(After(d, w), ws, s)
<1>1. PICK g : g = After(d, w)
  OBVIOUS
<1>2. /\ \A h \in Files : h # w.file => g[h] = d[h]
      /\ g[w.file].conf.senaryo =
            IF w.part = "body" THEN w.conf.senaryo ELSE d[w.file].conf.senaryo
  BY <1>1, Landed, Zenon DEF Lands
<1>3. "global" \in Files
  BY DEF Files
<1>4. CASE w.file = "global" /\ w.part = "body"
  BY <1>2, <1>4, <1>1, Zenon DEF ScenarioComes
<1>5. CASE w.file = "global" /\ w.part # "body"
  BY <1>2, <1>5, <1>1, Zenon DEF ScenarioComes
<1>6. CASE w.file # "global"
  <2>1. g["global"] = d["global"]
    BY <1>2, <1>3, <1>6, Zenon
  <2> QED
    BY <2>1, <1>6, <1>1, Zenon DEF ScenarioComes
<1> QED
  BY <1>4, <1>5, <1>6, Zenon

\* A write elsewhere leaves a file untouched.
LEMMA UntouchedStep ==
    ASSUME NEW d \in Disks, NEW w \in Writes, NEW ws, NEW f \in Files,
           d[w.file].exists, Untouched(d, {w} \union ws, f)
    PROVE  Untouched(After(d, w), ws, f)
<1>1. PICK g : g = After(d, w)
  OBVIOUS
<1>2. \A h \in Files : h # w.file => g[h] = d[h]
  BY <1>1, Landed, Zenon DEF Lands
<1>3. w.file # f /\ \A u \in ws : u.file # f
  BY Zenon DEF Untouched
<1>4. g[f] = d[f]
  BY <1>2, <1>3, Zenon
<1> QED
  BY <1>1, <1>3, <1>4, Zenon DEF Untouched

-----------------------------------------------------------------------------
(* The type invariant of the configuration files.                           *)

\* What the defaults and a save make of a configuration.
LEMMA Configurations ==
    /\ ZeroConfig \in Config
    /\ \A c \in Config : Default(c) \in Config /\ Holds(Default(c), 1)
                         /\ Default(c).senaryo = c.senaryo
    /\ \A c \in Config, v \in Versions : Saved(c, v) \in Config /\ Holds(Saved(c, v), v)
    /\ \A c \in Config, s \in Scenarios :
          /\ [c EXCEPT !.senaryo = s] \in Config
          /\ [c EXCEPT !.senaryo = s].senaryo = s
          /\ \A v : Holds(c, v) => Holds([c EXCEPT !.senaryo = s], v)
<1>1. 0 \in Versions /\ 1 \in Versions
  BY ConfigAssumption DEF Versions
<1> QED
  BY <1>1 DEF ZeroConfig, Config, Default, Saved, Holds

\* A pair of configurations is a value of web.
LEMMA WebTypes ==
    ASSUME NEW n \in Config, NEW g \in Config
    PROVE  [network |-> n, global |-> g] \in [network : Config, global : Config]
OBVIOUS

\* What TypeOK says of each variable.
LEMMA TypeFacts ==
    ASSUME TypeOK
    PROVE  /\ disk \in Disks
           /\ up = "run" => \A f \in Files : disk[f].exists
           /\ GlobalConfig \in Config /\ NetworkConfig \in Config
           /\ web \in [network : Config, global : Config]
           /\ web.network \in Config /\ web.global \in Config
           /\ up \in {"global", "network", "web", "run"}
           /\ todo \in [Tasks -> Seq(Writes)]
           /\ saves \in 0 .. MaxSaves /\ crashes \in 0 .. MaxCrashes
           /\ stale \in [web : BOOLEAN, loop : BOOLEAN]
           /\ "main" \in Tasks /\ "loop" \in Tasks /\ "httpd" \in Tasks
           /\ "global" \in Files /\ "network" \in Files
<1>1. /\ disk \in Disks /\ todo \in [Tasks -> Seq(Writes)]
      /\ up = "run" => \A f \in Files : disk[f].exists
      /\ GlobalConfig \in Config /\ NetworkConfig \in Config
      /\ web \in [network : Config, global : Config]
      /\ up \in {"global", "network", "web", "run"}
      /\ saves \in 0 .. MaxSaves /\ crashes \in 0 .. MaxCrashes
      /\ stale \in [web : BOOLEAN, loop : BOOLEAN]
  BY Zenon DEF TypeOK, Disks, Writes, PartTypes
<1>2. web.network \in Config /\ web.global \in Config
  BY <1>1
<1> QED
  BY <1>1, <1>2 DEF Tasks, Files

\* The same the other way round, for a step.
LEMMA TypesFromFacts ==
    ASSUME /\ disk' \in Disks
           /\ up' = "run" => \A f \in Files : disk'[f].exists
           /\ GlobalConfig' \in Config /\ NetworkConfig' \in Config
           /\ web' \in [network : Config, global : Config]
           /\ up' \in {"global", "network", "web", "run"}
           /\ todo' \in [Tasks -> Seq(Writes)]
           /\ torn' \in BOOLEAN /\ resetting' \in BOOLEAN /\ saving' \in BOOLEAN
           /\ reset_posted' \in BOOLEAN /\ timer' \in BOOLEAN
           /\ saves' \in 0 .. MaxSaves /\ crashes' \in 0 .. MaxCrashes
           /\ stale' \in [web : BOOLEAN, loop : BOOLEAN]
    PROVE  TypeOK'
<1>1. {resetting', saving', reset_posted', timer', torn'} \subseteq BOOLEAN
  BY Zenon
<1> QED
  BY <1>1, Zenon DEF TypeOK, Disks, Writes, PartTypes

\* Scheduling types the writes.
LEMMA ScheduleTypes ==
    ASSUME todo \in [Tasks -> Seq(Writes)], NEW t \in Tasks, NEW ws \in Seq(Writes),
           Schedule(t, ws)
    PROVE  /\ todo' \in [Tasks -> Seq(Writes)]
           /\ todo[t] = <<>> /\ todo'[t] = ws
           /\ \A u \in Tasks : u # t => todo'[u] = todo[u]
BY DEF Schedule

\* Creating a file changes nothing that was in it.
LEMMA CreateTypes ==
    ASSUME disk \in Disks, NEW f \in Files, disk' = [disk EXCEPT ![f] = FileControl(f)]
    PROVE  /\ disk' \in Disks
           /\ disk'[f].exists
           /\ \A g \in Files : disk'[g].conf = disk[g].conf
           /\ \A g \in Files : g # f => disk'[g] = disk[g]
<1>1. disk[f] \in [exists : BOOLEAN, conf : Config]
  BY DEF Disks
<1>2. PICK x : x = FileControl(f)
  BY Zenon
<1>3. x \in [exists : BOOLEAN, conf : Config] /\ x.exists /\ x.conf = disk[f].conf
  BY <1>1, <1>2 DEF FileControl
<1> QED
  BY <1>2, <1>3 DEF Disks

\* A step of a write: which task, what is on disk, what is left.
WritePartFacts(t, w) ==
    /\ w \in Writes /\ w = Head(todo[t])
    /\ todo' \in [Tasks -> Seq(Writes)]
    /\ Pending(todo[t]) = {w} \union Pending(todo'[t])
    /\ \A u \in Tasks : u # t => todo'[u] = todo[u]
    /\ \/ disk[w.file].exists /\ disk' = After(disk, w)
       \/ ~disk[w.file].exists /\ disk' = disk
    /\ disk' \in Disks
    /\ \A f \in Files : disk'[f].exists = disk[f].exists
    /\ \A f \in Files : f # w.file => disk'[f] = disk[f]

\* Each step of a write does this.
LEMMA WritePartStep ==
    ASSUME TypeOK, NEW t \in Tasks, WritePart(t)
    PROVE  \E w : WritePartFacts(t, w)
<1>1. disk \in Disks /\ todo \in [Tasks -> Seq(Writes)]
  BY TypeFacts, Zenon
<1>2. todo[t] \in Seq(Writes) /\ todo[t] # <<>>
  BY <1>1, Zenon DEF WritePart
<1>3. PICK w : w = Head(todo[t])
  OBVIOUS
<1>4. /\ w \in Writes
      /\ Tail(todo[t]) \in Seq(Writes)
      /\ Pending(todo[t]) = {w} \union Pending(Tail(todo[t]))
  BY <1>2, <1>3, PendingStep, Zenon
<1>5. todo' = [todo EXCEPT ![t] = Tail(@)]
  BY Zenon DEF WritePart
<1>6. /\ todo' \in [Tasks -> Seq(Writes)]
      /\ todo'[t] = Tail(todo[t])
      /\ \A u \in Tasks : u # t => todo'[u] = todo[u]
  BY <1>1, <1>4, <1>5
<1>7. \/ disk[w.file].exists /\ disk' = After(disk, w)
      \/ ~disk[w.file].exists /\ disk' = disk
  BY <1>3, Zenon DEF WritePart
<1>8. /\ disk' \in Disks
      /\ \A f \in Files : disk'[f].exists = disk[f].exists
      /\ \A f \in Files : f # w.file => disk'[f] = disk[f]
  <2>1. CASE disk[w.file].exists /\ disk' = After(disk, w)
    BY <1>1, <1>4, <2>1, Landed, Zenon DEF Lands
  <2>2. CASE disk' = disk
    BY <1>1, <2>2, Zenon
  <2> QED
    BY <1>7, <2>1, <2>2, Zenon
<1>9. Pending(todo[t]) = {w} \union Pending(todo'[t])
  BY <1>4, <1>6, Zenon
<1>10. WritePartFacts(t, w)
  BY <1>3, <1>4, <1>6, <1>7, <1>8, <1>9, SMT DEF WritePartFacts
<1> QED
  BY <1>10, Zenon

\* A restart types the memory.
LEMMA RebootTypes ==
    ASSUME ConfigTypes, Reboot, crashes' \in 0 .. MaxCrashes
    PROVE  ConfigTypes'
<1>1. disk' = disk /\ saves' = saves /\ up' = "global"
  BY Zenon DEF Reboot
<1>2. GlobalConfig' = ZeroConfig /\ NetworkConfig' = ZeroConfig
      /\ web' = [network |-> ZeroConfig, global |-> ZeroConfig]
  BY Zenon DEF Reboot
<1>3. web' \in [network : Config, global : Config]
  BY <1>2, Configurations, WebTypes, Zenon
<1>4. todo' \in [Tasks -> Seq(Writes)]
  <2>1. todo' = [t \in Tasks |-> <<>>]
    BY Zenon DEF Reboot
  <2> QED
    BY <2>1
<1>5. stale' \in [web : BOOLEAN, loop : BOOLEAN]
  BY DEF Reboot
<1>6. torn' \in BOOLEAN /\ resetting' \in BOOLEAN /\ saving' \in BOOLEAN
      /\ reset_posted' \in BOOLEAN /\ timer' \in BOOLEAN
  <2>1. torn' \in BOOLEAN
    BY Zenon DEF Reboot
  <2> QED
    BY <2>1 DEF Reboot
<1>7. disk \in Disks /\ saves \in 0 .. MaxSaves
  BY TypeFacts, Zenon DEF ConfigTypes
<1>8. TypeOK'
  BY <1>1, <1>2, <1>3, <1>4, <1>5, <1>6, <1>7, TypesFromFacts, Configurations, Zenon
<1>9. /\ \A f \in Files : disk'[f].exists \/ disk'[f].conf = ZeroConfig
      /\ up' # "global" => disk'["global"].exists
      /\ up' \in {"web", "run"} => disk'["network"].exists
  BY <1>1, Zenon DEF ConfigTypes
<1> QED
  BY <1>6, <1>8, <1>9, Zenon DEF ConfigTypes

\* What a typed state must satisfy besides TypeOK.
FilesMade ==
    /\ \A f \in Files : disk[f].exists \/ disk[f].conf = ZeroConfig
    /\ up # "global" => disk["global"].exists
    /\ up \in {"web", "run"} => disk["network"].exists

\* Every step of the boot, of the event loop and of the web server keeps the
\* types, and creates the files the boot needs.
LEMMA ConfigTypesStep ==
    ASSUME ConfigTypes, WhoWrites, Next
    PROVE  ConfigTypes'
<1> USE DEF FilesMade
<1>1. /\ disk \in Disks
      /\ up = "run" => \A f \in Files : disk[f].exists
      /\ GlobalConfig \in Config /\ NetworkConfig \in Config
      /\ web \in [network : Config, global : Config]
      /\ web.network \in Config /\ web.global \in Config
      /\ up \in {"global", "network", "web", "run"}
      /\ todo \in [Tasks -> Seq(Writes)]
      /\ saves \in 0 .. MaxSaves /\ crashes \in 0 .. MaxCrashes
      /\ stale \in [web : BOOLEAN, loop : BOOLEAN]
      /\ "main" \in Tasks /\ "loop" \in Tasks /\ "httpd" \in Tasks
      /\ "global" \in Files /\ "network" \in Files
  BY TypeFacts, Zenon DEF ConfigTypes
<1>2. /\ torn \in BOOLEAN /\ resetting \in BOOLEAN /\ saving \in BOOLEAN
      /\ reset_posted \in BOOLEAN /\ timer \in BOOLEAN
  BY Zenon DEF ConfigTypes
<1>3. TypeOK /\ FilesMade
  BY Zenon DEF ConfigTypes
<1>4. ASSUME TypeOK', FilesMade', torn' \in BOOLEAN, resetting' \in BOOLEAN, saving' \in BOOLEAN,
             reset_posted' \in BOOLEAN, timer' \in BOOLEAN
      PROVE  ConfigTypes'
  BY <1>4, Zenon DEF ConfigTypes
<1>5. CASE BootGlobal
  <2>1. /\ up' = "network" /\ up = "global"
        /\ NetworkConfig' = NetworkConfig /\ web' = web /\ saves' = saves /\ crashes' = crashes
        /\ stale' = stale /\ torn' = torn /\ resetting' = resetting /\ saving' = saving
        /\ reset_posted' = reset_posted /\ timer' = timer
    BY <1>5 DEF BootGlobal, ghostVars
  <2>2. CASE disk["global"].conf.head # 0 /\ GlobalConfig' = disk["global"].conf
             /\ disk' = disk /\ todo' = todo
    <3>1. GlobalConfig' \in Config /\ disk' \in Disks /\ todo' \in [Tasks -> Seq(Writes)]
      BY <1>1, <2>2 DEF Disks
    <3>2. TypeOK'
      BY <1>1, <1>2, <2>1, <3>1, TypesFromFacts, Zenon
    <3>3. disk["global"].exists
      BY <1>1, <1>3, <2>2 DEF ZeroConfig
    <3>4. FilesMade'
      BY <1>3, <2>1, <2>2, <3>3
    <3> QED
      BY <1>2, <1>4, <2>1, <3>2, <3>4, Zenon
  <2>3. CASE /\ GlobalConfig' = Default(disk["global"].conf)
             /\ disk' = [disk EXCEPT !["global"] = FileControl("global")]
             /\ Schedule("main", WriteOf("global", GlobalConfig'))
    <3>1. disk["global"].conf \in Config
      BY <1>1 DEF Disks
    <3>2. GlobalConfig' \in Config
      BY <2>3, <3>1, Configurations, Zenon
    <3>3. WriteOf("global", GlobalConfig') \in Seq(Writes)
      BY <1>1, <3>2, PendingWriteOf, Zenon
    <3>4. todo' \in [Tasks -> Seq(Writes)]
      BY <1>1, <2>3, <3>3, ScheduleTypes, Zenon
    <3>5. /\ disk' \in Disks /\ disk'["global"].exists
          /\ \A g \in Files : disk'[g].conf = disk[g].conf
          /\ \A g \in Files : g # "global" => disk'[g] = disk[g]
      BY <1>1, <2>3, CreateTypes, Zenon
    <3>6. TypeOK'
      BY <1>1, <1>2, <2>1, <3>2, <3>4, <3>5, TypesFromFacts, Zenon
    <3>7. FilesMade'
      BY <1>3, <2>1, <3>5
    <3> QED
      BY <1>2, <1>4, <2>1, <3>6, <3>7, Zenon
  <2> QED
    BY <1>5, <2>2, <2>3, Zenon DEF BootGlobal
<1>6. CASE BootNetwork
  <2>1. /\ up' = "web" /\ up = "network"
        /\ GlobalConfig' = GlobalConfig /\ web' = web /\ saves' = saves /\ crashes' = crashes
        /\ stale' = stale /\ torn' = torn /\ resetting' = resetting /\ saving' = saving
        /\ reset_posted' = reset_posted /\ timer' = timer
    BY <1>6 DEF BootNetwork, ghostVars
  <2>2. CASE disk["network"].conf.head # 0 /\ NetworkConfig' = disk["network"].conf
             /\ disk' = disk /\ todo' = todo
    <3>1. NetworkConfig' \in Config /\ disk' \in Disks /\ todo' \in [Tasks -> Seq(Writes)]
      BY <1>1, <2>2 DEF Disks
    <3>2. TypeOK'
      BY <1>1, <1>2, <2>1, <3>1, TypesFromFacts, Zenon
    <3>3. disk["network"].exists
      BY <1>1, <1>3, <2>2 DEF ZeroConfig
    <3>4. FilesMade'
      BY <1>3, <2>1, <2>2, <3>3
    <3> QED
      BY <1>2, <1>4, <2>1, <3>2, <3>4, Zenon
  <2>3. CASE /\ NetworkConfig' = Default(disk["network"].conf)
             /\ disk' = [disk EXCEPT !["network"] = FileControl("network")]
             /\ Schedule("main", WriteOf("network", NetworkConfig')) \/ todo' = todo
    <3>1. disk["network"].conf \in Config
      BY <1>1 DEF Disks
    <3>2. NetworkConfig' \in Config
      BY <2>3, <3>1, Configurations, Zenon
    <3>3. WriteOf("network", NetworkConfig') \in Seq(Writes)
      BY <1>1, <3>2, PendingWriteOf, Zenon
    <3>4. todo' \in [Tasks -> Seq(Writes)]
      BY <1>1, <2>3, <3>3, ScheduleTypes, Zenon
    <3>5. /\ disk' \in Disks /\ disk'["network"].exists
          /\ \A g \in Files : disk'[g].conf = disk[g].conf
          /\ \A g \in Files : g # "network" => disk'[g] = disk[g]
      BY <1>1, <2>3, CreateTypes, Zenon
    <3>6. TypeOK'
      BY <1>1, <1>2, <2>1, <3>2, <3>4, <3>5, TypesFromFacts, Zenon
    <3>7. FilesMade'
      BY <1>1, <1>3, <2>1, <3>5
    <3> QED
      BY <1>2, <1>4, <2>1, <3>6, <3>7, Zenon
  <2> QED
    BY <1>6, <2>2, <2>3, Zenon DEF BootNetwork
<1>7. CASE BootWeb
  <2>1. /\ up' = "run" /\ up = "web" /\ disk' = disk
        /\ GlobalConfig' = GlobalConfig /\ NetworkConfig' = NetworkConfig
        /\ web' = [network |-> NetworkConfig, global |-> GlobalConfig]
        /\ todo' = todo /\ saves' = saves /\ crashes' = crashes
        /\ stale' = stale /\ torn' = torn /\ resetting' = resetting /\ saving' = saving
        /\ reset_posted' = reset_posted /\ timer' = timer
    BY <1>7 DEF BootWeb, ghostVars
  <2>2. web' \in [network : Config, global : Config]
    BY <1>1, <2>1, WebTypes, Zenon
  <2>3. \A f \in Files : disk'[f].exists
    BY <1>3, <2>1 DEF Files
  <2>4. TypeOK'
    BY <1>1, <1>2, <2>1, <2>2, <2>3, TypesFromFacts, Zenon
  <2>5. FilesMade'
    BY <1>1, <2>1, <2>3, Zenon
  <2> QED
    BY <1>2, <1>4, <2>1, <2>4, <2>5, Zenon
<1>8. ASSUME NEW t \in Tasks, WritePart(t)
      PROVE  ConfigTypes'
  <2>1. /\ GlobalConfig' = GlobalConfig /\ NetworkConfig' = NetworkConfig /\ web' = web
        /\ up' = up /\ saves' = saves /\ crashes' = crashes /\ stale' = stale
        /\ resetting' = resetting /\ saving' = saving
        /\ reset_posted' = reset_posted /\ timer' = timer
    BY <1>8 DEF WritePart, ramVars
  <2>2. torn' \in BOOLEAN
    BY <1>8, Zenon DEF WritePart
  <2>3. PICK w : WritePartFacts(t, w)
    BY <1>3, <1>8, WritePartStep, Zenon
  <2>4. /\ todo' \in [Tasks -> Seq(Writes)] /\ disk' \in Disks
        /\ \A f \in Files : disk'[f].exists = disk[f].exists
        /\ \A f \in Files : f # w.file => disk'[f] = disk[f]
        /\ disk[w.file].exists \/ disk' = disk
    BY <2>3, Zenon DEF WritePartFacts
  <2>5. up' = "run" => \A f \in Files : disk'[f].exists
    BY <1>1, <2>1, <2>4, Zenon
  <2>6. TypeOK'
    BY <1>1, <1>2, <2>1, <2>2, <2>4, <2>5, TypesFromFacts, Zenon
  <2>7. FilesMade'
    BY <1>1, <1>3, <2>1, <2>4, Zenon
  <2> QED
    BY <1>2, <1>4, <2>1, <2>2, <2>6, <2>7, Zenon
<1>9. ASSUME NEW s \in Scenarios, Sen(s)
      PROVE  ConfigTypes'
  <2>1. /\ NetworkConfig' = NetworkConfig /\ web' = web /\ disk' = disk
        /\ up' = up /\ saves' = saves /\ crashes' = crashes /\ torn' = torn
        /\ resetting' = resetting /\ saving' = saving
        /\ reset_posted' = reset_posted /\ timer' = timer
    BY <1>9 DEF Sen
  <2>2. GlobalConfig' \in Config
    BY <1>1, <1>9, Configurations, Zenon DEF Sen
  <2>3. WriteOf("global", GlobalConfig') \in Seq(Writes)
    BY <1>1, <2>2, PendingWriteOf, Zenon
  <2>4. todo' \in [Tasks -> Seq(Writes)]
    BY <1>1, <1>9, <2>3, ScheduleTypes, Zenon DEF Sen
  <2>5. stale' \in [web : BOOLEAN, loop : BOOLEAN]
    BY <1>1, <1>9 DEF Sen
  <2>6. TypeOK'
    BY <1>1, <1>2, <2>1, <2>2, <2>4, <2>5, TypesFromFacts, Zenon
  <2>7. FilesMade'
    BY <1>3, <2>1, Zenon
  <2> QED
    BY <1>2, <1>4, <2>1, <2>6, <2>7, Zenon
<1>10. CASE DefaultReset
  <2>1. /\ web' = web /\ disk' = disk
        /\ up' = up /\ saves' = saves /\ crashes' = crashes /\ torn' = torn
        /\ resetting' = TRUE /\ saving' = saving
        /\ reset_posted' = FALSE /\ timer' = timer
    BY <1>10, Zenon DEF DefaultReset
  <2>2. GlobalConfig' \in Config /\ NetworkConfig' \in Config
    BY <1>1, <1>10, Configurations, Zenon DEF DefaultReset
  <2>3. Default(NetworkConfig) \in Config /\ Default(GlobalConfig) \in Config
    BY <1>1, Configurations, Zenon
  <2>4. ResetWrites \in Seq(Writes)
    BY <1>1, <2>3, PendingWriteOf, PendingConcat, Zenon DEF ResetWrites
  <2>5. todo' \in [Tasks -> Seq(Writes)]
    BY <1>1, <1>10, <2>4, ScheduleTypes, Zenon DEF DefaultReset
  <2>6. stale' \in [web : BOOLEAN, loop : BOOLEAN]
    BY <1>1, <1>10 DEF DefaultReset
  <2>7. TypeOK'
    BY <1>1, <1>2, <2>1, <2>2, <2>5, <2>6, TypesFromFacts, Zenon
  <2>8. FilesMade'
    BY <1>3, <2>1, Zenon
  <2> QED
    BY <1>2, <1>4, <2>1, <2>7, <2>8, Zenon
<1>11. CASE Save
  <2>1. /\ GlobalConfig' = GlobalConfig /\ NetworkConfig' = NetworkConfig /\ disk' = disk
        /\ up' = up /\ crashes' = crashes /\ torn' = torn
        /\ resetting' = resetting /\ saving' = TRUE
        /\ reset_posted' = reset_posted /\ timer' = timer
    BY <1>11, Zenon DEF Save
  <2>2. saves' \in 0 .. MaxSaves /\ saves + 2 \in Versions
    BY <1>1, <1>11, ConfigAssumption DEF Save, Versions
  <2>3. /\ Saved(web.network, saves + 2) \in Config
        /\ Saved(web.global, saves + 2) \in Config
    BY <1>1, <2>2, Configurations, Zenon
  <2>4. web' = [network |-> Saved(web.network, saves + 2),
                global |-> Saved(web.global, saves + 2)]
    BY <1>11, Zenon DEF Save
  <2>5. web' \in [network : Config, global : Config]
    BY <2>3, <2>4, WebTypes, Zenon
  <2>6. web'.network \in Config /\ web'.global \in Config
    BY <2>5
  <2>7. SaveWrites(web') \in Seq(Writes)
    BY <1>1, <2>6, PendingWriteOf, PendingConcat, Zenon DEF SaveWrites
  <2>8. todo' \in [Tasks -> Seq(Writes)]
    BY <1>1, <1>11, <2>7, ScheduleTypes, Zenon DEF Save
  <2>9. stale' \in [web : BOOLEAN, loop : BOOLEAN]
    <3>1. PICK b \in BOOLEAN : b = (resetting \/ todo["loop"] # <<>>)
      BY Zenon
    <3>2. stale' = [web |-> TRUE, loop |-> b]
      BY <1>11, <3>1, Zenon DEF Save
    <3> QED
      BY <3>2
  <2>10. TypeOK'
    BY <1>1, <1>2, <2>1, <2>2, <2>5, <2>8, <2>9, TypesFromFacts, Zenon
  <2>11. FilesMade'
    BY <1>3, <2>1, Zenon
  <2> QED
    BY <1>2, <1>4, <2>1, <2>10, <2>11, Zenon
<1>12. CASE SaveDone \/ DefaultHandler
  <2>1. /\ GlobalConfig' = GlobalConfig /\ NetworkConfig' = NetworkConfig /\ web' = web
        /\ disk' = disk /\ todo' = todo /\ saves' = saves /\ stale' = stale
        /\ up' = up /\ crashes' = crashes /\ torn' = torn
        /\ resetting' = resetting
    BY <1>12 DEF SaveDone, DefaultHandler, ramVars, ghostVars
  <2>2. saving' \in BOOLEAN /\ reset_posted' \in BOOLEAN /\ timer' \in BOOLEAN
    BY <1>2, <1>12, Zenon DEF SaveDone, DefaultHandler
  <2>3. TypeOK'
    BY <1>1, <1>2, <2>1, <2>2, TypesFromFacts, Zenon
  <2>4. FilesMade'
    BY <1>3, <2>1, Zenon
  <2> QED
    BY <1>2, <1>4, <2>1, <2>2, <2>3, <2>4, Zenon
<1>13. CASE RestartAfterReset \/ RestartByTimer \/ PowerFailure
  <2>1. Reboot
    BY <1>13, Zenon DEF RestartAfterReset, RestartByTimer, PowerFailure
  <2>2. crashes' \in 0 .. MaxCrashes
    BY <1>1, <1>13, ConfigAssumption DEF RestartAfterReset, RestartByTimer, PowerFailure
  <2> QED
    BY <2>1, <2>2, RebootTypes, Zenon
<1> QED
  BY <1>5, <1>6, <1>7, <1>8, <1>9, <1>10, <1>11, <1>12, <1>13, Zenon DEF Next, Boot

\* So does the start.
LEMMA ConfigTypesInit ==
    ASSUME Init
    PROVE  ConfigTypes
<1>1. disk = [f \in Files |-> [exists |-> FALSE, conf |-> ZeroConfig]]
  BY Zenon DEF Init
<1>2. /\ disk \in [Files -> [exists : BOOLEAN, conf : Config]]
      /\ \A f \in Files : disk[f].conf = ZeroConfig
  BY <1>1, Configurations
<1>3. web \in [network : Config, global : Config]
  BY Configurations, WebTypes, Zenon DEF Init
<1>4. todo \in [Tasks -> Seq([file : Files, part : {"head", "body"}, conf : Config])]
  BY DEF Init
<1>5. /\ torn = FALSE /\ resetting = FALSE /\ saving = FALSE /\ reset_posted = FALSE
      /\ timer = FALSE
  BY Zenon DEF Init
<1>6. saves \in 0 .. MaxSaves /\ crashes \in 0 .. MaxCrashes /\ up = "global"
      /\ stale \in [web : BOOLEAN, loop : BOOLEAN]
  BY ConfigAssumption DEF Init
<1>7. GlobalConfig \in Config /\ NetworkConfig \in Config
  BY Configurations DEF Init
<1>8. {resetting, saving, reset_posted, timer, torn} \subseteq BOOLEAN
  BY <1>5, Zenon
<1>9. up \in {"global", "network", "web", "run"} /\ up # "run" /\ up \notin {"web", "run"}
  BY <1>6
<1>10. TypeOK
  BY <1>2, <1>3, <1>4, <1>6, <1>7, <1>8, <1>9, Zenon DEF TypeOK
<1> QED
  BY <1>2, <1>5, <1>6, <1>9, <1>10, Zenon DEF ConfigTypes

-----------------------------------------------------------------------------
(* What each step does to the files and to the pending writes.              *)

\* The writes of the tasks and the flags that say whose they are.
RebootFacts ==
    /\ disk' = disk /\ saves' = saves /\ up' = "global"
    /\ \A t \in Tasks : todo'[t] = <<>>
    /\ resetting' = FALSE /\ ~stale'.web /\ ~stale'.loop
    /\ torn' = (torn \/ ~NobodyWrites \/ (stale.web /\ stale.loop))

\* Whatever restarts the chip, memory and pending writes are gone and the files stay.
LEMMA RebootDoes ==
    ASSUME Reboot
    PROVE  RebootFacts
<1>1. \A t \in Tasks : todo'[t] = <<>>
  BY DEF Reboot
<1>2. ~stale'.web /\ ~stale'.loop
  BY DEF Reboot
<1>3. disk' = disk /\ saves' = saves /\ up' = "global" /\ resetting' = FALSE
      /\ torn' = (torn \/ ~NobodyWrites \/ (stale.web /\ stale.loop))
  BY Zenon DEF Reboot
<1> QED
  BY <1>1, <1>2, <1>3, Zenon DEF RebootFacts

\* The event loop schedules writes: the scenario, or both defaults.
SenFacts(s) ==
    /\ up = "run" /\ ~resetting /\ todo["loop"] = <<>>
    /\ disk' = disk /\ saves' = saves /\ up' = up /\ torn' = torn /\ resetting' = resetting
    /\ NetworkConfig' = NetworkConfig
    /\ GlobalConfig' \in Config /\ GlobalConfig'.senaryo = s
    /\ \A v : Holds(GlobalConfig, v) => Holds(GlobalConfig', v)
    /\ Pending(todo'["loop"]) = {HeadWrite("global", GlobalConfig'), BodyWrite("global", GlobalConfig')}
    /\ todo'["main"] = todo["main"] /\ todo'["httpd"] = todo["httpd"]
    /\ stale'.web = stale.web /\ stale'.loop

\* A "sen" command schedules the global file with the scenario it carries.
LEMMA SenDoes ==
    ASSUME ConfigTypes, NEW s \in Scenarios, Sen(s)
    PROVE  SenFacts(s)
<1>1. /\ GlobalConfig \in Config /\ todo \in [Tasks -> Seq(Writes)]
      /\ stale \in [web : BOOLEAN, loop : BOOLEAN]
      /\ "main" \in Tasks /\ "loop" \in Tasks /\ "httpd" \in Tasks /\ "global" \in Files
  BY TypeFacts, Zenon DEF ConfigTypes
<1>2. /\ up = "run" /\ ~resetting
      /\ disk' = disk /\ saves' = saves /\ up' = up /\ torn' = torn /\ resetting' = resetting
      /\ NetworkConfig' = NetworkConfig
  BY <1>1 DEF Sen
<1>3. GlobalConfig' \in Config /\ GlobalConfig'.senaryo = s
      /\ \A v : Holds(GlobalConfig, v) => Holds(GlobalConfig', v)
  BY <1>1, Configurations, Zenon DEF Sen
<1>4. /\ WriteOf("global", GlobalConfig') \in Seq(Writes)
      /\ Pending(WriteOf("global", GlobalConfig'))
           = {HeadWrite("global", GlobalConfig'), BodyWrite("global", GlobalConfig')}
  BY <1>1, <1>3, PendingWriteOf, Zenon
<1>5. /\ todo["loop"] = <<>> /\ todo'["loop"] = WriteOf("global", GlobalConfig')
      /\ \A u \in Tasks : u # "loop" => todo'[u] = todo[u]
  BY <1>1, <1>4, ScheduleTypes, Zenon DEF Sen
<1>6. stale'.web = stale.web /\ stale'.loop
  BY <1>1 DEF Sen
<1>7. todo'["main"] = todo["main"] /\ todo'["httpd"] = todo["httpd"]
  BY <1>1, <1>5
<1> QED
  BY <1>2, <1>3, <1>4, <1>5, <1>6, <1>7, Zenon DEF SenFacts

DefaultResetFacts ==
    /\ up = "run" /\ ~resetting /\ todo["loop"] = <<>>
    /\ disk' = disk /\ saves' = saves /\ up' = up /\ torn' = torn
    /\ NetworkConfig' \in Config /\ Holds(NetworkConfig', 1)
    /\ GlobalConfig' \in Config /\ Holds(GlobalConfig', 1)
    /\ Pending(todo'["loop"]) =
          {HeadWrite("network", NetworkConfig'), BodyWrite("network", NetworkConfig'),
           HeadWrite("global", GlobalConfig'), BodyWrite("global", GlobalConfig')}
    /\ todo'["main"] = todo["main"] /\ todo'["httpd"] = todo["httpd"]
    /\ stale'.web = stale.web /\ stale'.loop

\* The default reset schedules both files with the defaults.
LEMMA DefaultResetDoes ==
    ASSUME ConfigTypes, DefaultReset
    PROVE  DefaultResetFacts
<1>1. /\ GlobalConfig \in Config /\ NetworkConfig \in Config /\ todo \in [Tasks -> Seq(Writes)]
      /\ stale \in [web : BOOLEAN, loop : BOOLEAN]
      /\ "main" \in Tasks /\ "loop" \in Tasks /\ "httpd" \in Tasks
      /\ "global" \in Files /\ "network" \in Files
  BY TypeFacts, Zenon DEF ConfigTypes
<1>2. /\ up = "run" /\ ~resetting
      /\ disk' = disk /\ saves' = saves /\ up' = up /\ torn' = torn
      /\ NetworkConfig' = Default(NetworkConfig) /\ GlobalConfig' = Default(GlobalConfig)
  BY <1>1 DEF DefaultReset
<1>3. /\ NetworkConfig' \in Config /\ Holds(NetworkConfig', 1)
      /\ GlobalConfig' \in Config /\ Holds(GlobalConfig', 1)
  BY <1>1, <1>2, Configurations, Zenon
<1>4. ResetWrites = WriteOf("network", NetworkConfig') \o WriteOf("global", GlobalConfig')
  BY <1>2, Zenon DEF ResetWrites
<1>5. /\ WriteOf("network", NetworkConfig') \in Seq(Writes)
      /\ WriteOf("global", GlobalConfig') \in Seq(Writes)
      /\ Pending(WriteOf("network", NetworkConfig'))
           = {HeadWrite("network", NetworkConfig'), BodyWrite("network", NetworkConfig')}
      /\ Pending(WriteOf("global", GlobalConfig'))
           = {HeadWrite("global", GlobalConfig'), BodyWrite("global", GlobalConfig')}
  BY <1>1, <1>3, PendingWriteOf, Zenon
<1>6. /\ ResetWrites \in Seq(Writes)
      /\ Pending(ResetWrites) = Pending(WriteOf("network", NetworkConfig'))
                                  \union Pending(WriteOf("global", GlobalConfig'))
  BY <1>4, <1>5, PendingConcat, Zenon
<1>7. Pending(ResetWrites) =
          {HeadWrite("network", NetworkConfig'), BodyWrite("network", NetworkConfig'),
           HeadWrite("global", GlobalConfig'), BodyWrite("global", GlobalConfig')}
  BY <1>5, <1>6, Zenon
<1>8. /\ todo["loop"] = <<>> /\ todo'["loop"] = ResetWrites
      /\ \A u \in Tasks : u # "loop" => todo'[u] = todo[u]
  BY <1>1, <1>6, ScheduleTypes, Zenon DEF DefaultReset
<1>9. stale'.web = stale.web /\ stale'.loop
  BY <1>1 DEF DefaultReset
<1>10. todo'["main"] = todo["main"] /\ todo'["httpd"] = todo["httpd"]
  BY <1>1, <1>8
<1> QED
  BY <1>2, <1>3, <1>7, <1>8, <1>9, <1>10, Zenon DEF DefaultResetFacts

\* A save schedules both files, in the version of the save.
SaveFacts ==
    /\ up = "run" /\ todo["httpd"] = <<>>
    /\ disk' = disk /\ up' = up /\ torn' = torn /\ resetting' = resetting
    /\ saves' = saves + 1
    /\ \E n, g \in Config :
          /\ Holds(n, saves' + 1) /\ Holds(g, saves' + 1)
          /\ Pending(todo'["httpd"]) = {HeadWrite("network", n), BodyWrite("network", n),
                                        HeadWrite("global", g), BodyWrite("global", g)}
    /\ todo'["main"] = todo["main"] /\ todo'["loop"] = todo["loop"]
    /\ stale'.web /\ stale'.loop = (resetting \/ todo["loop"] # <<>>)

\* A save schedules both files with its version.
LEMMA SaveDoes ==
    ASSUME ConfigTypes, Save
    PROVE  SaveFacts
<1>1. /\ web.network \in Config /\ web.global \in Config /\ todo \in [Tasks -> Seq(Writes)]
      /\ saves \in 0 .. MaxSaves
      /\ "main" \in Tasks /\ "loop" \in Tasks /\ "httpd" \in Tasks
      /\ "global" \in Files /\ "network" \in Files
  BY TypeFacts, Zenon DEF ConfigTypes
<1>2. /\ up = "run"
      /\ disk' = disk /\ saves' = saves + 1 /\ up' = up /\ torn' = torn /\ resetting' = resetting
  BY <1>1 DEF Save
<1>3. saves + 2 \in Versions /\ saves' + 1 = saves + 2
  BY <1>1, <1>2, ConfigAssumption DEF Save, Versions
<1>4. PICK n : n = Saved(web.network, saves + 2)
  BY Zenon
<1>5. PICK g : g = Saved(web.global, saves + 2)
  BY Zenon
<1>6. n \in Config /\ g \in Config /\ Holds(n, saves' + 1) /\ Holds(g, saves' + 1)
  BY <1>1, <1>3, <1>4, <1>5, Configurations, Zenon
<1>7. web' = [network |-> n, global |-> g]
  BY <1>4, <1>5, Zenon DEF Save
<1>8. web'.network = n /\ web'.global = g
  BY <1>7
<1>9. SaveWrites(web') = WriteOf("network", n) \o WriteOf("global", g)
  BY <1>8, Zenon DEF SaveWrites
<1>10. /\ WriteOf("network", n) \in Seq(Writes)
       /\ WriteOf("global", g) \in Seq(Writes)
       /\ Pending(WriteOf("network", n)) = {HeadWrite("network", n), BodyWrite("network", n)}
       /\ Pending(WriteOf("global", g)) = {HeadWrite("global", g), BodyWrite("global", g)}
  BY <1>1, <1>6, PendingWriteOf, Zenon
<1>11. /\ SaveWrites(web') \in Seq(Writes)
       /\ Pending(SaveWrites(web')) = Pending(WriteOf("network", n)) \union Pending(WriteOf("global", g))
  BY <1>9, <1>10, PendingConcat, Zenon
<1>12. Pending(SaveWrites(web')) = {HeadWrite("network", n), BodyWrite("network", n),
                                    HeadWrite("global", g), BodyWrite("global", g)}
  BY <1>10, <1>11, Zenon
<1>13. /\ todo["httpd"] = <<>> /\ todo'["httpd"] = SaveWrites(web')
       /\ \A u \in Tasks : u # "httpd" => todo'[u] = todo[u]
  BY <1>1, <1>11, ScheduleTypes, Zenon DEF Save
<1>14. stale'.web /\ stale'.loop = (resetting \/ todo["loop"] # <<>>)
  <2>1. PICK b : b = (resetting \/ todo["loop"] # <<>>)
    BY Zenon
  <2>2. stale' = [web |-> TRUE, loop |-> b]
    BY <2>1, Zenon DEF Save
  <2>3. stale'.web = TRUE /\ stale'.loop = b
    BY <2>2
  <2> QED
    BY <2>1, <2>3, Zenon
<1>15. todo'["main"] = todo["main"] /\ todo'["loop"] = todo["loop"]
  BY <1>1, <1>13
<1>16. Pending(todo'["httpd"]) = {HeadWrite("network", n), BodyWrite("network", n),
                                  HeadWrite("global", g), BodyWrite("global", g)}
  BY <1>12, <1>13, Zenon
<1> QED
  BY <1>2, <1>6, <1>13, <1>14, <1>15, <1>16, Zenon DEF SaveFacts

\* What a write leaves alone.
WriteRest ==
    /\ GlobalConfig' = GlobalConfig /\ NetworkConfig' = NetworkConfig
    /\ up' = up /\ saves' = saves /\ stale' = stale /\ resetting' = resetting

\* A write changes nothing in memory.
LEMMA WriteLeaves == ASSUME NEW t \in Tasks, WritePart(t) PROVE WriteRest
BY DEF WritePart, ramVars, WriteRest

\* What the web server does besides saving.
IdleRest ==
    /\ disk' = disk /\ GlobalConfig' = GlobalConfig /\ NetworkConfig' = NetworkConfig
    /\ todo' = todo /\ up' = up /\ saves' = saves /\ stale' = stale
    /\ resetting' = resetting /\ torn' = torn

\* The end of a save and a request for a reset write nothing.
LEMMA IdleLeaves ==
    ASSUME SaveDone \/ DefaultHandler \/ UNCHANGED vars
    PROVE  IdleRest
BY DEF SaveDone, DefaultHandler, ramVars, ghostVars, vars, IdleRest

-----------------------------------------------------------------------------
\* Before the start-up is through only main writes, later the event loop and,
\* after a save, the web server.
LEMMA WhoWritesStep ==
    ASSUME ConfigTypes, WhoWrites, [Next]_vars
    PROVE  WhoWrites'
<1>1. "main" \in Tasks /\ "loop" \in Tasks /\ "httpd" \in Tasks
      /\ up \in {"global", "network", "web", "run"} /\ todo \in [Tasks -> Seq(Writes)]
      /\ "global" \in Files /\ "network" \in Files
  BY TypeFacts, Zenon DEF ConfigTypes
<1>2. CASE BootGlobal \/ BootNetwork
  <2>1. /\ up' \in {"network", "web"} /\ up # "run" /\ stale' = stale /\ resetting' = resetting
        /\ todo'["loop"] = todo["loop"] /\ todo'["httpd"] = todo["httpd"]
    BY <1>1, <1>2 DEF BootGlobal, BootNetwork, ghostVars, Schedule
  <2> QED
    BY <2>1 DEF WhoWrites
<1>3. CASE BootWeb
  <2>1. /\ up' = "run" /\ up = "web" /\ stale' = stale /\ resetting' = resetting
        /\ todo' = todo /\ todo["main"] = <<>>
    BY <1>3 DEF BootWeb, ghostVars
  <2> QED
    BY <2>1 DEF WhoWrites
<1>4. ASSUME NEW t \in Tasks, WritePart(t)
      PROVE  WhoWrites'
  <2>1. WriteRest /\ todo[t] # <<>>
    BY <1>4, WriteLeaves, Zenon DEF WritePart
  <2>2. \A u \in Tasks : u # t => todo'[u] = todo[u]
    BY <1>1, <1>4 DEF WritePart
  <2>3. \A u \in Tasks : todo[u] = <<>> => todo'[u] = <<>>
    BY <2>1, <2>2, Zenon
  <2> QED
    BY <1>1, <2>1, <2>3, Zenon DEF WhoWrites, WriteRest
<1>5. ASSUME NEW s \in Scenarios, Sen(s)
      PROVE  WhoWrites'
  <2>1. SenFacts(s)
    BY <1>5, SenDoes
  <2> QED
    BY <2>1, Zenon DEF WhoWrites, SenFacts
<1>6. CASE DefaultReset
  <2>1. DefaultResetFacts
    BY <1>6, DefaultResetDoes, Zenon
  <2> QED
    BY <2>1, Zenon DEF WhoWrites, DefaultResetFacts
<1>7. CASE Save
  <2>1. SaveFacts
    BY <1>7, SaveDoes, Zenon
  <2> QED
    BY <2>1, Zenon DEF WhoWrites, SaveFacts
<1>8. CASE SaveDone \/ DefaultHandler \/ UNCHANGED vars
  <2>1. IdleRest
    BY <1>8, IdleLeaves, Zenon
  <2> QED
    BY <2>1, Zenon DEF WhoWrites, IdleRest
<1>9. CASE RestartAfterReset \/ RestartByTimer \/ PowerFailure
  <2>1. RebootFacts
    BY <1>9, RebootDoes, Zenon DEF RestartAfterReset, RestartByTimer, PowerFailure
  <2> QED
    BY <1>1, <2>1, Zenon DEF WhoWrites, RebootFacts
<1> QED
  BY <1>2, <1>3, <1>4, <1>5, <1>6, <1>7, <1>8, <1>9, Zenon DEF Next, Boot

-----------------------------------------------------------------------------
(* Scheduled writes bring what they carry, and nothing elsewhere.           *)

\* There are two files.
LEMMA FileNames == Files = {"network", "global"} /\ "network" # "global"
BY DEF Files

\* The two parts of a write bring its version to its file.
LEMMA OwnFile ==
    ASSUME NEW d, NEW f, NEW c, NEW v, Holds(c, v), NEW ws,
           HeadWrite(f, c) \in ws, BodyWrite(f, c) \in ws,
           \A w \in ws : w.file = f => w.conf = c
    PROVE  Becomes(d, ws, f, v)
<1>1. /\ HeadWrite(f, c).file = f /\ HeadWrite(f, c).part = "head"
      /\ BodyWrite(f, c).file = f /\ BodyWrite(f, c).part = "body"
  BY DEF HeadWrite, BodyWrite
<1>2. Carries(ws, f, v)
  BY Zenon DEF Carries, Holds
<1> QED
  BY <1>1, <1>2, Zenon DEF Becomes, Coming

\* What the fields of the writes are.
LEMMA WriteFields ==
    ASSUME NEW f, NEW c
    PROVE  /\ HeadWrite(f, c).file = f /\ HeadWrite(f, c).conf = c /\ HeadWrite(f, c).part = "head"
           /\ BodyWrite(f, c).file = f /\ BodyWrite(f, c).conf = c /\ BodyWrite(f, c).part = "body"
BY DEF HeadWrite, BodyWrite

\* The writes of both files bring their version to both.
LEMMA BothFiles ==
    ASSUME NEW d, NEW n, NEW g, NEW v, Holds(n, v), Holds(g, v), NEW ws,
           ws = {HeadWrite("network", n), BodyWrite("network", n),
                 HeadWrite("global", g), BodyWrite("global", g)}
    PROVE  \A f \in Files : Becomes(d, ws, f, v)
<1>1. \A w \in ws : w.file = "network" => w.conf = n
  BY WriteFields, FileNames
<1>2. \A w \in ws : w.file = "global" => w.conf = g
  BY WriteFields, FileNames
<1>3. Becomes(d, ws, "network", v)
  BY <1>1, OwnFile, Zenon
<1>4. Becomes(d, ws, "global", v)
  BY <1>2, OwnFile, Zenon
<1> QED
  BY <1>3, <1>4, FileNames, Zenon

\* The write of one file: that file, and the other as it was.
LEMMA OneFile ==
    ASSUME NEW d, NEW f, NEW c, NEW v, Holds(c, v), NEW ws, NEW h, h # f,
           ws = {HeadWrite(f, c), BodyWrite(f, c)}
    PROVE  /\ Becomes(d, ws, f, v)
           /\ Becomes(d, {}, h, v) => Becomes(d, ws, h, v)
           /\ Untouched(d, {}, h) => Untouched(d, ws, h)
<1>1. \A w \in ws : w.file = f /\ w.conf = c
  BY WriteFields
<1>2. Becomes(d, ws, f, v)
  BY <1>1, OwnFile, Zenon
<1>3. Becomes(d, {}, h, v) => Becomes(d, ws, h, v)
  BY <1>1, Zenon DEF Becomes, Coming, Carries
<1>4. Untouched(d, {}, h) => Untouched(d, ws, h)
  BY <1>1, Zenon DEF Untouched
<1> QED
  BY <1>2, <1>3, <1>4, Zenon

\* When nothing is pending, what was to come is there.
LEMMA Arrived ==
    ASSUME NEW d, NEW f, NEW v
    PROVE  Becomes(d, {}, f, v) <=> Holds(d[f].conf, v)
<1>1. PartOf(d[f].conf, "head") = d[f].conf.head /\ PartOf(d[f].conf, "body") = d[f].conf.body
  BY DEF PartOf
<1> QED
  BY <1>1, Zenon DEF Becomes, Coming, Carries, Holds

\* Only what a file holds counts, not whether it was created just now.
LEMMA SameContents ==
    ASSUME NEW d, NEW e, \A f \in Files : e[f].conf = d[f].conf, NEW ws, NEW f \in Files
    PROVE  /\ \A v : Becomes(d, ws, f, v) => Becomes(e, ws, f, v)
           /\ Untouched(d, ws, f) => Untouched(e, ws, f)
BY Zenon DEF Becomes, Coming, Untouched

\* Which task may write, given who writes at all.
LEMMA OnlyWriter ==
    ASSUME ConfigTypes, WhoWrites, ~stale.web, NEW t \in Tasks, todo[t] # <<>>
    PROVE  up # "global" /\ t = Writer(up)
<1>1. t \in {"main", "loop", "httpd"}
  BY DEF Tasks
<1>2. t # "httpd"
  BY Zenon DEF WhoWrites
<1>3. t = "main" => up # "global" /\ up # "run"
  BY DEF WhoWrites
<1>4. t = "loop" => up = "run"
  BY Zenon DEF WhoWrites
<1> QED
  BY <1>1, <1>2, <1>3, <1>4 DEF Writer

-----------------------------------------------------------------------------
\* A save that nobody disturbs arrives in both files, whatever happens.
LEMMA SaveArrivesStep ==
    ASSUME ConfigTypes, WhoWrites, SaveArrives, [Next]_vars
    PROVE  SaveArrives'
<1>1. /\ "main" \in Tasks /\ "loop" \in Tasks /\ "httpd" \in Tasks
      /\ disk \in Disks
      /\ up = "run" => \A f \in Files : disk[f].exists
  BY TypeFacts, Zenon DEF ConfigTypes
<1>2. TypeOK
  BY Zenon DEF ConfigTypes
<1>3. CASE BootGlobal \/ BootNetwork \/ BootWeb
  <2>1. up # "run" /\ stale' = stale
    BY <1>3 DEF BootGlobal, BootNetwork, BootWeb, ghostVars
  <2> QED
    BY <2>1, Zenon DEF WhoWrites, SaveArrives
<1>4. ASSUME NEW t \in Tasks, WritePart(t)
      PROVE  SaveArrives'
  <2>1. WriteRest /\ todo[t] # <<>>
    BY <1>4, WriteLeaves, Zenon DEF WritePart
  <2>2. PICK w : WritePartFacts(t, w)
    BY <1>2, <1>4, WritePartStep, Zenon
  <2>3. SUFFICES ASSUME stale.web, ~stale.loop, NEW f \in Files
                 PROVE  Becomes(disk', Pending(todo'["httpd"]), f, saves + 1)
    BY <2>1, Zenon DEF SaveArrives, WriteRest
  <2>4. t = "httpd"
    BY <2>1, <2>3, Zenon DEF WhoWrites, Tasks
  <2>5. up = "run"
    BY <2>3, Zenon DEF WhoWrites
  <2>6. w \in Writes /\ disk[w.file].exists /\ disk' = After(disk, w)
        /\ Pending(todo["httpd"]) = {w} \union Pending(todo'["httpd"])
    <3>1. w.file \in Files
      BY <2>2 DEF WritePartFacts, Writes
    <3>2. \A h \in Files : disk[h].exists
      BY <1>1, <2>4, <2>5, Zenon
    <3>3. disk[w.file].exists
      BY <3>1, <3>2, Zenon
    <3> QED
      BY <2>2, <2>4, <2>5, <3>3 DEF WritePartFacts
  <2>7. Becomes(disk, {w} \union Pending(todo'["httpd"]), f, saves + 1)
    BY <2>3, <2>6, Zenon DEF SaveArrives
  <2> QED
    BY <1>1, <2>6, <2>7, BecomesStep
<1>5. ASSUME NEW s \in Scenarios, Sen(s)
      PROVE  SaveArrives'
  <2>1. SenFacts(s)
    BY <1>5, SenDoes
  <2> QED
    BY <2>1, Zenon DEF SaveArrives, SenFacts
<1>6. CASE DefaultReset
  <2>1. DefaultResetFacts
    BY <1>6, DefaultResetDoes, Zenon
  <2> QED
    BY <2>1, Zenon DEF SaveArrives, DefaultResetFacts
<1>7. CASE Save
  <2>1. SaveFacts
    BY <1>7, SaveDoes, Zenon
  <2>2. \A f \in Files : Becomes(disk', Pending(todo'["httpd"]), f, saves' + 1)
    BY <2>1, BothFiles, Zenon DEF SaveFacts
  <2> QED
    BY <2>2, Zenon DEF SaveArrives
<1>8. CASE SaveDone \/ DefaultHandler \/ UNCHANGED vars
  <2>1. IdleRest
    BY <1>8, IdleLeaves, Zenon
  <2> QED
    BY <2>1, Zenon DEF SaveArrives, IdleRest
<1>9. CASE RestartAfterReset \/ RestartByTimer \/ PowerFailure
  <2>1. RebootFacts
    BY <1>9, RebootDoes, Zenon DEF RestartAfterReset, RestartByTimer, PowerFailure
  <2> QED
    BY <2>1, Zenon DEF SaveArrives, RebootFacts
<1> QED
  BY <1>3, <1>4, <1>5, <1>6, <1>7, <1>8, <1>9, Zenon DEF Next, Boot

\* A default reset arrives in both files unless the web page is saved as well.
LEMMA ResetArrivesStep ==
    ASSUME ConfigTypes, WhoWrites, ResetArrives, [Next]_vars
    PROVE  ResetArrives'
<1>1. /\ "main" \in Tasks /\ "loop" \in Tasks /\ "httpd" \in Tasks
      /\ disk \in Disks
      /\ up = "run" => \A f \in Files : disk[f].exists
  BY TypeFacts, Zenon DEF ConfigTypes
<1>2. TypeOK
  BY Zenon DEF ConfigTypes
<1>3. CASE BootGlobal \/ BootNetwork \/ BootWeb
  <2>1. up # "run" /\ stale' = stale /\ resetting' = resetting
    BY <1>3 DEF BootGlobal, BootNetwork, BootWeb, ghostVars
  <2> QED
    BY <2>1, Zenon DEF WhoWrites, ResetArrives
<1>4. ASSUME NEW t \in Tasks, WritePart(t)
      PROVE  ResetArrives'
  <2>1. WriteRest /\ todo[t] # <<>>
    BY <1>4, WriteLeaves, Zenon DEF WritePart
  <2>2. PICK w : WritePartFacts(t, w)
    BY <1>2, <1>4, WritePartStep, Zenon
  <2>3. SUFFICES ASSUME resetting, ~stale.web, NEW f \in Files
                 PROVE  Becomes(disk', Pending(todo'["loop"]), f, 1)
    BY <2>1, Zenon DEF ResetArrives, WriteRest
  <2>4. up = "run"
    BY <2>3, Zenon DEF WhoWrites
  <2>5. t = "loop"
    BY <2>1, <2>3, <2>4, OnlyWriter DEF Writer
  <2>6. w \in Writes /\ disk[w.file].exists /\ disk' = After(disk, w)
        /\ Pending(todo["loop"]) = {w} \union Pending(todo'["loop"])
    <3>1. w.file \in Files
      BY <2>2 DEF WritePartFacts, Writes
    <3>2. \A h \in Files : disk[h].exists
      BY <1>1, <2>4, <2>5, Zenon
    <3>3. disk[w.file].exists
      BY <3>1, <3>2, Zenon
    <3> QED
      BY <2>2, <2>4, <2>5, <3>3 DEF WritePartFacts
  <2>7. Becomes(disk, {w} \union Pending(todo'["loop"]), f, 1)
    BY <2>3, <2>6, Zenon DEF ResetArrives
  <2> QED
    BY <1>1, <2>6, <2>7, BecomesStep
<1>5. ASSUME NEW s \in Scenarios, Sen(s)
      PROVE  ResetArrives'
  <2>1. SenFacts(s)
    BY <1>5, SenDoes
  <2> QED
    BY <2>1, Zenon DEF ResetArrives, SenFacts
<1>6. CASE DefaultReset
  <2>1. DefaultResetFacts
    BY <1>6, DefaultResetDoes, Zenon
  <2>2. \A f \in Files : Becomes(disk', Pending(todo'["loop"]), f, 1)
    BY <2>1, BothFiles, Zenon DEF DefaultResetFacts
  <2> QED
    BY <2>2, Zenon DEF ResetArrives
<1>7. CASE Save
  <2>1. SaveFacts
    BY <1>7, SaveDoes, Zenon
  <2> QED
    BY <2>1, Zenon DEF ResetArrives, SaveFacts
<1>8. CASE SaveDone \/ DefaultHandler \/ UNCHANGED vars
  <2>1. IdleRest
    BY <1>8, IdleLeaves, Zenon
  <2> QED
    BY <2>1, Zenon DEF ResetArrives, IdleRest
<1>9. CASE RestartAfterReset \/ RestartByTimer \/ PowerFailure
  <2>1. RebootFacts
    BY <1>9, RebootDoes, Zenon DEF RestartAfterReset, RestartByTimer, PowerFailure
  <2> QED
    BY <2>1, Zenon DEF ResetArrives, RebootFacts
<1> QED
  BY <1>3, <1>4, <1>5, <1>6, <1>7, <1>8, <1>9, Zenon DEF Next, Boot

-----------------------------------------------------------------------------
(* What the boot does.                                                      *)

LoopAndWebIdle ==
    /\ todo'["loop"] = todo["loop"] /\ todo'["httpd"] = todo["httpd"]
    /\ stale' = stale /\ torn' = torn /\ up # "run"

\* default_start for the global file: the configuration that was written, or
\* the defaults, which it writes.
BootGlobalFacts ==
    /\ up = "global" /\ up' = "network" /\ LoopAndWebIdle
    /\ todo["main"] = <<>>
    /\ \A f \in Files : disk'[f].conf = disk[f].conf
    /\ GlobalConfig' \in Config /\ GlobalConfig'.senaryo = disk["global"].conf.senaryo
    /\ \/ /\ disk["global"].conf.head # 0
          /\ GlobalConfig' = disk["global"].conf
          /\ Pending(todo'["main"]) = {}
       \/ /\ disk["global"].conf.head = 0
          /\ Holds(GlobalConfig', 1)
          /\ Pending(todo'["main"]) =
                {HeadWrite("global", GlobalConfig'), BodyWrite("global", GlobalConfig')}

\* BootGlobal does one or the other, and writes the file when it takes the defaults.
LEMMA BootGlobalDoes ==
    ASSUME ConfigTypes, WhoWrites, BootGlobal
    PROVE  BootGlobalFacts
<1>1. /\ disk \in Disks /\ todo \in [Tasks -> Seq(Writes)]
      /\ "main" \in Tasks /\ "loop" \in Tasks /\ "httpd" \in Tasks
      /\ "global" \in Files /\ "network" \in Files
  BY TypeFacts, Zenon DEF ConfigTypes
<1>2. /\ up = "global" /\ up' = "network" /\ stale' = stale /\ torn' = torn
  BY <1>1 DEF BootGlobal, ghostVars
<1>3. todo["main"] = <<>>
  BY <1>2, Zenon DEF WhoWrites
<1>4. disk["global"].conf \in Config
  BY <1>1 DEF Disks
<1>5. CASE disk["global"].conf.head # 0 /\ GlobalConfig' = disk["global"].conf
           /\ disk' = disk /\ todo' = todo
  <2>1. Pending(todo'["main"]) = {}
    BY <1>3, <1>5, PendingEmpty, Zenon
  <2>2. LoopAndWebIdle
    BY <1>2, <1>5 DEF LoopAndWebIdle
  <2> QED
    BY <1>2, <1>3, <1>4, <1>5, <2>1, <2>2, Zenon DEF BootGlobalFacts
<1>6. CASE /\ disk["global"].conf.head = 0
           /\ GlobalConfig' = Default(disk["global"].conf)
           /\ disk' = [disk EXCEPT !["global"] = FileControl("global")]
           /\ Schedule("main", WriteOf("global", GlobalConfig'))
  <2>1. GlobalConfig' \in Config /\ Holds(GlobalConfig', 1)
        /\ GlobalConfig'.senaryo = disk["global"].conf.senaryo
    BY <1>4, <1>6, Configurations, Zenon
  <2>2. /\ WriteOf("global", GlobalConfig') \in Seq(Writes)
        /\ Pending(WriteOf("global", GlobalConfig'))
             = {HeadWrite("global", GlobalConfig'), BodyWrite("global", GlobalConfig')}
    BY <1>1, <2>1, PendingWriteOf, Zenon
  <2>3. /\ todo'["main"] = WriteOf("global", GlobalConfig')
        /\ \A u \in Tasks : u # "main" => todo'[u] = todo[u]
    BY <1>1, <1>6, <2>2, ScheduleTypes, Zenon
  <2>4. LoopAndWebIdle
    BY <1>1, <1>2, <2>3 DEF LoopAndWebIdle
  <2>5. \A f \in Files : disk'[f].conf = disk[f].conf
    BY <1>1, <1>6, CreateTypes, Zenon
  <2>6. Pending(todo'["main"]) =
           {HeadWrite("global", GlobalConfig'), BodyWrite("global", GlobalConfig')}
    BY <2>2, <2>3, Zenon
  <2> QED
    BY <1>2, <1>3, <1>6, <2>1, <2>4, <2>5, <2>6, Zenon DEF BootGlobalFacts
<1> QED
  BY <1>5, <1>6, Zenon DEF BootGlobal

\* The same for the network file, which a first boot only creates.
BootNetworkFacts ==
    /\ up = "network" /\ up' = "web" /\ LoopAndWebIdle
    /\ todo["main"] = <<>> /\ GlobalConfig' = GlobalConfig
    /\ \A f \in Files : disk'[f].conf = disk[f].conf
    /\ \/ /\ disk["network"].conf.head # 0
          /\ NetworkConfig' = disk["network"].conf
          /\ Pending(todo'["main"]) = {}
       \/ /\ disk["network"].conf.head = 0
          /\ Holds(NetworkConfig', 1)
          /\ \/ Pending(todo'["main"]) = {}
             \/ Pending(todo'["main"]) =
                  {HeadWrite("network", NetworkConfig'), BodyWrite("network", NetworkConfig')}

\* BootNetwork does the same, but writes only a file that is there.
LEMMA BootNetworkDoes ==
    ASSUME ConfigTypes, WhoWrites, BootNetwork
    PROVE  BootNetworkFacts
<1>1. /\ disk \in Disks /\ todo \in [Tasks -> Seq(Writes)]
      /\ "main" \in Tasks /\ "loop" \in Tasks /\ "httpd" \in Tasks
      /\ "global" \in Files /\ "network" \in Files
  BY TypeFacts, Zenon DEF ConfigTypes
<1>2. /\ up = "network" /\ up' = "web" /\ stale' = stale /\ torn' = torn
      /\ GlobalConfig' = GlobalConfig /\ todo["main"] = <<>>
  BY <1>1 DEF BootNetwork, ghostVars
<1>3. disk["network"].conf \in Config
  BY <1>1 DEF Disks
<1>4. todo' = todo => LoopAndWebIdle /\ Pending(todo'["main"]) = {}
  BY <1>2, PendingEmpty DEF LoopAndWebIdle
<1>5. CASE disk["network"].conf.head # 0 /\ NetworkConfig' = disk["network"].conf
           /\ disk' = disk /\ todo' = todo
  BY <1>2, <1>4, <1>5, Zenon DEF BootNetworkFacts
<1>6. CASE /\ disk["network"].conf.head = 0
           /\ NetworkConfig' = Default(disk["network"].conf)
           /\ disk' = [disk EXCEPT !["network"] = FileControl("network")]
           /\ Schedule("main", WriteOf("network", NetworkConfig')) \/ todo' = todo
  <2>1. NetworkConfig' \in Config /\ Holds(NetworkConfig', 1)
    BY <1>3, <1>6, Configurations, Zenon
  <2>2. \A f \in Files : disk'[f].conf = disk[f].conf
    BY <1>1, <1>6, CreateTypes, Zenon
  <2>3. CASE todo' = todo
    BY <1>2, <1>4, <1>6, <2>1, <2>2, <2>3, Zenon DEF BootNetworkFacts
  <2>4. CASE Schedule("main", WriteOf("network", NetworkConfig'))
    <3>1. /\ WriteOf("network", NetworkConfig') \in Seq(Writes)
          /\ Pending(WriteOf("network", NetworkConfig'))
               = {HeadWrite("network", NetworkConfig'), BodyWrite("network", NetworkConfig')}
      BY <1>1, <2>1, PendingWriteOf, Zenon
    <3>2. /\ todo'["main"] = WriteOf("network", NetworkConfig')
          /\ \A u \in Tasks : u # "main" => todo'[u] = todo[u]
      BY <1>1, <2>4, <3>1, ScheduleTypes, Zenon
    <3>3. LoopAndWebIdle
      BY <1>1, <1>2, <3>2 DEF LoopAndWebIdle
    <3>4. Pending(todo'["main"]) =
             {HeadWrite("network", NetworkConfig'), BodyWrite("network", NetworkConfig')}
      BY <3>1, <3>2, Zenon
    <3> QED
      BY <1>2, <1>6, <2>1, <2>2, <3>3, <3>4, Zenon DEF BootNetworkFacts
  <2> QED
    BY <1>6, <2>3, <2>4, Zenon
<1> QED
  BY <1>5, <1>6, Zenon DEF BootNetwork

BootWebFacts ==
    /\ up = "web" /\ up' = "run" /\ stale' = stale /\ torn' = torn /\ disk' = disk
    /\ GlobalConfig' = GlobalConfig /\ NetworkConfig' = NetworkConfig
    /\ todo' = todo /\ todo["main"] = <<>> /\ todo["loop"] = <<>>

\* BootWeb takes over from main when its writes are done.
LEMMA BootWebDoes ==
    ASSUME WhoWrites, BootWeb
    PROVE  BootWebFacts
BY DEF BootWeb, ghostVars, WhoWrites, BootWebFacts

-----------------------------------------------------------------------------
\* The scenario in force is in the file, or on its way there, unless the web
\* page was saved since boot.
LEMMA ScenarioArrivesStep ==
    ASSUME ConfigTypes, WhoWrites, ScenarioArrives, [Next]_vars
    PROVE  ScenarioArrives'
<1>1. /\ "main" \in Tasks /\ "loop" \in Tasks /\ "httpd" \in Tasks
      /\ disk \in Disks /\ "global" \in Files /\ "network" \in Files
      /\ up = "run" => \A f \in Files : disk[f].exists
      /\ up \in {"global", "network", "web", "run"}
  BY TypeFacts, Zenon DEF ConfigTypes
<1>2. TypeOK /\ (up # "global" => disk["global"].exists)
  BY Zenon DEF ConfigTypes
<1>3. CASE BootGlobal
  <2>1. BootGlobalFacts
    BY <1>3, BootGlobalDoes, Zenon
  <2>2. disk'["global"].conf.senaryo = GlobalConfig'.senaryo
    BY <1>1, <2>1, Zenon DEF BootGlobalFacts
  <2>3. \A w \in Pending(todo'["main"]) : w.conf = GlobalConfig'
    BY <2>1, WriteFields DEF BootGlobalFacts
  <2>4. Writer(up') = "main"
    BY <2>1 DEF BootGlobalFacts, Writer
  <2> QED
    BY <2>2, <2>3, <2>4, Zenon DEF ScenarioArrives, ScenarioComes
<1>4. CASE BootNetwork
  <2>1. BootNetworkFacts
    BY <1>4, BootNetworkDoes, Zenon
  <2>2. Writer(up') = "main" /\ Writer(up) = "main"
    BY <2>1 DEF BootNetworkFacts, Writer
  <2>3. \A w \in Pending(todo'["main"]) : w.file = "network"
    BY <2>1, WriteFields DEF BootNetworkFacts
  <2>4. Pending(todo["main"]) = {}
    BY <2>1, PendingEmpty, Zenon DEF BootNetworkFacts
  <2>5. ~stale.web /\ up # "global" => disk["global"].conf.senaryo = GlobalConfig.senaryo
    BY <2>2, <2>4, Zenon DEF ScenarioArrives, ScenarioComes
  <2>6. disk'["global"].conf.senaryo = disk["global"].conf.senaryo
        /\ GlobalConfig' = GlobalConfig /\ stale' = stale /\ up # "global"
    BY <1>1, <2>1, Zenon DEF BootNetworkFacts, LoopAndWebIdle
  <2> QED
    BY <2>2, <2>3, <2>5, <2>6, FileNames, Zenon DEF ScenarioArrives, ScenarioComes
<1>5. CASE BootWeb
  <2>1. BootWebFacts
    BY <1>5, BootWebDoes, Zenon
  <2>2. Writer(up') = "loop" /\ Writer(up) = "main" /\ up # "global"
    BY <2>1 DEF BootWebFacts, Writer
  <2>3. todo'["loop"] = todo["main"]
    BY <2>1, Zenon DEF BootWebFacts
  <2> QED
    BY <2>1, <2>2, <2>3, Zenon DEF ScenarioArrives, BootWebFacts
<1>6. ASSUME NEW t \in Tasks, WritePart(t)
      PROVE  ScenarioArrives'
  <2>1. WriteRest /\ todo[t] # <<>>
    BY <1>6, WriteLeaves, Zenon DEF WritePart
  <2>2. PICK w : WritePartFacts(t, w)
    BY <1>2, <1>6, WritePartStep, Zenon
  <2>3. PICK s : s = GlobalConfig.senaryo
    OBVIOUS
  <2>4. SUFFICES ASSUME up # "global", ~stale.web
                 PROVE  ScenarioComes(disk', Pending(todo'[Writer(up)]), s)
    BY <2>1, <2>3, Zenon DEF ScenarioArrives, WriteRest
  <2>5. t = Writer(up)
    BY <2>1, <2>4, OnlyWriter
  <2>6. ScenarioComes(disk, {w} \union Pending(todo'[t]), s)
    BY <2>2, <2>3, <2>4, <2>5, Zenon DEF ScenarioArrives, WritePartFacts
  <2>7. CASE disk[w.file].exists /\ disk' = After(disk, w)
    BY <1>1, <2>2, <2>5, <2>6, <2>7, ScenarioStep DEF WritePartFacts
  <2>8. CASE ~disk[w.file].exists /\ disk' = disk
    <3>1. w.file # "global"
      BY <1>2, <2>4, <2>8, Zenon
    <3> QED
      BY <2>5, <2>6, <2>8, <3>1, Zenon DEF ScenarioComes
  <2> QED
    BY <2>2, <2>7, <2>8, Zenon DEF WritePartFacts
<1>7. ASSUME NEW s \in Scenarios, Sen(s)
      PROVE  ScenarioArrives'
  <2>1. SenFacts(s)
    BY <1>7, SenDoes
  <2>2. Writer(up') = "loop"
    BY <2>1 DEF SenFacts, Writer
  <2>3. \A w \in Pending(todo'["loop"]) : w.conf = GlobalConfig'
    BY <2>1, WriteFields DEF SenFacts
  <2>4. \E w \in Pending(todo'["loop"]) : w.file = "global" /\ w.part = "body"
    BY <2>1, WriteFields DEF SenFacts
  <2> QED
    BY <2>2, <2>3, <2>4, Zenon DEF ScenarioArrives, ScenarioComes
<1>8. CASE DefaultReset
  <2>1. DefaultResetFacts
    BY <1>8, DefaultResetDoes, Zenon
  <2>2. Writer(up') = "loop"
    BY <2>1 DEF DefaultResetFacts, Writer
  <2>3. \A w \in Pending(todo'["loop"]) : w.file = "global" => w.conf = GlobalConfig'
    BY <2>1, WriteFields, FileNames DEF DefaultResetFacts
  <2>4. \E w \in Pending(todo'["loop"]) : w.file = "global" /\ w.part = "body"
    BY <2>1, WriteFields DEF DefaultResetFacts
  <2> QED
    BY <2>2, <2>3, <2>4, Zenon DEF ScenarioArrives, ScenarioComes
<1>9. CASE Save
  <2>1. SaveFacts
    BY <1>9, SaveDoes, Zenon
  <2> QED
    BY <2>1, Zenon DEF ScenarioArrives, SaveFacts
<1>10. CASE SaveDone \/ DefaultHandler \/ UNCHANGED vars
  <2>1. IdleRest
    BY <1>10, IdleLeaves, Zenon
  <2> QED
    BY <2>1, Zenon DEF ScenarioArrives, IdleRest
<1>11. CASE RestartAfterReset \/ RestartByTimer \/ PowerFailure
  <2>1. RebootFacts
    BY <1>11, RebootDoes, Zenon DEF RestartAfterReset, RestartByTimer, PowerFailure
  <2> QED
    BY <2>1, Zenon DEF ScenarioArrives, RebootFacts
<1> QED
  BY <1>3, <1>4, <1>5, <1>6, <1>7, <1>8, <1>9, <1>10, <1>11, Zenon DEF Next, Boot

-----------------------------------------------------------------------------
(* One version throughout.                                                  *)

\* The defaults are a version.
LEMMA OneIsAVersion == 1 \in Versions \ {0}
BY ConfigAssumption DEF Versions

\* Writing the global file, with the version of the network file.
LEMMA GlobalWrite ==
    ASSUME NEW d, NEW g, NEW v, Holds(g, v), NEW ws,
           ws = {HeadWrite("global", g), BodyWrite("global", g)},
           Becomes(d, {}, "network", v) \/ (v = 1 /\ Untouched(d, {}, "network"))
    PROVE  FilesAgree(d, ws, v)
BY OneFile, FileNames, Zenon DEF FilesAgree

\* A write leaves the files and the rest of the writes in agreement.
LEMMA FilesAgreeStep ==
    ASSUME NEW d \in Disks, NEW w \in Writes, NEW ws, NEW v,
           d[w.file].exists, FilesAgree(d, {w} \union ws, v)
    PROVE  FilesAgree(After(d, w), ws, v)
<1>1. Becomes(After(d, w), ws, "global", v)
  BY BecomesStep, FileNames DEF FilesAgree
<1>2. CASE Becomes(d, {w} \union ws, "network", v)
  <2>1. Becomes(After(d, w), ws, "network", v)
    BY <1>2, BecomesStep, FileNames
  <2> QED
    BY <1>1, <2>1, Zenon DEF FilesAgree
<1>3. CASE v = 1 /\ Untouched(d, {w} \union ws, "network")
  <2>1. Untouched(After(d, w), ws, "network")
    BY <1>3, UntouchedStep, FileNames
  <2> QED
    BY <1>1, <1>3, <2>1, Zenon DEF FilesAgree
<1> QED
  BY <1>2, <1>3, Zenon DEF FilesAgree

\* No step but a save lets two versions into memory and files.
LEMMA OneVersionStep ==
    ASSUME ConfigTypes, WhoWrites, SaveArrives, OneVersion, [Next]_vars
    PROVE  OneVersion'
<1>1. /\ "main" \in Tasks /\ "loop" \in Tasks /\ "httpd" \in Tasks
      /\ disk \in Disks /\ "global" \in Files /\ "network" \in Files
      /\ up = "run" => \A f \in Files : disk[f].exists
      /\ up \in {"global", "network", "web", "run"}
      /\ saves \in 0 .. MaxSaves
  BY TypeFacts, Zenon DEF ConfigTypes
<1>2. /\ TypeOK
      /\ up # "global" => disk["global"].exists
      /\ up \in {"web", "run"} => disk["network"].exists
  BY Zenon DEF ConfigTypes
<1>3. CASE BootGlobal
  <2>1. BootGlobalFacts
    BY <1>3, BootGlobalDoes, Zenon
  <2>2. SUFFICES ASSUME ~torn, ~stale.web
                 PROVE  \E v \in Versions \ {0} :
                           Agreed(up', disk', Pending(todo'["main"]), GlobalConfig', NetworkConfig', v)
    <3>1. Writer(up') = "main" /\ up' # "global"
      BY <2>1 DEF BootGlobalFacts, Writer
    <3> QED
      BY <2>1, <3>1, Zenon DEF OneVersion, BootGlobalFacts, LoopAndWebIdle
  <2>3. up' = "network" /\ AtRest(disk) /\ \A f \in Files : disk'[f].conf = disk[f].conf
    BY <2>1, <2>2, Zenon DEF OneVersion, BootGlobalFacts
  <2>4. \A w \in Pending(todo'["main"]) : w.file = "global"
    BY <2>1, WriteFields DEF BootGlobalFacts
  <2>5. ASSUME NEW v, FilesAgree(disk', Pending(todo'["main"]), v), Holds(GlobalConfig', v)
        PROVE  Agreed(up', disk', Pending(todo'["main"]), GlobalConfig', NetworkConfig', v)
    BY <2>3, <2>4, <2>5 DEF Agreed
  <2>6. CASE disk["global"].conf.head # 0
    <3>1. PICK v \in Versions \ {0} : FilesAgree(disk, {}, v)
      BY <1>1, <2>3, <2>6, Zenon DEF AtRest, Fresh
    <3>2. Pending(todo'["main"]) = {} /\ GlobalConfig' = disk["global"].conf
      BY <2>1, <2>6, Zenon DEF BootGlobalFacts
    <3>3. FilesAgree(disk', {}, v)
      BY <1>1, <2>3, <3>1, SameContents, Zenon DEF FilesAgree
    <3>4. Holds(GlobalConfig', v)
      BY <3>1, <3>2, Arrived, Zenon DEF FilesAgree
    <3> QED
      BY <2>5, <3>2, <3>3, <3>4, Zenon
  <2>7. CASE disk["global"].conf.head = 0
    <3>1. Fresh(disk)
      <4>1. ASSUME NEW v \in Versions \ {0}, FilesAgree(disk, {}, v)
            PROVE  FALSE
        <5>1. Holds(disk["global"].conf, v)
          BY <4>1, Arrived, Zenon DEF FilesAgree
        <5> QED
          BY <2>7, <4>1, <5>1 DEF Holds
      <4> QED
        BY <2>3, <4>1, Zenon DEF AtRest
    <3>2. Untouched(disk', {}, "network")
      BY <1>1, <2>3, <3>1, Zenon DEF Fresh, Untouched
    <3>3. Holds(GlobalConfig', 1)
          /\ Pending(todo'["main"]) = {HeadWrite("global", GlobalConfig'), BodyWrite("global", GlobalConfig')}
      BY <2>1, <2>7, Zenon DEF BootGlobalFacts
    <3>4. FilesAgree(disk', Pending(todo'["main"]), 1)
      BY <3>2, <3>3, GlobalWrite, Zenon
    <3> QED
      BY <2>5, <3>3, <3>4, OneIsAVersion, Zenon
  <2> QED
    BY <2>6, <2>7, Zenon
<1>4. CASE BootNetwork
  <2>1. BootNetworkFacts
    BY <1>4, BootNetworkDoes, Zenon
  <2>2. SUFFICES ASSUME ~torn, ~stale.web
                 PROVE  \E v \in Versions \ {0} :
                           Agreed(up', disk', Pending(todo'["main"]), GlobalConfig', NetworkConfig', v)
    <3>1. Writer(up') = "main" /\ up' # "global"
      BY <2>1 DEF BootNetworkFacts, Writer
    <3> QED
      BY <2>1, <3>1, Zenon DEF OneVersion, BootNetworkFacts, LoopAndWebIdle
  <2>3. PICK v \in Versions \ {0} :
           Agreed(up, disk, Pending(todo[Writer(up)]), GlobalConfig, NetworkConfig, v)
    <3>1. up # "global"
      BY <2>1 DEF BootNetworkFacts
    <3> QED
      BY <2>2, <3>1, Zenon DEF OneVersion
  <2>4. Writer(up) = "main" /\ up' # "network"
    BY <2>1 DEF BootNetworkFacts, Writer
  <2>5. Pending(todo[Writer(up)]) = {}
    BY <2>1, <2>4, PendingEmpty, Zenon DEF BootNetworkFacts
  <2>6. FilesAgree(disk, {}, v) /\ Holds(GlobalConfig', v)
    BY <2>1, <2>3, <2>5, Zenon DEF Agreed, BootNetworkFacts
  <2>7. FilesAgree(disk', {}, v)
    BY <1>1, <2>1, <2>6, SameContents, Zenon DEF FilesAgree, BootNetworkFacts
  <2>8. ASSUME Holds(NetworkConfig', v), FilesAgree(disk', Pending(todo'["main"]), v)
        PROVE  Agreed(up', disk', Pending(todo'["main"]), GlobalConfig', NetworkConfig', v)
    BY <2>4, <2>6, <2>8, Zenon DEF Agreed
  <2>9. CASE disk["network"].conf.head # 0
    <3>1. Holds(disk["network"].conf, v)
      BY <2>6, <2>9, Arrived, Zenon DEF FilesAgree, Untouched
    <3> QED
      BY <2>1, <2>7, <2>8, <2>9, <3>1, Zenon DEF BootNetworkFacts
  <2>10. CASE disk["network"].conf.head = 0
    <3>1. v = 1
      <4>1. ~Holds(disk["network"].conf, v)
        BY <2>10 DEF Holds
      <4> QED
        BY <2>6, <4>1, Arrived, Zenon DEF FilesAgree
    <3>2. Holds(NetworkConfig', v)
      BY <2>1, <2>10, <3>1, Zenon DEF BootNetworkFacts
    <3>3. CASE Pending(todo'["main"]) = {}
      BY <2>7, <2>8, <3>2, <3>3, Zenon
    <3>4. CASE Pending(todo'["main"]) =
                 {HeadWrite("network", NetworkConfig'), BodyWrite("network", NetworkConfig')}
      <4>1. Becomes(disk', Pending(todo'["main"]), "network", v)
            /\ Becomes(disk', Pending(todo'["main"]), "global", v)
        BY <2>7, <3>2, <3>4, OneFile, FileNames, Zenon DEF FilesAgree
      <4>2. FilesAgree(disk', Pending(todo'["main"]), v)
        BY <4>1, Zenon DEF FilesAgree
      <4> QED
        BY <2>8, <3>2, <4>2, Zenon
    <3> QED
      BY <2>1, <2>10, <3>3, <3>4, Zenon DEF BootNetworkFacts
  <2> QED
    BY <2>9, <2>10, Zenon
<1>5. CASE BootWeb
  <2>1. BootWebFacts
    BY <1>5, BootWebDoes, Zenon
  <2>2. Writer(up') = "loop" /\ Writer(up) = "main" /\ up # "global" /\ up' # "global"
        /\ up \in {"web", "run"} /\ up' # "network"
    BY <2>1 DEF BootWebFacts, Writer
  <2>3. todo'["loop"] = todo["main"]
    BY <2>1, Zenon DEF BootWebFacts
  <2>4. ASSUME NEW v, NEW ws, Agreed(up, disk, ws, GlobalConfig, NetworkConfig, v)
        PROVE  Agreed(up', disk', ws, GlobalConfig', NetworkConfig', v)
    BY <2>1, <2>2, <2>4, Zenon DEF Agreed, BootWebFacts
  <2> QED
    BY <2>1, <2>2, <2>3, <2>4, Zenon DEF OneVersion, BootWebFacts
<1>6. ASSUME NEW t \in Tasks, WritePart(t)
      PROVE  OneVersion'
  <2>1. WriteRest /\ todo[t] # <<>> /\ (torn => torn')
    BY <1>6, WriteLeaves, Zenon DEF WritePart
  <2>2. PICK w : WritePartFacts(t, w)
    BY <1>2, <1>6, WritePartStep, Zenon
  <2>3. SUFFICES ASSUME ~torn, ~stale.web
                 PROVE  \E v \in Versions \ {0} :
                           Agreed(up, disk', Pending(todo'[t]), GlobalConfig, NetworkConfig, v)
    <3>1. ASSUME ~torn, ~stale.web
          PROVE  up # "global" /\ t = Writer(up)
      BY <2>1, <3>1, OnlyWriter
    <3> QED
      BY <2>1, <3>1, Zenon DEF OneVersion, WriteRest
  <2>4. up # "global" /\ t = Writer(up)
    BY <2>1, <2>3, OnlyWriter
  <2>5. PICK v \in Versions \ {0} :
           Agreed(up, disk, {w} \union Pending(todo'[t]), GlobalConfig, NetworkConfig, v)
    BY <2>2, <2>3, <2>4, Zenon DEF OneVersion, WritePartFacts
  <2>6. w \in Writes /\ disk[w.file].exists /\ disk' = After(disk, w)
    <3>1. w \in Writes /\ w.file \in Files
      BY <2>2 DEF WritePartFacts, Writes
    <3>2. up = "network" => w.file = "global"
      BY <2>5, Zenon DEF Agreed
    <3>3. up \in {"network", "web", "run"}
      BY <1>1, <2>4
    <3>4. w.file = "global" \/ w.file = "network"
      BY <3>1, FileNames
    <3>5. disk[w.file].exists
      BY <1>2, <2>4, <3>2, <3>3, <3>4
    <3> QED
      BY <2>2, <3>1, <3>5, Zenon DEF WritePartFacts
  <2>7. FilesAgree(disk', Pending(todo'[t]), v)
    BY <1>1, <2>5, <2>6, FilesAgreeStep DEF Agreed
  <2> QED
    BY <2>5, <2>7, Zenon DEF Agreed
<1>7. ASSUME NEW s \in Scenarios, Sen(s)
      PROVE  OneVersion'
  <2>1. SenFacts(s)
    BY <1>7, SenDoes
  <2>2. Writer(up') = "loop" /\ Writer(up) = "loop" /\ up # "global" /\ up' # "global" /\ up' # "network"
    BY <2>1 DEF SenFacts, Writer
  <2>3. Pending(todo["loop"]) = {}
    BY <2>1, PendingEmpty, Zenon DEF SenFacts
  <2>4. ASSUME NEW v, Agreed(up, disk, {}, GlobalConfig, NetworkConfig, v)
        PROVE  Agreed(up', disk', Pending(todo'["loop"]), GlobalConfig', NetworkConfig', v)
    <3>1. FilesAgree(disk', Pending(todo'["loop"]), v)
      BY <2>1, <2>4, GlobalWrite, Zenon DEF SenFacts, Agreed, FilesAgree
    <3> QED
      BY <2>1, <2>2, <2>4, <3>1, Zenon DEF SenFacts, Agreed
  <2> QED
    BY <2>1, <2>2, <2>3, <2>4, Zenon DEF OneVersion, SenFacts
<1>8. CASE DefaultReset
  <2>1. DefaultResetFacts
    BY <1>8, DefaultResetDoes, Zenon
  <2>2. Writer(up') = "loop" /\ up' # "global" /\ up' # "network"
    BY <2>1 DEF DefaultResetFacts, Writer
  <2>3. \A f \in Files : Becomes(disk', Pending(todo'["loop"]), f, 1)
    BY <2>1, BothFiles, Zenon DEF DefaultResetFacts
  <2>4. Agreed(up', disk', Pending(todo'["loop"]), GlobalConfig', NetworkConfig', 1)
    BY <1>1, <2>1, <2>2, <2>3, Zenon DEF DefaultResetFacts, Agreed, FilesAgree
  <2> QED
    BY <2>2, <2>4, OneIsAVersion, Zenon DEF OneVersion
<1>9. CASE Save
  <2>1. SaveFacts
    BY <1>9, SaveDoes, Zenon
  <2> QED
    BY <2>1, Zenon DEF OneVersion, SaveFacts
<1>10. CASE SaveDone \/ DefaultHandler \/ UNCHANGED vars
  <2>1. IdleRest
    BY <1>10, IdleLeaves, Zenon
  <2> QED
    BY <2>1, Zenon DEF OneVersion, IdleRest
<1>11. CASE RestartAfterReset \/ RestartByTimer \/ PowerFailure
  <2>1. RebootFacts
    BY <1>11, RebootDoes, Zenon DEF RestartAfterReset, RestartByTimer, PowerFailure
  <2>2. SUFFICES ASSUME ~torn, NobodyWrites, ~(stale.web /\ stale.loop)
                 PROVE  AtRest(disk)
    BY <2>1, Zenon DEF OneVersion, RebootFacts
  <2>3. \A t \in Tasks : Pending(todo[t]) = {}
    BY <2>2, PendingEmpty, Zenon DEF NobodyWrites
  <2>4. CASE ~stale.web
    <3>1. Writer(up) \in Tasks
      BY <1>1 DEF Writer
    <3> QED
      BY <2>2, <2>3, <2>4, <3>1, Zenon DEF OneVersion, Agreed, AtRest
  <2>5. CASE stale.web
    <3>1. \A f \in Files : Becomes(disk, {}, f, saves + 1)
      BY <1>1, <2>2, <2>3, <2>5, Zenon DEF SaveArrives
    <3>2. saves + 1 \in Versions \ {0}
      BY <1>1, ConfigAssumption DEF Versions
    <3>3. FilesAgree(disk, {}, saves + 1)
      BY <1>1, <3>1, Zenon DEF FilesAgree
    <3> QED
      BY <3>2, <3>3, Zenon DEF AtRest
  <2> QED
    BY <2>4, <2>5, Zenon
<1> QED
  BY <1>3, <1>4, <1>5, <1>6, <1>7, <1>8, <1>9, <1>10, <1>11, Zenon DEF Next, Boot

-----------------------------------------------------------------------------
(* The theorems about the configuration files.                              *)

\* The invariant holds at the start: the files are missing, nobody writes.
LEMMA ConfigInvInit ==
    ASSUME Init
    PROVE  ConfigInv
<1>1. ConfigTypes
  BY ConfigTypesInit, Zenon
<1>2. /\ up = "global" /\ resetting = FALSE /\ ~stale.web /\ ~stale.loop
      /\ \A t \in Tasks : todo[t] = <<>>
      /\ \A f \in Files : disk[f].conf.head = 0 /\ disk[f].conf.body = 0
  BY DEF Init, ZeroConfig
<1>3. WhoWrites
  BY <1>2, TypeFacts, <1>1, Zenon DEF WhoWrites, ConfigTypes
<1>4. SaveArrives /\ ResetArrives /\ ScenarioArrives
  BY <1>2, Zenon DEF SaveArrives, ResetArrives, ScenarioArrives
<1>5. OneVersion
  BY <1>2, Zenon DEF OneVersion, AtRest, Fresh
<1> QED
  BY <1>1, <1>3, <1>4, <1>5, Zenon DEF ConfigInv

\* Every step keeps it.
LEMMA ConfigInvStep ==
    ASSUME ConfigInv, [Next]_vars
    PROVE  ConfigInv'
<1>1. ConfigTypes /\ WhoWrites /\ SaveArrives /\ ResetArrives /\ ScenarioArrives /\ OneVersion
  BY Zenon DEF ConfigInv
<1>2. CASE Next
  <2>1. ConfigTypes'
    BY <1>1, <1>2, ConfigTypesStep, Zenon
  <2> QED
    BY <1>1, <1>2, <2>1, WhoWritesStep, SaveArrivesStep, ResetArrivesStep, ScenarioArrivesStep,
       OneVersionStep, Zenon DEF ConfigInv
<1>3. CASE UNCHANGED vars
  <2>1. /\ disk' = disk /\ GlobalConfig' = GlobalConfig /\ NetworkConfig' = NetworkConfig
        /\ web' = web /\ up' = up /\ todo' = todo /\ resetting' = resetting /\ saving' = saving
        /\ reset_posted' = reset_posted /\ timer' = timer /\ saves' = saves
        /\ crashes' = crashes /\ stale' = stale /\ torn' = torn
    BY <1>3, Zenon DEF vars
  <2>2. TypeOK'
    BY <1>1, <2>1, Zenon DEF ConfigTypes, TypeOK
  <2>3. ConfigTypes'
    BY <1>1, <2>1, <2>2, Zenon DEF ConfigTypes
  <2> QED
    BY <1>1, <1>3, <2>3, WhoWritesStep, SaveArrivesStep, ResetArrivesStep, ScenarioArrivesStep,
       OneVersionStep, Zenon DEF ConfigInv
<1> QED
  BY <1>2, <1>3

\* The invariant of the configuration files holds in every reachable state.
THEOREM ConfigInvariant == Spec => []ConfigInv
<1>1. Init => ConfigInv
  BY ConfigInvInit
<1>2. ConfigInv /\ [Next]_vars => ConfigInv'
  BY ConfigInvStep
<1> QED
  BY <1>1, <1>2, PTL DEF Spec

\* Every variable of the configuration files keeps its type.
THEOREM ConfigTypesKept == Spec => []TypeOK
<1>1. ConfigInv => TypeOK
  BY Zenon DEF ConfigInv, ConfigTypes
<1> QED
  BY <1>1, ConfigInvariant, PTL

\* What the boot leaves in memory is one version throughout, both files and
\* both parts, unless a restart or another task came into the middle of a
\* write, or the event loop wrote between a save and the restart (main.cpp:128-146,
\* 169-173; storage.cpp:202-223).
THEOREM BootsOneVersionHolds == Spec => []BootsOneVersion
<1>1. ASSUME ConfigInv, up = "web", ~torn
      PROVE  \E v \in Versions : \A c \in {NetworkConfig, GlobalConfig} : c.head = v /\ c.body = v
  <2>1. ~stale.web
    BY <1>1 DEF ConfigInv, WhoWrites
  <2>2. PICK v \in Versions \ {0} :
           Agreed(up, disk, Pending(todo[Writer(up)]), GlobalConfig, NetworkConfig, v)
    <3>1. up # "global"
      BY <1>1
    <3> QED
      BY <1>1, <2>1, <3>1, Zenon DEF ConfigInv, OneVersion
  <2>3. Holds(GlobalConfig, v) /\ Holds(NetworkConfig, v)
    BY <1>1, <2>2 DEF Agreed
  <2> QED
    BY <2>3, Zenon DEF Holds
<1>2. ConfigInv => BootsOneVersion
  BY <1>1, Zenon DEF BootsOneVersion
<1> QED
  BY <1>2, ConfigInvariant, PTL

\* The scenario in the file is the one in force, unless the web page was saved
\* since boot (events.c:296-311, http.c:706-713, 502).
THEOREM ScenarioKeptHolds == Spec => []ScenarioKept
<1>1. ASSUME ConfigInv, up = "run", NobodyWrites, ~stale.web
      PROVE  disk["global"].conf.senaryo = GlobalConfig.senaryo
  <2>1. up # "global" /\ Writer(up) \in Tasks
    BY <1>1 DEF Writer, Tasks
  <2>2. Pending(todo[Writer(up)]) = {}
    BY <1>1, <2>1, PendingEmpty, Zenon DEF NobodyWrites
  <2> QED
    BY <1>1, <2>1, <2>2, Zenon DEF ConfigInv, ScenarioArrives, ScenarioComes
<1>2. ConfigInv => ScenarioKept
  BY <1>1, Zenon DEF ScenarioKept
<1> QED
  BY <1>2, ConfigInvariant, PTL

\* When the timer restarts the chip after a save, both files hold that save,
\* and when a default reset restarts it both hold the defaults, unless another
\* task wrote as well (http.c:502-515, main.cpp:169, events.c:189-193).
THEOREM ConfigRestarts == Spec => RestartsFindWhole
<1>1. ASSUME ConfigInv, NobodyWrites, stale.web, ~stale.loop
      PROVE  OnDisk(saves + 1)
  <2>1. Pending(todo["httpd"]) = {}
    BY <1>1, PendingEmpty DEF NobodyWrites, Tasks
  <2> QED
    BY <1>1, <2>1, Arrived, Zenon DEF ConfigInv, SaveArrives, OnDisk, Holds
<1>2. ASSUME ConfigInv, resetting, todo["loop"] = <<>>, ~stale.web
      PROVE  OnDisk(1)
  <2>1. Pending(todo["loop"]) = {}
    BY <1>2, PendingEmpty
  <2>2. \A f \in Files : Becomes(disk, {}, f, 1)
    BY <1>2, <2>1, Zenon DEF ConfigInv, ResetArrives
  <2>3. \A f \in Files : Holds(disk[f].conf, 1)
    BY <2>2, Arrived
  <2> QED
    BY <2>3 DEF OnDisk, Holds
<1>3. ConfigInv => (timer /\ up' = "global" /\ crashes' = crashes /\ stale.web =>
                       OnDisk(saves + 1) \/ stale.loop \/ ~NobodyWrites)
  BY <1>1, Zenon
<1>4. ConfigInv => (resetting /\ todo["loop"] = <<>> /\ up' = "global" => OnDisk(1) \/ stale.web)
  BY <1>2, Zenon
<1> QED
  BY <1>3, <1>4, ConfigInvariant, PTL DEF RestartsFindWhole, SaveKept, ResetKept

-----------------------------------------------------------------------------
(* The status file: each record belongs to one function.                    *)

Records == Halves \X Halves

\* What an object has stored, or a record that was formatted.
OwnHalf(o) == {o} \X (1 .. MaxStores)
OwnOrZero(o) == OwnHalf(o) \union {Zero}

Stages == {"init", "format", "run"}
Storings == [obj : 0 .. MAX_FUNCTION, pos : Nat, parts : SUBSET {1, 2}]

StatusTypes ==
    /\ status_file \in [exists : BOOLEAN, recs : Seq(Records)]
    /\ boot_stage \in Stages
    /\ status \in [Objects -> Records \union {<<>>}]
    /\ storing \in Storings
    /\ storing.parts = {} \/ storing.parts = {1, 2} \/ storing.parts = {2}
    /\ storing = Nobody \/ (storing.obj \in Objects /\ storing.parts # {} /\ boot_stage = "run")
    /\ last \in [Objects -> Halves] /\ begun \in [Objects -> Halves]
    /\ spoilt \in BOOLEAN
    /\ failures \in 0 .. MaxFailures

\* Who stores what: nothing is stored completely that was not begun.
OwnStores(b, l) ==
    \A o \in Objects : b[o] \in OwnOrZero(o) /\ l[o] \in OwnOrZero(o) /\ l[o][2] <= b[o][2]

\* The record of an object: its own halves, the second after the first, none
\* of them older than what was stored completely last.
OwnRecord(rec, o, l) ==
    /\ rec[1] \in OwnOrZero(o) /\ rec[2] \in OwnOrZero(o)
    /\ rec[1] = Zero \/ l[2] <= rec[1][2]
    /\ rec[2] = Zero \/ (l[2] <= rec[2][2] /\ rec[1] # Zero)

\* What an object has in memory.
OwnStatus(st, o, l) ==
    /\ st[1] \in OwnHalf(o) /\ st[2] \in OwnHalf(o)
    /\ l[2] <= st[1][2] /\ l[2] <= st[2][2]

\* How long the file is at each stage of the start.
Formatted(file, stage) ==
    /\ Len(file.recs) <= MAX_FUNCTION
    /\ stage = "init" => Len(file.recs) = 0 \/ Len(file.recs) = MAX_FUNCTION
    /\ stage # "init" => file.exists
    /\ stage = "run" => Len(file.recs) = MAX_FUNCTION

RecordsOwned(file, l) ==
    \A o \in Objects : o < Len(file.recs) => OwnRecord(file.recs[o + 1], o, l[o])

StatusOwned(st, l) == \A o \in Objects : st[o] # <<>> => OwnStatus(st[o], o, l[o])

\* The store in progress: at the place of its object, with what the object
\* has in memory; its first half stays until the second follows.
StoreUnderWay(s, file, st, b) ==
    s # Nobody =>
        /\ s.pos = s.obj
        /\ b[s.obj] \in OwnHalf(s.obj) /\ st[s.obj] = Both(b[s.obj])
        /\ s.parts = {2} => file.recs[s.obj + 1][1] = b[s.obj]

StatusInv ==
    /\ StatusTypes
    /\ OwnStores(begun, last)
    /\ ~spoilt =>
          /\ Formatted(status_file, boot_stage)
          /\ RecordsOwned(status_file, last)
          /\ StatusOwned(status, last)
          /\ StoreUnderWay(storing, status_file, status, begun)

-----------------------------------------------------------------------------
(* Lemmas about halves and records.                                         *)

\* The halves of an object are its own, and none of them is zero.
LEMMA HalfFacts ==
    /\ Zero \in Halves /\ Garbage \in Halves
    /\ \A o \in Objects : OwnHalf(o) \subseteq Halves /\ OwnOrZero(o) \subseteq Halves
    /\ \A o \in Objects : \A x \in OwnHalf(o) :
          x # Zero /\ x[1] = o /\ x[2] \in 1 .. MaxStores /\ x = <<o, x[2]>>
    /\ \A o \in Objects : \A x \in OwnOrZero(o) : x[2] \in 0 .. MaxStores
    /\ Zero[2] = 0
<1>1. Zero \in Halves /\ Garbage \in Halves
  BY DEF Halves
<1>2. Zero[1] = 0 /\ Zero[2] = 0
  BY DEF Zero
<1>3. ASSUME NEW o \in Objects
      PROVE  OwnHalf(o) \subseteq Halves /\ OwnOrZero(o) \subseteq Halves
  <2>1. OwnHalf(o) \subseteq Objects \X (1 .. MaxStores)
    BY <1>3 DEF OwnHalf
  <2> QED
    BY <1>1, <2>1, Zenon DEF Halves, OwnOrZero
<1>4. ASSUME NEW o \in Objects, NEW x \in OwnHalf(o)
      PROVE  x # Zero /\ x[1] = o /\ x[2] \in 1 .. MaxStores /\ x = <<o, x[2]>>
  <2>1. x[1] = o /\ x[2] \in 1 .. MaxStores /\ x = <<o, x[2]>>
    BY <1>4 DEF OwnHalf
  <2>2. x # Zero
    BY <1>2, <2>1
  <2> QED
    BY <2>1, <2>2
<1>5. ASSUME NEW o \in Objects, NEW x \in OwnOrZero(o)
      PROVE  x[2] \in 0 .. MaxStores
  <2>1. MaxStores \in Nat
    BY StatusAssumption
  <2>2. x = Zero \/ x \in OwnHalf(o)
    BY <1>5 DEF OwnOrZero
  <2> QED
    BY <1>2, <1>4, <2>1, <2>2
<1> QED
  BY <1>1, <1>2, <1>3, <1>4, <1>5

\* Objects are numbered below MAX_FUNCTION.
LEMMA ObjectNumbers ==
    /\ MAX_FUNCTION \in Nat /\ MAX_FUNCTION > 0
    /\ Objects \subseteq Nat /\ MAX_FUNCTION \notin Objects
    /\ \A o \in Objects : o < MAX_FUNCTION
BY StatusAssumption DEF Objects

\* The halves of a pair, and a pair of one half twice.
LEMMA PairFacts ==
    /\ \A h : Both(h)[1] = h /\ Both(h)[2] = h
    /\ \A h \in Halves : Both(h) \in Records /\ Both(h) # <<>>
    /\ \A r \in Records : r[1] \in Halves /\ r[2] \in Halves
    /\ \A r \in Records, h \in {1, 2}, x \in Halves : WithHalf(r, h, x) \in Records
    /\ \A r, x : WithHalf(r, 1, x)[1] = x /\ WithHalf(r, 1, x)[2] = r[2]
    /\ \A r, x : WithHalf(r, 2, x)[1] = r[1] /\ WithHalf(r, 2, x)[2] = x
<1>1. \A h : Both(h)[1] = h /\ Both(h)[2] = h
  BY DEF Both
<1>2. ASSUME NEW h \in Halves
      PROVE  Both(h) \in Records /\ Both(h) # <<>>
  <2>1. <<h, h>> \in Halves \X Halves
    BY <1>2
  <2>2. <<h, h>> # <<>>
    OBVIOUS
  <2> QED
    BY <2>1, <2>2, Zenon DEF Both, Records
<1>3. \A r \in Records : r[1] \in Halves /\ r[2] \in Halves
  BY DEF Records
<1>4. ASSUME NEW r \in Records, NEW h \in {1, 2}, NEW x \in Halves
      PROVE  WithHalf(r, h, x) \in Records
  <2>1. r[1] \in Halves /\ r[2] \in Halves
    BY <1>3, <1>4
  <2>2. <<x, r[2]>> \in Halves \X Halves /\ <<r[1], x>> \in Halves \X Halves
    BY <1>4, <2>1
  <2> QED
    BY <2>2, Zenon DEF WithHalf, Records
<1>5. \A r, x : WithHalf(r, 1, x)[1] = x /\ WithHalf(r, 1, x)[2] = r[2]
  BY DEF WithHalf
<1>6. \A r, x : WithHalf(r, 2, x)[1] = r[1] /\ WithHalf(r, 2, x)[2] = x
  BY DEF WithHalf
<1> QED
  BY <1>1, <1>2, <1>3, <1>4, <1>5, <1>6

\* What StatusTypes says of a file.
LEMMA FileTypes ==
    ASSUME StatusTypes
    PROVE  /\ status_file.exists \in BOOLEAN /\ status_file.recs \in Seq(Records)
           /\ status_file = [exists |-> status_file.exists, recs |-> status_file.recs]
           /\ FileLength \in Nat
           /\ \A i \in 1 .. FileLength : status_file.recs[i] \in Records
           /\ \A x \in BOOLEAN : [status_file EXCEPT !.exists = x] =
                                    [exists |-> x, recs |-> status_file.recs]
           /\ \A r : [status_file EXCEPT !.recs = r] = [exists |-> status_file.exists, recs |-> r]
<1>1. status_file \in [exists : BOOLEAN, recs : Seq(Records)]
  BY Zenon DEF StatusTypes
<1>2. status_file.recs \in Seq(Records)
  BY <1>1
<1>3. FileLength \in Nat /\ \A i \in 1 .. FileLength : status_file.recs[i] \in Records
  BY <1>2 DEF FileLength
<1> QED
  BY <1>1, <1>2, <1>3

\* The record an object reads, of the right type always.
LEMMA ReadTypes ==
    ASSUME StatusTypes, NEW o \in Objects
    PROVE  /\ ReadStatus(o) \in Records
           /\ status_file.exists /\ FileLength > o => ReadStatus(o) = status_file.recs[o + 1]
<1>1. o \in Nat
  BY ObjectNumbers
<1>2. FileLength \in Nat /\ \A i \in 1 .. FileLength : status_file.recs[i] \in Records
  BY FileTypes, Zenon
<1>3. Both(Garbage) \in Records
  BY HalfFacts, PairFacts, Zenon
<1>4. ReadFrom(o) = o + 1
  BY DEF ReadFrom
<1>5. FileLength >= o + 1 => status_file.recs[o + 1] \in Records
  BY <1>1, <1>2
<1>6. ReadStatus(o) = IF status_file.exists /\ FileLength >= o + 1 THEN status_file.recs[o + 1]
                      ELSE Both(Garbage)
  BY <1>4, Zenon DEF ReadStatus
<1> QED
  BY <1>1, <1>2, <1>3, <1>5, <1>6

\* What a store does: the object's memory, its turn, and where it goes.
StoreFacts(o, next) ==
    /\ next \in OwnHalf(o) /\ begun[o][2] <= next[2]
    /\ begun' \in [Objects -> Halves] /\ begun'[o] = next
    /\ \A u \in Objects : u # o => begun'[u] = begun[u]
    /\ status' \in [Objects -> Records \union {<<>>}] /\ status'[o] = Both(next)
    /\ \A u \in Objects : u # o => status'[u] = status[u]
    /\ \/ ~status_file.exists /\ storing' = storing
       \/ /\ status_file.exists
          /\ storing' \in Storings /\ storing'.obj = o /\ storing'.parts = {1, 2}
          /\ o <= FileLength => storing'.pos = o
    /\ status_file' = status_file /\ boot_stage' = boot_stage /\ last' = last
    /\ spoilt' = spoilt /\ failures' = failures

\* Store does this, with a status newer than all the object began to store.
LEMMA StoreDoes ==
    ASSUME StatusTypes, OwnStores(begun, last), NEW o \in Objects, Store(o)
    PROVE  \E next : StoreFacts(o, next)
<1>1. begun \in [Objects -> Halves] /\ status \in [Objects -> Records \union {<<>>}]
  BY Zenon DEF StatusTypes
<1>2. begun[o] \in OwnOrZero(o) /\ begun[o][2] \in 0 .. MaxStores
  BY HalfFacts, Zenon DEF OwnStores
<1>3. PICK n : n = IF begun[o] = Zero THEN 1 ELSE begun[o][2] + 1
  OBVIOUS
<1>4. begun[o][2] < MaxStores
  BY DEF Store
<1>5. n \in 1 .. MaxStores /\ begun[o][2] <= n
  <2>1. MaxStores \in Nat \ {0}
    BY StatusAssumption
  <2>2. CASE begun[o] = Zero
    BY <1>3, <2>1, <2>2, HalfFacts
  <2>3. CASE begun[o] # Zero
    BY <1>2, <1>3, <1>4, <2>1, <2>3
  <2> QED
    BY <2>2, <2>3
<1>6. PICK next : next = <<o, n>>
  OBVIOUS
<1>7. next \in OwnHalf(o) /\ next[2] = n
  BY <1>5, <1>6 DEF OwnHalf
<1>8. next \in Halves /\ Both(next) \in Records
  BY <1>7, HalfFacts, PairFacts, Zenon
<1>9. /\ status' = [status EXCEPT ![o] = Both(next)]
      /\ begun' = [begun EXCEPT ![o] = next]
      /\ \/ ~status_file.exists /\ storing' = storing
         \/ /\ status_file.exists
            /\ \E pos \in Landing(o) : storing' = [obj |-> o, pos |-> pos, parts |-> {1, 2}]
      /\ status_file' = status_file /\ boot_stage' = boot_stage /\ last' = last
      /\ spoilt' = spoilt /\ failures' = failures
  BY <1>3, <1>6, Zenon DEF Store
<1>10. /\ begun' \in [Objects -> Halves] /\ begun'[o] = next
       /\ \A u \in Objects : u # o => begun'[u] = begun[u]
       /\ status' \in [Objects -> Records \union {<<>>}] /\ status'[o] = Both(next)
       /\ \A u \in Objects : u # o => status'[u] = status[u]
  BY <1>1, <1>8, <1>9
<1>11. ASSUME status_file.exists
       PROVE  /\ storing' \in Storings /\ storing'.obj = o /\ storing'.parts = {1, 2}
              /\ o <= FileLength => storing'.pos = o
  <2>1. PICK pos \in Landing(o) : storing' = [obj |-> o, pos |-> pos, parts |-> {1, 2}]
    BY <1>9, <1>11, Zenon
  <2>2. o \in Nat /\ o \in 0 .. MAX_FUNCTION
    BY ObjectNumbers
  <2>3. FileLength \in Nat
    BY FileTypes, Zenon
  <2>4. pos \in Nat /\ (o <= FileLength => pos = o)
    BY <2>2, <2>3 DEF Landing
  <2> QED
    BY <2>1, <2>2, <2>4 DEF Storings
<1>12. StoreFacts(o, next)
  BY <1>5, <1>7, <1>9, <1>10, <1>11, Zenon DEF StoreFacts
<1> QED
  BY <1>12, Zenon

\* What half of a record does to the file: the record at the place of the
\* store gets the half, the others stay, and the file is long enough.
WriteHalfFacts(h) ==
    /\ storing.obj \in Objects /\ boot_stage = "run" /\ storing # Nobody
    /\ (h = 1 /\ storing.parts = {1, 2}) \/ (h = 2 /\ storing.parts = {2})
    /\ status_file'.exists = status_file.exists
    /\ status_file' \in [exists : BOOLEAN, recs : Seq(Records)]
    /\ storing.pos < FileLength =>
          /\ Len(status_file'.recs) = FileLength
          /\ status_file'.recs[storing.pos + 1] =
                WithHalf(status_file.recs[storing.pos + 1], h, begun[storing.obj])
          /\ \A i \in 1 .. FileLength : i # storing.pos + 1 =>
                status_file'.recs[i] = status_file.recs[i]
    /\ h = 1 => /\ storing' = [obj |-> storing.obj, pos |-> storing.pos, parts |-> {2}]
                /\ last' = last
    /\ h = 2 => /\ storing' = Nobody
                /\ last' = [last EXCEPT ![storing.obj] = begun[storing.obj]]
    /\ boot_stage' = boot_stage /\ status' = status /\ begun' = begun
    /\ spoilt' = spoilt /\ failures' = failures

\* WriteHalf does this.
LEMMA WriteHalfDoes ==
    ASSUME StatusTypes, NEW h \in {1, 2}, WriteHalf(h)
    PROVE  WriteHalfFacts(h)
<1>1. /\ storing \in Storings /\ begun \in [Objects -> Halves]
      /\ storing.parts = {} \/ storing.parts = {1, 2} \/ storing.parts = {2}
      /\ storing = Nobody \/ (storing.obj \in Objects /\ storing.parts # {} /\ boot_stage = "run")
  BY Zenon DEF StatusTypes
<1>2. h \in storing.parts /\ (h = 2 => 1 \notin storing.parts)
  BY DEF WriteHalf
<1>3. storing # Nobody
  <2>1. Nobody.parts = {}
    BY DEF Nobody
  <2> QED
    BY <1>2, <2>1, Zenon
<1>4. storing.obj \in Objects /\ boot_stage = "run"
  BY <1>1, <1>3, Zenon
<1>5. (h = 1 /\ storing.parts = {1, 2}) \/ (h = 2 /\ storing.parts = {2})
  BY <1>1, <1>2
<1>6. storing.pos \in Nat /\ storing = [obj |-> storing.obj, pos |-> storing.pos, parts |-> storing.parts]
  BY <1>1 DEF Storings
<1>7. PICK b : b = begun[storing.obj]
  OBVIOUS
<1>8. b \in Halves
  BY <1>1, <1>4, <1>7
<1>9. PICK p : p = storing.pos + 1
  OBVIOUS
<1>10. FileLength \in Nat /\ \A i \in 1 .. FileLength : status_file.recs[i] \in Records
  BY FileTypes, Zenon
<1>11. PICK n : n = IF p > FileLength THEN p ELSE FileLength
  OBVIOUS
<1>12. n \in Nat /\ p \in 1 .. n /\ (storing.pos < FileLength => n = FileLength)
  BY <1>6, <1>9, <1>10, <1>11
<1> DEFINE was(i) == IF i <= FileLength THEN status_file.recs[i] ELSE Both(Zero)
           recs   == [i \in 1 .. n |-> IF i = p THEN WithHalf(was(i), h, b) ELSE was(i)]
<1>13. status_file' = [status_file EXCEPT !.recs = recs]
  BY <1>7, <1>9, <1>11, Zenon DEF WriteHalf
<1>14. \A i \in 1 .. n : was(i) \in Records
  <2>1. Both(Zero) \in Records
    BY HalfFacts, PairFacts, Zenon
  <2> QED
    BY <1>10, <1>12, <2>1
<1>15. \A i \in 1 .. n : WithHalf(was(i), h, b) \in Records
  BY <1>8, <1>14, PairFacts
<1>16. \A i \in 1 .. FileLength : was(i) = status_file.recs[i]
  BY <1>10
<1> HIDE DEF was
<1>17. recs \in [1 .. n -> Records]
  BY <1>14, <1>15
<1>18. recs \in Seq(Records) /\ Len(recs) = n
  BY <1>12, <1>17
<1>19. \A i \in 1 .. n : recs[i] = IF i = p THEN WithHalf(was(i), h, b) ELSE was(i)
  OBVIOUS
<1> HIDE DEF recs
<1>20. status_file' = [exists |-> status_file.exists, recs |-> recs] /\ status_file.exists \in BOOLEAN
  BY <1>13, FileTypes, Zenon
<1>21. /\ status_file'.exists = status_file.exists /\ status_file'.recs = recs
       /\ status_file' \in [exists : BOOLEAN, recs : Seq(Records)]
  BY <1>18, <1>20
<1>22. storing.pos < FileLength =>
          /\ Len(status_file'.recs) = FileLength
          /\ status_file'.recs[storing.pos + 1] =
                WithHalf(status_file.recs[storing.pos + 1], h, begun[storing.obj])
          /\ \A i \in 1 .. FileLength : i # storing.pos + 1 =>
                status_file'.recs[i] = status_file.recs[i]
  <2> SUFFICES ASSUME storing.pos < FileLength
               PROVE  /\ Len(status_file'.recs) = FileLength
                      /\ status_file'.recs[storing.pos + 1] =
                            WithHalf(status_file.recs[storing.pos + 1], h, begun[storing.obj])
                      /\ \A i \in 1 .. FileLength : i # storing.pos + 1 =>
                            status_file'.recs[i] = status_file.recs[i]
    BY Zenon
  <2>1. n = FileLength /\ p \in 1 .. FileLength /\ storing.pos + 1 = p
    BY <1>9, <1>12
  <2>2. Len(recs) = FileLength
    BY <1>18, <2>1
  <2>3. recs[p] = WithHalf(status_file.recs[p], h, b)
    BY <1>16, <1>19, <2>1
  <2>4. \A i \in 1 .. FileLength : i # p => recs[i] = status_file.recs[i]
    BY <1>16, <1>19, <2>1
  <2> QED
    BY <1>7, <1>21, <2>1, <2>2, <2>3, <2>4, Zenon
<1>23. h = 1 => /\ storing' = [obj |-> storing.obj, pos |-> storing.pos, parts |-> {2}]
                /\ last' = last
  <2>1. SUFFICES ASSUME h = 1
                 PROVE  storing' = [obj |-> storing.obj, pos |-> storing.pos, parts |-> {2}]
                        /\ last' = last
    BY Zenon
  <2>2. storing' = [storing EXCEPT !.parts = @ \ {1}] /\ last' = last
    BY <2>1 DEF WriteHalf
  <2>3. storing.parts \ {1} = {2}
    BY <1>5, <2>1
  <2> QED
    BY <1>6, <2>2, <2>3
<1>24. h = 2 => /\ storing' = Nobody
                /\ last' = [last EXCEPT ![storing.obj] = begun[storing.obj]]
  BY Zenon DEF WriteHalf
<1>25. boot_stage' = boot_stage /\ status' = status /\ begun' = begun
       /\ spoilt' = spoilt /\ failures' = failures
  BY DEF WriteHalf
<1> QED
  BY <1>3, <1>4, <1>5, <1>21, <1>22, <1>23, <1>24, <1>25, Zenon DEF WriteHalfFacts

\* Formatting appends a zero record.
FormatFacts ==
    /\ boot_stage = "format"
    /\ status' = status /\ storing' = storing /\ last' = last /\ begun' = begun
    /\ spoilt' = spoilt /\ failures' = failures
    /\ status_file'.exists = status_file.exists
    /\ status_file' \in [exists : BOOLEAN, recs : Seq(Records)]
    /\ \/ /\ boot_stage' = "format" /\ FileLength < MAX_FUNCTION
          /\ Len(status_file'.recs) = FileLength + 1
          /\ status_file'.recs[FileLength + 1] = Both(Zero)
          /\ \A i \in 1 .. FileLength : status_file'.recs[i] = status_file.recs[i]
       \/ boot_stage' = "run" /\ FileLength = MAX_FUNCTION /\ status_file' = status_file

\* Format does this.
LEMMA FormatDoes ==
    ASSUME StatusTypes, Format
    PROVE  FormatFacts
<1>1. /\ boot_stage = "format"
      /\ status' = status /\ storing' = storing /\ last' = last /\ begun' = begun
      /\ spoilt' = spoilt /\ failures' = failures
  BY DEF Format
<1>2. CASE boot_stage' = "run" /\ FileLength = MAX_FUNCTION /\ status_file' = status_file
  <2>1. status_file' \in [exists : BOOLEAN, recs : Seq(Records)]
    BY <1>2, Zenon DEF StatusTypes
  <2> QED
    BY <1>1, <1>2, <2>1, Zenon DEF FormatFacts
<1>3. CASE /\ boot_stage' = boot_stage /\ FileLength < MAX_FUNCTION
           /\ status_file' = [status_file EXCEPT !.recs = Append(@, Both(Zero))]
  <2>1. PICK z : z = Both(Zero)
    OBVIOUS
  <2>2. z \in Records
    BY <2>1, HalfFacts, PairFacts, Zenon
  <2>3. PICK s : s = status_file.recs
    OBVIOUS
  <2>4. s \in Seq(Records) /\ Len(s) = FileLength
    BY <2>3, FileTypes DEF FileLength
  <2>5. PICK t : t = Append(s, z)
    OBVIOUS
  <2>6. /\ t \in Seq(Records) /\ Len(t) = FileLength + 1 /\ t[FileLength + 1] = z
        /\ \A i \in 1 .. FileLength : t[i] = s[i]
    BY <2>2, <2>4, <2>5
  <2>7. status_file' = [exists |-> status_file.exists, recs |-> t] /\ status_file.exists \in BOOLEAN
    <3>1. status_file' = [status_file EXCEPT !.recs = t]
      BY <1>3, <2>1, <2>3, <2>5
    <3> QED
      BY <3>1, FileTypes, Zenon
  <2>8. /\ status_file'.exists = status_file.exists /\ status_file'.recs = t
        /\ status_file' \in [exists : BOOLEAN, recs : Seq(Records)]
    BY <2>6, <2>7
  <2> QED
    BY <1>1, <1>3, <2>1, <2>3, <2>6, <2>8, Zenon DEF FormatFacts
<1> QED
  BY <1>2, <1>3, Zenon DEF Format

\* Storage::init creates the file, or goes on without it.
InitFilesFacts ==
    /\ boot_stage = "init"
    /\ status' = status /\ storing' = storing /\ last' = last /\ begun' = begun
    /\ failures' = failures
    /\ status_file' \in [exists : BOOLEAN, recs : Seq(Records)]
    /\ status_file'.recs = status_file.recs
    /\ \/ /\ spoilt' = spoilt /\ status_file'.exists
          /\ boot_stage' = IF FileLength = 0 THEN "format" ELSE "run"
       \/ spoilt' = TRUE /\ boot_stage' = "run"

\* InitFiles does this.
LEMMA InitFilesDoes ==
    ASSUME StatusTypes, InitFiles
    PROVE  InitFilesFacts
<1>1. /\ boot_stage = "init"
      /\ status' = status /\ storing' = storing /\ last' = last /\ begun' = begun
      /\ failures' = failures
  BY DEF InitFiles
<1>2. CASE /\ status_file' = [status_file EXCEPT !.exists = TRUE]
           /\ boot_stage' = (IF FileLength = 0 THEN "format" ELSE "run")
           /\ spoilt' = spoilt
  <2>1. status_file' = [exists |-> TRUE, recs |-> status_file.recs]
        /\ status_file.recs \in Seq(Records)
    BY <1>2, FileTypes, Zenon
  <2>2. /\ status_file'.exists /\ status_file'.recs = status_file.recs
        /\ status_file' \in [exists : BOOLEAN, recs : Seq(Records)]
    BY <2>1
  <2> QED
    BY <1>1, <1>2, <2>2, Zenon DEF InitFilesFacts
<1>3. CASE boot_stage' = "run" /\ spoilt' = TRUE /\ status_file' = status_file
  <2>1. status_file' \in [exists : BOOLEAN, recs : Seq(Records)]
    BY <1>3, Zenon DEF StatusTypes
  <2> QED
    BY <1>1, <1>3, <2>1, Zenon DEF InitFilesFacts
<1> QED
  BY <1>2, <1>3, Zenon DEF InitFiles

-----------------------------------------------------------------------------
(* The invariant of the status file.                                        *)

StatusParts ==
    /\ Formatted(status_file, boot_stage)
    /\ RecordsOwned(status_file, last)
    /\ StatusOwned(status, last)
    /\ StoreUnderWay(storing, status_file, status, begun)

\* An object stores: its memory is its own, and it starts a record.
LEMMA StoreStep ==
    ASSUME StatusInv, NEW o \in Objects, Store(o), boot_stage = "run", storing = Nobody
    PROVE  StatusInv'
<1>1. StatusTypes /\ OwnStores(begun, last) /\ (~spoilt => StatusParts)
  BY Zenon DEF StatusInv, StatusParts
<1>2. PICK next : StoreFacts(o, next)
  BY <1>1, StoreDoes
<1>3. next \in OwnHalf(o) /\ next[2] \in 1 .. MaxStores
  BY <1>2, HalfFacts, Zenon DEF StoreFacts
<1>4. \A u \in Objects : begun'[u] = IF u = o THEN next ELSE begun[u]
  BY <1>2, Zenon DEF StoreFacts
<1>5. \A u \in Objects : status'[u] = IF u = o THEN Both(next) ELSE status[u]
  BY <1>2, Zenon DEF StoreFacts
<1>6. last[o][2] <= next[2]
  <2>1. last[o][2] <= begun[o][2] /\ begun[o][2] <= next[2]
    BY <1>1, <1>2, Zenon DEF OwnStores, StoreFacts
  <2>2. last[o][2] \in 0 .. MaxStores /\ begun[o][2] \in 0 .. MaxStores /\ MaxStores \in Nat
    BY <1>1, HalfFacts, StatusAssumption DEF OwnStores
  <2> QED
    BY <1>3, <2>1, <2>2
<1>7. StatusTypes'
  <2>1. storing' \in Storings
    BY <1>1, <1>2, Zenon DEF StoreFacts, StatusTypes
  <2>2. storing'.parts = {} \/ storing'.parts = {1, 2} \/ storing'.parts = {2}
    BY <1>1, <1>2, Zenon DEF StoreFacts, StatusTypes
  <2>3. storing' = Nobody \/ (storing'.obj \in Objects /\ storing'.parts # {} /\ boot_stage' = "run")
    <3>1. {1, 2} # {}
      OBVIOUS
    <3> QED
      BY <1>2, <3>1, Zenon DEF StoreFacts
  <2> QED
    BY <1>1, <1>2, <2>1, <2>2, <2>3, Zenon DEF StoreFacts, StatusTypes
<1>8. OwnStores(begun', last')
  <2>1. last' = last /\ next \in OwnOrZero(o)
    BY <1>2, <1>3, Zenon DEF StoreFacts, OwnOrZero
  <2> QED
    BY <1>1, <1>4, <1>6, <2>1, Zenon DEF OwnStores
<1>9. ASSUME ~spoilt
      PROVE  StatusParts'
  <2>1. status_file' = status_file /\ boot_stage' = boot_stage /\ last' = last
    BY <1>2, Zenon DEF StoreFacts
  <2>2. Formatted(status_file', boot_stage') /\ RecordsOwned(status_file', last')
    BY <1>1, <1>9, <2>1, Zenon DEF StatusParts
  <2>3. StatusOwned(status', last')
    <3>1. OwnStatus(Both(next), o, last[o])
      BY <1>3, <1>6, PairFacts DEF OwnStatus
    <3> QED
      BY <1>1, <1>5, <1>9, <2>1, <3>1, Zenon DEF StatusOwned, StatusParts
  <2>4. StoreUnderWay(storing', status_file', status', begun')
    <3>1. status_file.exists /\ FileLength = MAX_FUNCTION
      BY <1>1, <1>9, Zenon DEF StatusParts, Formatted, FileLength
    <3>2. o <= FileLength
      BY <3>1, ObjectNumbers
    <3>3. storing'.obj = o /\ storing'.parts = {1, 2} /\ storing'.pos = o
      BY <1>2, <3>1, <3>2, Zenon DEF StoreFacts
    <3>4. {1, 2} # {2}
      OBVIOUS
    <3>5. begun'[o] = next /\ status'[o] = Both(next)
      BY <1>2, Zenon DEF StoreFacts
    <3> QED
      BY <1>3, <3>3, <3>4, <3>5, Zenon DEF StoreUnderWay
  <2> QED
    BY <2>2, <2>3, <2>4, Zenon DEF StatusParts
<1> QED
  BY <1>2, <1>7, <1>8, <1>9, Zenon DEF StatusInv, StatusParts, StoreFacts

\* An object that finds its record takes it over.
LEMMA ReadStep ==
    ASSUME StatusInv, NEW o \in Objects, boot_stage = "run", storing = Nobody, status[o] = <<>>,
           IsFirst(ReadStatus(o)), status' = [status EXCEPT ![o] = ReadStatus(o)],
           UNCHANGED <<status_file, boot_stage, storing, last, begun, spoilt, failures>>
    PROVE  StatusInv'
<1>1. StatusTypes /\ OwnStores(begun, last) /\ (~spoilt => StatusParts)
  BY Zenon DEF StatusInv, StatusParts
<1>2. status_file' = status_file /\ boot_stage' = boot_stage /\ storing' = storing /\ last' = last
      /\ begun' = begun /\ spoilt' = spoilt /\ failures' = failures
  BY Zenon
<1>3. PICK r : r = ReadStatus(o)
  OBVIOUS
<1>4. r \in Records /\ (status_file.exists /\ FileLength > o => r = status_file.recs[o + 1])
  BY <1>1, <1>3, ReadTypes
<1>5. status \in [Objects -> Records \union {<<>>}]
  BY <1>1, Zenon DEF StatusTypes
<1>6. /\ status' \in [Objects -> Records \union {<<>>}] /\ status'[o] = r
      /\ \A u \in Objects : u # o => status'[u] = status[u]
  BY <1>3, <1>4, <1>5
<1>7. StatusTypes'
  BY <1>1, <1>2, <1>6, Zenon DEF StatusTypes
<1>8. ASSUME ~spoilt
      PROVE  StatusParts'
  <2>1. status_file.exists /\ FileLength = MAX_FUNCTION
    BY <1>1, <1>8, Zenon DEF StatusParts, Formatted, FileLength
  <2>2. FileLength > o /\ o < Len(status_file.recs)
    BY <2>1, ObjectNumbers DEF FileLength
  <2>3. OwnRecord(r, o, last[o])
    BY <1>1, <1>4, <1>8, <2>1, <2>2, Zenon DEF StatusParts, RecordsOwned
  <2>4. r[2] # Zero
    BY <1>3, Zenon DEF IsFirst
  <2>5. OwnStatus(r, o, last[o])
    BY <2>3, <2>4, Zenon DEF OwnRecord, OwnStatus, OwnOrZero
  <2>6. StatusOwned(status', last')
    BY <1>1, <1>2, <1>6, <1>8, <2>5, Zenon DEF StatusParts, StatusOwned
  <2> QED
    BY <1>1, <1>2, <1>8, <2>6, Zenon DEF StatusParts, StoreUnderWay
<1>9. OwnStores(begun', last')
  BY <1>1, <1>2
<1> QED
  BY <1>2, <1>7, <1>8, <1>9 DEF StatusInv, StatusParts

\* Half of a record lands in the record of its object.
LEMMA WriteHalfStep ==
    ASSUME StatusInv, NEW h \in {1, 2}, WriteHalf(h)
    PROVE  StatusInv'
<1>1. StatusTypes /\ OwnStores(begun, last) /\ (~spoilt => StatusParts)
  BY Zenon DEF StatusInv, StatusParts
<1>2. WriteHalfFacts(h)
  BY <1>1, WriteHalfDoes
<1>3. PICK o \in Objects : o = storing.obj
  BY <1>2, Zenon DEF WriteHalfFacts
<1>4. PICK b : b = begun[o]
  OBVIOUS
<1>5. /\ status_file' \in [exists : BOOLEAN, recs : Seq(Records)]
      /\ status_file'.exists = status_file.exists
      /\ boot_stage' = boot_stage /\ status' = status /\ begun' = begun
      /\ spoilt' = spoilt /\ failures' = failures /\ storing # Nobody /\ boot_stage = "run"
  BY <1>2, Zenon DEF WriteHalfFacts
<1>6. begun \in [Objects -> Halves] /\ last \in [Objects -> Halves] /\ storing \in Storings
  BY <1>1, Zenon DEF StatusTypes
<1>7. \/ last' = last /\ storing' = [obj |-> o, pos |-> storing.pos, parts |-> {2}] /\ h = 1
      \/ last' = [last EXCEPT ![o] = b] /\ storing' = Nobody /\ h = 2
  BY <1>2, <1>3, <1>4, Zenon DEF WriteHalfFacts
<1>8. /\ last' \in [Objects -> Halves]
      /\ \A u \in Objects : last'[u] = last[u] \/ (u = o /\ last'[u] = b)
      /\ h = 2 => last'[o] = b
      /\ h = 1 => last' = last
  BY <1>4, <1>6, <1>7
<1>9. StatusTypes'
  <2>1. CASE h = 1
    <3>1. storing' = [obj |-> o, pos |-> storing.pos, parts |-> {2}]
      BY <1>7, <2>1
    <3>2. o \in 0 .. MAX_FUNCTION
      BY ObjectNumbers
    <3>3. storing' \in Storings /\ storing'.parts = {2} /\ storing'.obj = o
      BY <1>6, <3>1, <3>2 DEF Storings
    <3>4. {2} # {}
      OBVIOUS
    <3> QED
      BY <1>1, <1>5, <1>8, <3>3, <3>4, Zenon DEF StatusTypes
  <2>2. CASE h = 2
    <3>1. Nobody \in Storings /\ Nobody.parts = {}
      BY ObjectNumbers DEF Nobody, Storings
    <3>2. storing' = Nobody
      BY <1>7, <2>2
    <3> QED
      BY <1>1, <1>5, <1>8, <3>1, <3>2, Zenon DEF StatusTypes
  <2> QED
    BY <2>1, <2>2
<1>10. OwnStores(begun', last')
  <2>1. SUFFICES ASSUME NEW u \in Objects
                 PROVE  /\ begun[u] \in OwnOrZero(u) /\ last'[u] \in OwnOrZero(u)
                        /\ last'[u][2] <= begun[u][2]
    BY <1>5, Zenon DEF OwnStores
  <2>2. begun[u] \in OwnOrZero(u) /\ last[u] \in OwnOrZero(u) /\ last[u][2] <= begun[u][2]
    BY <1>1, Zenon DEF OwnStores
  <2>3. begun[u][2] \in 0 .. MaxStores
    BY <2>2, HalfFacts
  <2>4. begun[u][2] <= begun[u][2]
    BY <2>3
  <2> QED
    BY <1>4, <1>8, <2>1, <2>2, <2>4, Zenon
<1>11. ASSUME ~spoilt
       PROVE  StatusParts'
  <2>1. /\ storing.pos = o /\ b \in OwnHalf(o) /\ status[o] = Both(b)
        /\ storing.parts = {2} => status_file.recs[o + 1][1] = b
    BY <1>1, <1>3, <1>4, <1>5, <1>11, Zenon DEF StatusParts, StoreUnderWay
  <2>2. status_file.exists /\ FileLength = MAX_FUNCTION /\ Len(status_file.recs) = MAX_FUNCTION
    BY <1>1, <1>5, <1>11, Zenon DEF StatusParts, Formatted, FileLength
  <2>3. storing.pos < FileLength
    BY <2>1, <2>2, ObjectNumbers
  <2>4. /\ Len(status_file'.recs) = MAX_FUNCTION
        /\ status_file'.recs[o + 1] = WithHalf(status_file.recs[o + 1], h, b)
        /\ \A i \in 1 .. FileLength : i # o + 1 => status_file'.recs[i] = status_file.recs[i]
    BY <1>2, <1>3, <1>4, <2>1, <2>2, <2>3, Zenon DEF WriteHalfFacts
  <2>5. Formatted(status_file', boot_stage')
    BY <1>1, <1>5, <1>11, <2>2, <2>4, Zenon DEF StatusParts, Formatted
  <2>6. b # Zero /\ b \in OwnOrZero(o) /\ b[2] \in 1 .. MaxStores
    BY <2>1, HalfFacts, Zenon DEF OwnOrZero
  <2>7. last[o][2] <= b[2] /\ b[2] <= b[2]
    BY <1>1, <1>4, <2>6, StatusAssumption DEF OwnStores
  <2>8. OwnRecord(status_file.recs[o + 1], o, last[o])
    BY <1>1, <1>11, <2>2, ObjectNumbers, Zenon DEF StatusParts, RecordsOwned
  <2>9. OwnRecord(status_file'.recs[o + 1], o, last'[o])
    <3>1. PICK r : r = status_file.recs[o + 1]
      OBVIOUS
    <3>2. CASE h = 1
      <4>1. PICK x : x = WithHalf(r, 1, b)
        OBVIOUS
      <4>2. x[1] = b /\ x[2] = r[2]
        BY <4>1 DEF WithHalf
      <4>3. OwnRecord(x, o, last[o])
        BY <2>6, <2>7, <2>8, <3>1, <4>2, Zenon DEF OwnRecord
      <4> QED
        BY <1>8, <2>4, <3>1, <3>2, <4>1, <4>3
    <3>3. CASE h = 2
      <4>1. PICK x : x = WithHalf(r, 2, b)
        OBVIOUS
      <4>2. x[1] = r[1] /\ x[2] = b
        BY <4>1 DEF WithHalf
      <4>3. r[1] = b
        BY <1>2, <2>1, <3>1, <3>3 DEF WriteHalfFacts
      <4>4. OwnRecord(x, o, b)
        BY <2>6, <2>7, <4>2, <4>3, Zenon DEF OwnRecord
      <4> QED
        BY <1>8, <2>4, <3>1, <3>3, <4>1, <4>4
    <3> QED
      BY <3>2, <3>3
  <2>10. RecordsOwned(status_file', last')
    <3>1. SUFFICES ASSUME NEW u \in Objects
                   PROVE  OwnRecord(status_file'.recs[u + 1], u, last'[u])
      BY Zenon DEF RecordsOwned
    <3>2. CASE u = o
      BY <2>9, <3>2
    <3>3. CASE u # o
      <4>1. u + 1 \in 1 .. FileLength /\ u + 1 # o + 1
        BY <2>2, <3>3, ObjectNumbers
      <4>2. u < Len(status_file.recs)
        BY <2>2, ObjectNumbers
      <4>3. OwnRecord(status_file.recs[u + 1], u, last[u])
        BY <1>1, <1>11, <4>2, Zenon DEF StatusParts, RecordsOwned
      <4>4. last'[u] = last[u]
        BY <1>8, <3>3, Zenon
      <4> QED
        BY <2>4, <4>1, <4>3, <4>4, Zenon
    <3> QED
      BY <3>2, <3>3
  <2>11. StatusOwned(status', last')
    <3>1. OwnStatus(Both(b), o, b)
      BY <2>1, <2>7, PairFacts, Zenon DEF OwnStatus
    <3> QED
      BY <1>1, <1>5, <1>8, <1>11, <2>1, <3>1, Zenon DEF StatusParts, StatusOwned
  <2>12. StoreUnderWay(storing', status_file', status', begun')
    <3>1. CASE h = 1
      <4>1. storing' = [obj |-> o, pos |-> storing.pos, parts |-> {2}]
        BY <1>7, <3>1
      <4>2. storing'.obj = o /\ storing'.pos = o
        BY <2>1, <4>1
      <4>3. status_file'.recs[o + 1][1] = b
        BY <2>4, <3>1, PairFacts
      <4> QED
        BY <1>4, <1>5, <2>1, <4>2, <4>3, Zenon DEF StoreUnderWay
    <3>2. CASE h = 2
      BY <1>7, <3>2 DEF StoreUnderWay
    <3> QED
      BY <3>1, <3>2
  <2> QED
    BY <2>5, <2>10, <2>11, <2>12, Zenon DEF StatusParts
<1> QED
  BY <1>5, <1>9, <1>10, <1>11, Zenon DEF StatusInv, StatusParts

\* Storage::init and the format leave records that nobody has stored.
LEMMA StartStep ==
    ASSUME StatusInv, InitFiles \/ Format
    PROVE  StatusInv'
<1>1. StatusTypes /\ OwnStores(begun, last) /\ (~spoilt => StatusParts)
  BY Zenon DEF StatusInv, StatusParts
<1>2. CASE InitFiles
  <2>1. InitFilesFacts
    BY <1>1, <1>2, InitFilesDoes, Zenon
  <2>2. boot_stage' \in Stages
    BY <2>1 DEF InitFilesFacts, Stages
  <2>3. StatusTypes'
    <3>1. storing = Nobody
      BY <1>1, <2>1 DEF StatusTypes, InitFilesFacts
    <3>2. spoilt' \in BOOLEAN
      BY <1>1, <2>1, Zenon DEF StatusTypes, InitFilesFacts
    <3> QED
      BY <1>1, <2>1, <2>2, <3>1, <3>2, Zenon DEF StatusTypes, InitFilesFacts
  <2>4. OwnStores(begun', last')
    BY <1>1, <2>1 DEF InitFilesFacts
  <2>5. ASSUME ~spoilt'
        PROVE  StatusParts'
    <3>1. /\ spoilt' = spoilt /\ status_file'.exists
          /\ boot_stage' = IF FileLength = 0 THEN "format" ELSE "run"
          /\ boot_stage = "init" /\ status_file'.recs = status_file.recs
      BY <2>1, <2>5, Zenon DEF InitFilesFacts
    <3>2. StatusParts
      BY <1>1, <2>5, <3>1, Zenon
    <3>3. Formatted(status_file', boot_stage')
      BY <3>1, <3>2 DEF StatusParts, Formatted, FileLength
    <3> QED
      BY <2>1, <3>1, <3>2, <3>3, Zenon DEF StatusParts, RecordsOwned, StoreUnderWay, InitFilesFacts
  <2> QED
    BY <2>3, <2>4, <2>5, Zenon DEF StatusInv, StatusParts
<1>3. CASE Format
  <2>1. FormatFacts
    BY <1>1, <1>3, FormatDoes, Zenon
  <2>2. boot_stage' \in Stages
    BY <2>1 DEF FormatFacts, Stages
  <2>3. storing = Nobody
    BY <1>1, <2>1 DEF StatusTypes, FormatFacts
  <2>4. StatusTypes'
    BY <1>1, <2>1, <2>2, <2>3, Zenon DEF StatusTypes, FormatFacts
  <2>5. OwnStores(begun', last')
    BY <1>1, <2>1 DEF FormatFacts
  <2>6. ASSUME ~spoilt'
        PROVE  StatusParts'
    <3>1. StatusParts /\ last' = last
      BY <1>1, <2>1, <2>6, Zenon DEF FormatFacts
    <3>4. status_file.exists /\ FileLength \in Nat /\ MAX_FUNCTION \in Nat
      BY <1>1, <2>1, <3>1, FileTypes, ObjectNumbers DEF StatusParts, Formatted, FormatFacts
    <3>2. CASE boot_stage' = "run" /\ FileLength = MAX_FUNCTION /\ status_file' = status_file
      <4>1. Formatted(status_file', boot_stage')
        BY <3>2, <3>4, ObjectNumbers DEF Formatted, FileLength
      <4> QED
        BY <2>1, <3>1, <3>2, <4>1, Zenon DEF StatusParts, RecordsOwned, StoreUnderWay, FormatFacts
    <3>3. CASE /\ boot_stage' = "format" /\ FileLength < MAX_FUNCTION
               /\ Len(status_file'.recs) = FileLength + 1
               /\ status_file'.recs[FileLength + 1] = Both(Zero)
               /\ \A i \in 1 .. FileLength : status_file'.recs[i] = status_file.recs[i]
      <4>1. status_file'.exists = status_file.exists /\ status' = status /\ storing' = Nobody
            /\ begun' = begun
        BY <2>1, <2>3, Zenon DEF FormatFacts
      <4>2. Formatted(status_file', boot_stage')
        BY <3>3, <3>4, <4>1 DEF Formatted
      <4>3. ASSUME NEW o \in Objects, o < Len(status_file'.recs)
            PROVE  OwnRecord(status_file'.recs[o + 1], o, last'[o])
        <5>1. CASE o < FileLength
          <6>1. o + 1 \in 1 .. FileLength
            BY <3>4, <5>1, ObjectNumbers
          <6>2. OwnRecord(status_file.recs[o + 1], o, last[o])
            BY <3>1, <5>1, Zenon DEF StatusParts, RecordsOwned, FileLength
          <6> QED
            BY <3>1, <3>3, <6>1, <6>2, Zenon
        <5>2. CASE ~(o < FileLength)
          <6>1. o = FileLength
            BY <3>3, <3>4, <4>3, <5>2, ObjectNumbers
          <6>2. PICK z : z = Both(Zero)
            OBVIOUS
          <6>3. z[1] = Zero /\ z[2] = Zero
            BY <6>2, PairFacts
          <6>4. OwnRecord(z, o, last[o])
            BY <6>3, Zenon DEF OwnRecord, OwnOrZero
          <6> QED
            BY <3>1, <3>3, <6>1, <6>2, <6>4
        <5> QED
          BY <5>1, <5>2
      <4>4. StoreUnderWay(storing', status_file', status', begun')
        BY <4>1, Zenon DEF StoreUnderWay
      <4> QED
        BY <3>1, <4>1, <4>2, <4>3, <4>4, Zenon DEF StatusParts, RecordsOwned
    <3> QED
      BY <2>1, <3>2, <3>3, Zenon DEF FormatFacts
  <2> QED
    BY <2>4, <2>5, <2>6, Zenon DEF StatusInv, StatusParts
<1> QED
  BY <1>2, <1>3

\* A power failure leaves the file and what was stored; only a format that was
\* cut spoils it.
LEMMA PowerFailsStep ==
    ASSUME StatusInv, PowerFails
    PROVE  StatusInv'
<1>1. StatusTypes /\ OwnStores(begun, last) /\ (~spoilt => StatusParts)
  BY Zenon DEF StatusInv, StatusParts
<1>2. /\ boot_stage' = "init" /\ storing' = Nobody
      /\ status' = [o \in Objects |-> <<>>]
      /\ spoilt' = (spoilt \/ (boot_stage = "format" /\ FileLength \in 1 .. MAX_FUNCTION - 1))
      /\ status_file' = status_file /\ last' = last /\ begun' = begun
  BY Zenon DEF PowerFails
<1>3. failures' \in 0 .. MaxFailures
  <2>1. failures \in 0 .. MaxFailures
    BY <1>1, Zenon DEF StatusTypes
  <2> QED
    BY <2>1, StatusAssumption DEF PowerFails
<1>4. StatusTypes'
  <2>1. Nobody \in Storings /\ Nobody.parts = {}
    BY ObjectNumbers DEF Nobody, Storings
  <2>2. status' \in [Objects -> Records \union {<<>>}]
    BY <1>2
  <2>3. boot_stage' \in Stages /\ spoilt' \in BOOLEAN
    BY <1>1, <1>2 DEF Stages, StatusTypes
  <2> QED
    BY <1>1, <1>2, <1>3, <2>1, <2>2, <2>3, Zenon DEF StatusTypes
<1>5. OwnStores(begun', last')
  BY <1>1, <1>2
<1>6. ASSUME ~spoilt'
      PROVE  StatusParts'
  <2>1. StatusParts /\ ~(boot_stage = "format" /\ FileLength \in 1 .. MAX_FUNCTION - 1)
    BY <1>1, <1>2, <1>6, Zenon
  <2>2. FileLength \in Nat /\ MAX_FUNCTION \in Nat
    BY <1>1, FileTypes, ObjectNumbers
  <2>3. boot_stage \in {"init", "format", "run"}
    BY <1>1, Zenon DEF StatusTypes, Stages
  <2>4. Formatted(status_file', boot_stage')
    BY <1>2, <2>1, <2>2, <2>3 DEF StatusParts, Formatted, FileLength
  <2>5. RecordsOwned(status_file', last')
    BY <1>2, <2>1, Zenon DEF StatusParts
  <2>6. StatusOwned(status', last')
    BY <1>2 DEF StatusOwned
  <2>7. StoreUnderWay(storing', status_file', status', begun')
    BY <1>2, Zenon DEF StoreUnderWay
  <2> QED
    BY <2>4, <2>5, <2>6, <2>7, Zenon DEF StatusParts
<1> QED
  BY <1>4, <1>5, <1>6, Zenon DEF StatusInv, StatusParts

\* The invariant holds before the first start.
LEMMA StatusInvInit ==
    ASSUME StatusInit
    PROVE  StatusInv
<1>1. /\ status_file = [exists |-> FALSE, recs |-> <<>>]
      /\ boot_stage = "init" /\ status = [o \in Objects |-> <<>>] /\ storing = Nobody
      /\ last = [o \in Objects |-> Zero] /\ begun = last /\ spoilt = FALSE /\ failures = 0
  BY DEF StatusInit
<1>2. /\ status_file \in [exists : BOOLEAN, recs : Seq(Records)]
      /\ status_file.recs = <<>> /\ Len(status_file.recs) = 0
  BY <1>1
<1>3. \A o \in Objects : status[o] = <<>> /\ last[o] = Zero /\ begun[o] = Zero
  BY <1>1
<1>4. StatusTypes
  <2>1. Nobody \in Storings /\ Nobody.parts = {}
    BY ObjectNumbers DEF Nobody, Storings
  <2>2. status \in [Objects -> Records \union {<<>>}]
    BY <1>1
  <2>3. last \in [Objects -> Halves] /\ begun \in [Objects -> Halves]
    BY <1>1, HalfFacts
  <2>4. boot_stage \in Stages /\ failures \in 0 .. MaxFailures
    BY <1>1, StatusAssumption DEF Stages
  <2>5. spoilt \in BOOLEAN
    BY <1>1, Zenon
  <2> QED
    BY <1>1, <1>2, <2>1, <2>2, <2>3, <2>4, <2>5, Zenon DEF StatusTypes
<1>5. OwnStores(begun, last)
  <2>1. Zero[2] <= Zero[2]
    BY HalfFacts
  <2> QED
    BY <1>3, <2>1, Zenon DEF OwnStores, OwnOrZero
<1>6. Formatted(status_file, boot_stage)
  BY <1>1, <1>2, ObjectNumbers DEF Formatted
<1>7. RecordsOwned(status_file, last)
  BY <1>2, ObjectNumbers DEF RecordsOwned
<1>8. StatusOwned(status, last)
  BY <1>3, Zenon DEF StatusOwned
<1>9. StoreUnderWay(storing, status_file, status, begun)
  BY <1>1, Zenon DEF StoreUnderWay
<1> QED
  BY <1>4, <1>5, <1>6, <1>7, <1>8, <1>9, Zenon DEF StatusInv

\* Every step keeps it.
LEMMA StatusInvStep ==
    ASSUME StatusInv, [StatusNext]_statusVars
    PROVE  StatusInv'
<1>1. CASE InitFiles \/ Format
  BY <1>1, StartStep
<1>2. CASE PowerFails
  BY <1>2, PowerFailsStep
<1>3. ASSUME NEW o \in Objects, Construct(o)
      PROVE  StatusInv'
  <2>1. boot_stage = "run" /\ storing = Nobody /\ status[o] = <<>>
    BY <1>3, Zenon DEF Construct
  <2>2. CASE Store(o)
    BY <2>1, <2>2, StoreStep
  <2>3. CASE /\ IsFirst(ReadStatus(o)) /\ status' = [status EXCEPT ![o] = ReadStatus(o)]
             /\ UNCHANGED <<status_file, boot_stage, storing, last, begun, spoilt, failures>>
    BY <2>1, <2>3, ReadStep
  <2> QED
    BY <1>3, <2>2, <2>3, Zenon DEF Construct
<1>4. ASSUME NEW o \in Objects, Change(o)
      PROVE  StatusInv'
  <2>1. boot_stage = "run" /\ storing = Nobody /\ Store(o)
    BY <1>4, Zenon DEF Change
  <2> QED
    BY <2>1, StoreStep
<1>5. ASSUME NEW h \in {1, 2}, WriteHalf(h)
      PROVE  StatusInv'
  BY <1>5, WriteHalfStep
<1>6. CASE UNCHANGED statusVars
  <2>1. /\ status_file' = status_file /\ boot_stage' = boot_stage /\ status' = status
        /\ storing' = storing /\ last' = last /\ begun' = begun /\ spoilt' = spoilt
        /\ failures' = failures
    BY <1>6, Zenon DEF statusVars
  <2> QED
    BY <2>1, Zenon DEF StatusInv, StatusTypes, OwnStores, Formatted, RecordsOwned, StatusOwned,
       StoreUnderWay
<1> QED
  BY <1>1, <1>2, <1>3, <1>4, <1>5, <1>6, Zenon DEF StatusNext

-----------------------------------------------------------------------------
(* The theorems about the status file, and about both kinds of file.        *)

\* The invariant of the status file holds in every reachable state.
THEOREM StatusInvariant == StatusSpec => []StatusInv
<1>1. StatusInit => StatusInv
  BY StatusInvInit
<1>2. StatusInv /\ [StatusNext]_statusVars => StatusInv'
  BY StatusInvStep
<1> QED
  BY <1>1, <1>2, PTL DEF StatusSpec

\* What a function reads back is its own and no older than the status it
\* stored completely last, whatever power failures come, unless the file was
\* cut while it was formatted or could not be created.
THEOREM StatusComesBackHolds == StatusSpec => []StatusComesBack
<1>1. ASSUME StatusInv, NEW o \in Objects, status[o] # <<>>, ~spoilt, NEW h \in {1, 2}
      PROVE  status[o][h][1] = o /\ status[o][h][2] >= last[o][2]
  <2>1. OwnStores(begun, last) /\ OwnStatus(status[o], o, last[o])
    BY <1>1, Zenon DEF StatusInv, StatusOwned
  <2>2. status[o][h] \in OwnHalf(o) /\ last[o][2] <= status[o][h][2]
    BY <1>1, <2>1 DEF OwnStatus
  <2>3. status[o][h][1] = o /\ status[o][h][2] \in 1 .. MaxStores
    BY <2>2, HalfFacts
  <2>4. last[o][2] \in 0 .. MaxStores /\ MaxStores \in Nat
    BY <2>1, HalfFacts, StatusAssumption DEF OwnStores
  <2> QED
    BY <2>2, <2>3, <2>4
<1>2. StatusInv => StatusComesBack
  BY <1>1, Zenon DEF StatusComesBack
<1> QED
  BY <1>2, StatusInvariant, PTL

\* The status file keeps its types.
LEMMA StatusTypesKept ==
    ASSUME StatusInv
    PROVE  StatusTypeOK
<1>1. StatusTypes
  BY Zenon DEF StatusInv
<1>2. status_file.exists \in BOOLEAN /\ status_file.recs \in Seq(Halves \X Halves)
  BY <1>1, FileTypes, Zenon DEF Records
<1>3. storing.parts \subseteq {1, 2}
  BY <1>1 DEF StatusTypes
<1>4. {last, begun} \subseteq [Objects -> Halves]
  BY <1>1, Zenon DEF StatusTypes
<1> QED
  BY <1>1, <1>2, <1>3, <1>4, Zenon DEF StatusTypes, StatusTypeOK, Stages, Records

\* Both kinds of file, side by side, keep their types.
THEOREM StorageTypesKept == FilesSpec => []StorageTypes
<1>1. ConfigInv => TypeOK
  BY Zenon DEF ConfigInv, ConfigTypes
<1>2. StatusInv => StatusTypeOK
  BY StatusTypesKept
<1>3. TypeOK /\ StatusTypeOK => StorageTypes
  BY Zenon DEF StorageTypes
<1> QED
  BY <1>1, <1>2, <1>3, ConfigInvariant, StatusInvariant, PTL DEF FilesSpec
=============================================================================
