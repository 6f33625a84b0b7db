---------------------------- MODULE ConfigStore -----------------------------
(***************************************************************************)
(* The two configuration files on SPIFFS and everybody who writes them:    *)
(* default_start at boot, the "sen" command and the default reset on the   *)
(* event loop, and the web server, which works on copies it took when it   *)
(* was started and restarts the chip 500 ms after a save.                  *)
(*                                                                         *)
(* A configuration is a version (0: never written, 1: the defaults, above: *)
(* saved from the web page), kept once for the first part of the file,     *)
(* where home_default is, and once for the rest, because a write is not    *)
(* atomic; the rest also holds aktif_senaryo.  write_file opens with "r+", *)
(* so it writes nothing when the file does not exist.                      *)
(***************************************************************************)
EXTENDS Naturals, Sequences

CONSTANTS
    Scenarios,   \* values of aktif_senaryo a "sen" command carries
    MaxSaves,    \* bound: saves from the web page
    MaxCrashes   \* bound: power failures

ASSUME ConfigAssumption ==
    /\ Scenarios \subseteq Nat
    /\ MaxSaves \in Nat
    /\ MaxCrashes \in Nat

VARIABLES
    disk,           \* the two files
    GlobalConfig,
    NetworkConfig,
    web,            \* netconfig and globalconfig of http.c
    up,             \* how far default_start and app_main are
    todo,           \* for each task the parts it has still to write
    resetting,      \* the event loop is inside the default reset
    saving,         \* save_handler has called webwrite
    reset_posted,   \* SYSTEM_DEFAULT_RESET is in the event queue
    timer,          \* the 500 ms restart timer runs
    saves,          \* ghost: saves so far
    crashes,        \* ghost: power failures so far
    stale,          \* ghost: since boot: web saved, event loop wrote after it
    torn            \* ghost: parts of different writes may have met on disk

ramVars   == <<GlobalConfig, NetworkConfig, web>>
ghostVars == <<saves, crashes, stale, torn>>
vars == <<disk, GlobalConfig, NetworkConfig, web, up, todo, resetting, saving,
          reset_posted, timer, saves, crashes, stale, torn>>

Files    == {"network", "global"}
Tasks    == {"main", "loop", "httpd"}
Versions == 0 .. MaxSaves + 1
Config   == [head : Versions, body : Versions, senaryo : Scenarios \union {0}]
ZeroConfig == [head |-> 0, body |-> 0, senaryo |-> 0]

\* The defaults leave aktif_senaryo as it is.
Default(c)    == [c EXCEPT !.head = 1, !.body = 1]
Saved(c, v)   == [c EXCEPT !.head = v, !.body = v]

TypeOK ==
    /\ disk \in [Files -> [exists : BOOLEAN, conf : Config]]
    /\ up = "run" => \A f \in Files : disk[f].exists
    /\ GlobalConfig \in Config
    /\ NetworkConfig \in Config
    /\ web \in [network : Config, global : Config]
    /\ up \in {"global", "network", "web", "run"}
    /\ todo \in [Tasks -> Seq([file : Files, part : {"head", "body"},
                               conf : Config])]
    /\ {resetting, saving, reset_posted, timer, torn} \subseteq BOOLEAN
    /\ saves \in 0 .. MaxSaves
    /\ crashes \in 0 .. MaxCrashes
    /\ stale \in [web : BOOLEAN, loop : BOOLEAN]

Init ==
    /\ disk = [f \in Files |-> [exists |-> FALSE, conf |-> ZeroConfig]]
    /\ GlobalConfig = ZeroConfig
    /\ NetworkConfig = ZeroConfig
    /\ web = [network |-> ZeroConfig, global |-> ZeroConfig]
    /\ up = "global"
    /\ todo = [t \in Tasks |-> <<>>]
    /\ resetting = FALSE
    /\ saving = FALSE
    /\ reset_posted = FALSE
    /\ timer = FALSE
    /\ saves = 0
    /\ crashes = 0
    /\ stale = [web |-> FALSE, loop |-> FALSE]
    /\ torn = FALSE

-----------------------------------------------------------------------------
(* Storage.                                                                *)

WriteOf_HeadOnly(f, c) == << [file |-> f, part |-> "head", conf |-> c] >>
WriteOf(f, c) == << [file |-> f, part |-> "head", conf |-> c],
                    [file |-> f, part |-> "body", conf |-> c] >>

\* The parts are fixed when a task enters write_file: it writes either its own
\* arguments or a variable only its own task changes.
Schedule(t, ws) ==
    /\ todo[t] = <<>>
    /\ todo' = [todo EXCEPT ![t] = ws]

Put(c, w) == IF w.part = "head" THEN [c EXCEPT !.head = w.conf.head]
             ELSE [c EXCEPT !.body = w.conf.body, !.senaryo = w.conf.senaryo]
Written(file, w) == [exists |-> file.exists, conf |-> Put(file.conf, w)]
After(files, w) == [files EXCEPT ![w.file] = Written(@, w)]

\* Two tasks inside write_file for the same file at the same time.
Overlap == \E t, u \in Tasks : /\ t # u
                               /\ todo[t] # <<>> /\ todo[u] # <<>>

WritePart(t) ==
    /\ todo[t] # <<>>
    /\ todo' = [todo EXCEPT ![t] = Tail(@)]
    /\ LET w == Head(todo[t])
       IN  IF disk[w.file].exists
           THEN disk' = After(disk, w)
           ELSE UNCHANGED disk
    /\ torn' = (torn \/ Overlap)
    /\ UNCHANGED <<ramVars, up, resetting, saving, reset_posted, timer,
                   saves, crashes, stale>>

\* file_control: an empty file is created when there is none.
FileControl_Missing(f) == disk[f]
FileControl(f) == [disk[f] EXCEPT !.exists = TRUE]

-----------------------------------------------------------------------------
(* default_start and app_main.  The variables are zero after a restart, and *)
(* a part that was never written reads as zero; reading back what was just *)
(* written changes nothing, so neither FATAL_MSG can be reached.           *)

BootGlobal ==
    /\ up = "global"
    /\ up' = "network"
    /\ \/ /\ disk["global"].conf.head # 0
          /\ GlobalConfig' = disk["global"].conf
          /\ UNCHANGED <<disk, todo>>
       \/ /\ disk["global"].conf.head = 0
          /\ GlobalConfig' = Default(disk["global"].conf)
          /\ disk' = [disk EXCEPT !["global"] = FileControl("global")]
          /\ Schedule("main", WriteOf("global", GlobalConfig'))
    /\ UNCHANGED <<NetworkConfig, web, resetting, saving, reset_posted, timer,
                   ghostVars>>

\* Here the file is created after the write, so the first boot writes nothing.
BootNetwork ==
    /\ up = "network"
    /\ todo["main"] = <<>>
    /\ up' = "web"
    /\ \/ /\ disk["network"].conf.head # 0
          /\ NetworkConfig' = disk["network"].conf
          /\ UNCHANGED <<disk, todo>>
       \/ /\ disk["network"].conf.head = 0
          /\ NetworkConfig' = Default(disk["network"].conf)
          /\ disk' = [disk EXCEPT !["network"] = FileControl("network")]
          /\ IF disk["network"].exists
             THEN Schedule("main", WriteOf("network", NetworkConfig'))
             ELSE UNCHANGED todo
    /\ UNCHANGED <<GlobalConfig, web, resetting, saving, reset_posted, timer,
                   ghostVars>>

\* start_rest_server takes copies of both configurations.
BootWeb ==
    /\ up = "web"
    /\ todo["main"] = <<>>
    /\ up' = "run"
    /\ web' = [network |-> NetworkConfig, global |-> GlobalConfig]
    /\ UNCHANGED <<disk, GlobalConfig, NetworkConfig, todo, resetting, saving,
                   reset_posted, timer, ghostVars>>

-----------------------------------------------------------------------------
(* The event loop.                                                         *)

Sen_NotWritten(s) ==
    /\ up = "run" /\ ~resetting /\ todo["loop"] = <<>>
    /\ GlobalConfig' = [GlobalConfig EXCEPT !.senaryo = s]
    /\ UNCHANGED <<disk, NetworkConfig, web, up, todo, resetting, saving,
                   reset_posted, timer, ghostVars>>

\* command_transfer "sen": the number is published and the file written.
Sen(s) ==
    /\ up = "run" /\ ~resetting
    /\ GlobalConfig' = [GlobalConfig EXCEPT !.senaryo = s]
    /\ Schedule("loop", WriteOf("global", GlobalConfig'))
    /\ stale' = [stale EXCEPT !.loop = TRUE]
    /\ UNCHANGED <<disk, NetworkConfig, web, up, resetting, saving,
                   reset_posted, timer, saves, crashes, torn>>

ResetWrites_GlobalOnly == WriteOf("global", Default(GlobalConfig))
ResetWrites == WriteOf("network", Default(NetworkConfig))
                 \o WriteOf("global", Default(GlobalConfig))

\* system_handler, SYSTEM_DEFAULT_RESET: both defaults, then esp_restart.
DefaultReset ==
    /\ up = "run" /\ ~resetting
    /\ reset_posted
    /\ reset_posted' = FALSE
    /\ resetting' = TRUE
    /\ NetworkConfig' = Default(NetworkConfig)
    /\ GlobalConfig' = Default(GlobalConfig)
    /\ Schedule("loop", ResetWrites)
    /\ stale' = [stale EXCEPT !.loop = TRUE]
    /\ UNCHANGED <<disk, web, up, saving, timer, saves, crashes, torn>>

-----------------------------------------------------------------------------
(* The web server.                                                         *)

SaveWrites_NetworkOnly(w) == WriteOf("network", w.network)
SaveWrites(w) == WriteOf("network", w.network) \o WriteOf("global", w.global)

\* save_handler puts the form into its copies and calls webwrite.
Save ==
    /\ up = "run" /\ ~saving /\ GlobalConfig.body # 0
    /\ saves < MaxSaves
    /\ saves' = saves + 1
    /\ saving' = TRUE
    /\ web' = [network |-> Saved(web.network, saves + 2),
               global |-> Saved(web.global, saves + 2)]
    /\ Schedule("httpd", SaveWrites(web'))
    /\ stale' = [web |-> TRUE, loop |-> resetting \/ todo["loop"] # <<>>]
    /\ UNCHANGED <<disk, GlobalConfig, NetworkConfig, up, resetting,
                   reset_posted, timer, crashes, torn>>

SaveDone ==
    /\ saving
    /\ todo["httpd"] = <<>>
    /\ saving' = FALSE
    /\ timer' = TRUE
    /\ UNCHANGED <<disk, ramVars, up, todo, resetting, reset_posted, ghostVars>>

\* default_handler posts the event and starts the same timer.
DefaultHandler ==
    /\ up = "run" /\ ~saving /\ GlobalConfig.body # 0
    /\ reset_posted' = TRUE
    /\ timer' = TRUE
    /\ UNCHANGED <<disk, ramVars, up, todo, resetting, saving, ghostVars>>

-----------------------------------------------------------------------------
(* Restarts.                                                               *)

NobodyWrites == \A t \in Tasks : todo[t] = <<>>

Reboot ==
    /\ GlobalConfig' = ZeroConfig
    /\ NetworkConfig' = ZeroConfig
    /\ web' = [network |-> ZeroConfig, global |-> ZeroConfig]
    /\ up' = "global"
    /\ todo' = [t \in Tasks |-> <<>>]
    /\ resetting' = FALSE
    /\ saving' = FALSE
    /\ reset_posted' = FALSE
    /\ timer' = FALSE
    /\ stale' = [web |-> FALSE, loop |-> FALSE]
    /\ torn' = (torn \/ ~NobodyWrites \/ (stale.web /\ stale.loop))
    /\ UNCHANGED <<disk, saves>>

RestartAfterReset ==
    resetting /\ todo["loop"] = <<>> /\ Reboot /\ UNCHANGED crashes

\* timerCallBack: whatever the other tasks are doing.
RestartByTimer == timer /\ Reboot /\ UNCHANGED crashes

PowerFailure ==
    /\ crashes < MaxCrashes
    /\ crashes' = crashes + 1
    /\ Reboot

-----------------------------------------------------------------------------
Boot == BootGlobal \/ BootNetwork \/ BootWeb

Next ==
    \/ Boot
    \/ \E t \in Tasks : WritePart(t)
    \/ \E s \in Scenarios : Sen(s)
    \/ DefaultReset \/ Save \/ SaveDone \/ DefaultHandler
    \/ RestartAfterReset \/ RestartByTimer \/ PowerFailure

Spec == Init /\ [][Next]_vars

-----------------------------------------------------------------------------
OnDisk(v)    == \A f \in Files : disk[f].conf.head = v /\ disk[f].conf.body = v

\* What the boot leaves in memory is one version throughout, both files and
\* both parts, unless a restart or another task came into the middle of a
\* write, or the event loop wrote its own, older configuration between a save
\* and the restart (main.cpp:128-146, 169-173; storage.cpp:202-223).
BootsOneVersion ==
    up = "web" /\ todo["main"] = <<>> =>
        \/ \E v \in Versions : \A c \in {NetworkConfig, GlobalConfig} :
              c.head = v /\ c.body = v
        \/ torn

\* The scenario in the file is the one in force, which was published, unless
\* the web page was saved since boot: it wrote the scenario of its own copy
\* back (events.c:296-311, http.c:706-713, 502).
ScenarioKept ==
    up = "run" /\ NobodyWrites =>
        disk["global"].conf.senaryo = GlobalConfig.senaryo \/ stale.web

\* When the timer restarts the chip after a save, both files hold that save,
\* unless the event loop wrote after the save began, or the timer of an
\* earlier request came into the middle of it (http.c:502-515, main.cpp:169).
SaveKept ==
    [][ timer /\ up' = "global" /\ crashes' = crashes /\ stale.web =>
            OnDisk(saves + 1) \/ stale.loop \/ ~NobodyWrites ]_vars

\* A default reset that ran to its restart left the defaults in both files,
\* unless the web page was saved as well (events.c:189-193).
ResetKept ==
    [][ resetting /\ todo["loop"] = <<>> /\ up' = "global" =>
            OnDisk(1) \/ stale.web ]_vars
=============================================================================
