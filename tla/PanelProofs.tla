----------------------------- MODULE PanelProofs ----------------------------
(* Proofs about the hardware of one panel: for every debounce time and length *)
(* of a press the code's types allow, every set of channels, keys, pins and   *)
(* lights, any number of tasks and of calls, every year the clock is set to.  *)
(* Each part has an inductive invariant of its own; the steps of one leave    *)
(* the others as they are, so PanelInv is inductive for all of them.          *)
EXTENDS MCPanel, TLAPS, WellFoundedInduction

-----------------------------------------------------------------------------
(* The button: one sample of its state machine at a time.                  *)

LEMMA Bounds ==
  /\ DEBOUNCE_TICKS \in 1 .. 7 /\ SHORT_TICKS \in Nat /\ LONG_TICKS \in Nat
  /\ TickBound \in Nat /\ RepeatBound \in Nat /\ MaxSwitches \in Nat
  /\ LONG_TICKS + 1 < TickBound /\ SHORT_TICKS <= LONG_TICKS /\ RepeatBound > 2
  /\ Registered \in Seq(Events) /\ Len(Registered) \in Nat
BY ButtonAssumption

\* The button's invariant holds at the start.
LEMMA InitButton == ButtonInit => ButtonInv /\ ToldInv
<1> SUFFICES ASSUME ButtonInit PROVE ButtonInv /\ ToldInv
  OBVIOUS
<1>1. ButtonTypeOK
  <2>1. stores \in 0 .. 2 * Len(Registered) /\ calls \in Seq([ev : Events, heard : BOOLEAN, usr : BOOLEAN])
    BY Bounds DEF ButtonInit
  <2>2. btn \in [state : {0, 1, 2, 3, 5}, ticks : 0 .. TickBound - 1,
                repeat : 0 .. RepeatBound - 1, event : Events \union {"NONE_PRESS"},
                debounce_cnt : 0 .. 7, button_level : {0, 1}]
    BY Bounds DEF ButtonInit
  <2>3. disable \in BOOLEAN /\ wrapped \in BOOLEAN /\ told \in {"up", "down", "unknown"}
    BY Zenon DEF ButtonInit
  <2>4. /\ level \in {0, 1} /\ stable \in 0 .. DEBOUNCE_TICKS /\ held \in 0 .. LongEnough
        /\ lasted \in 0 .. LongEnough /\ presses \in 0 .. RepeatBound
    BY Bounds DEF ButtonInit, LongEnough
  <2>. QED
    BY Zenon, <2>1, <2>2, <2>3, <2>4 DEF ButtonTypeOK
<1>2. DebounceInv /\ MachineInv /\ ToldInv
  BY DEF ButtonInit, DebounceInv, MachineInv, ToldInv
<1>3. EventsAreEarned
  BY DEF ButtonInit, EventsAreEarned
<1>. QED
  BY <1>1, <1>2, <1>3 DEF ButtonInv

Buttons == [state : {0, 1, 2, 3, 5}, ticks : 0 .. TickBound - 1,
            repeat : 0 .. RepeatBound - 1, event : Events \union {"NONE_PRESS"},
            debounce_cnt : 0 .. 7, button_level : {0, 1}]
Heard   == [ev : Events, heard : BOOLEAN, usr : BOOLEAN]

\* The button becomes b, and its callbacks are called for the events in E.
Fired(b, E) ==
    /\ btn' = b
    /\ calls' \in Seq(Heard)
    /\ \A i \in DOMAIN calls' : /\ calls'[i].ev \in E
                                /\ calls'[i].heard = (cb(calls'[i].ev) /\ ~disable)
                                /\ calls'[i].usr = usr_data
    /\ \A ev \in E : Hears(calls', ev) <=> cb(ev) /\ ~disable
    /\ \A ev : Hears(calls', ev) => ev \in E

\* A handler that fires a sequence of events fires the set of them, in the form
\* the proofs use.
LEMMA FiresEvents ==
  ASSUME NEW b, NEW evs \in Seq(Events), Fires(b, evs)
  PROVE  Fired(b, {evs[i] : i \in DOMAIN evs})
<1> DEFINE Called(i) == [ev |-> evs[i], heard |-> cb(evs[i]) /\ ~disable, usr |-> usr_data]
<1>1. DOMAIN evs = 1 .. Len(evs) /\ Len(evs) \in Nat /\ \A i \in DOMAIN evs : evs[i] \in Events
  OBVIOUS
<1>2. \A i \in DOMAIN evs : (cb(evs[i]) /\ ~disable) \in BOOLEAN /\ usr_data \in BOOLEAN
  BY DEF cb, usr_data
<1>3. btn' = b /\ calls' = [i \in DOMAIN evs |-> Called(i)]
  BY Zenon DEF Fires
<1>4. \A i \in DOMAIN evs : Called(i) \in Heard
  BY <1>1, <1>2 DEF Heard
<1>5. \A i \in DOMAIN evs : /\ Called(i).ev = evs[i]
                            /\ Called(i).heard = (cb(evs[i]) /\ ~disable)
                            /\ Called(i).usr = usr_data
  BY Zenon
<1> HIDE DEF Called
<1>6. calls' \in Seq(Heard) /\ DOMAIN calls' = DOMAIN evs
  BY <1>1, <1>3, <1>4
<1>7. \A i \in DOMAIN evs : /\ calls'[i].ev = evs[i]
                            /\ calls'[i].heard = (cb(evs[i]) /\ ~disable)
                            /\ calls'[i].usr = usr_data
  BY Zenon, <1>3, <1>5
<1> DEFINE E == {evs[i] : i \in DOMAIN evs}
<1>8. \A ev : Hears(calls', ev) <=> ev \in E /\ cb(ev) /\ ~disable
  <2>1. ASSUME NEW ev PROVE Hears(calls', ev) <=> \E i \in DOMAIN evs : evs[i] = ev /\ cb(ev) /\ ~disable
    BY Zenon, <1>6, <1>7 DEF Hears
  <2>. QED
    BY Zenon, <2>1
<1>9. \A i \in DOMAIN calls' : /\ calls'[i].ev \in E
                               /\ calls'[i].heard = (cb(calls'[i].ev) /\ ~disable)
                               /\ calls'[i].usr = usr_data
  BY Zenon, <1>6, <1>7
<1>. QED
  BY Zenon, <1>3, <1>6, <1>8, <1>9 DEF Fired

\* What button_handler does with a level and a number of ticks.
Row(b, E) ==
    \/ /\ b.state = 0 /\ b.button_level = 1 /\ E = {"PRESS_DOWN"}
       /\ btn'.state = 1 /\ btn'.ticks = 0 /\ btn'.repeat = 1
    \/ b.state = 0 /\ b.button_level = 0 /\ E = {} /\ btn'.state = 0
    \/ /\ b.state \in {1, 3} /\ b.button_level = 0 /\ E = {"PRESS_UP"}
       /\ b.state = 3 => b.ticks < SHORT_TICKS
       /\ btn'.state = 2 /\ btn'.ticks = 0 /\ btn'.repeat = b.repeat
    \/ /\ b.state = 1 /\ b.button_level = 1 /\ b.ticks > LONG_TICKS
       /\ E = {"LONG_PRESS_START"} /\ btn'.state = 5
    \/ /\ b.state = 1 /\ b.button_level = 1 /\ b.ticks <= LONG_TICKS
       /\ E = {} /\ btn' = b
    \/ /\ b.state = 2 /\ b.button_level = 1 /\ E = {"PRESS_DOWN", "PRESS_REPEAT"}
       /\ btn'.state = 3 /\ btn'.ticks = 0 /\ btn'.repeat = (b.repeat + 1) % RepeatBound
    \/ /\ b.state = 2 /\ b.button_level = 0 /\ b.ticks > SHORT_TICKS /\ btn'.state = 0
       /\ \/ b.repeat = 1 /\ E = {"SINGLE_CLICK"}
          \/ b.repeat = 2 /\ E = {"DOUBLE_CLICK"}
          \/ b.repeat \notin {1, 2} /\ E = {}
    \/ /\ b.state = 2 /\ b.button_level = 0 /\ b.ticks <= SHORT_TICKS
       /\ E = {} /\ btn' = b
    \/ b.state = 3 /\ b.button_level = 1 /\ E = {} /\ btn' = b
    \/ b.state \in {3, 5} /\ b.button_level = 0 /\ E = {"PRESS_UP"} /\ btn'.state = 0
    \/ b.state = 5 /\ b.button_level = 1 /\ E = {"LONG_PRESS_HOLD"} /\ btn'.state = 5

Handled(b, E) ==
    /\ Fired(btn', E) /\ Row(b, E) /\ E \subseteq Events /\ btn' \in Buttons
    /\ btn'.button_level = b.button_level /\ btn'.debounce_cnt = b.debounce_cnt

\* Firing one event, as a set.
LEMMA FiredOne ==
  ASSUME NEW b, NEW e \in Events, Fires(b, <<e>>)
  PROVE  Fired(b, {e})
<1>1. <<e>> \in Seq(Events) /\ {<<e>>[i] : i \in DOMAIN <<e>>} = {e}
  OBVIOUS
<1>. QED
  BY <1>1, FiresEvents

\* Firing nothing, as a set.
LEMMA FiredNone ==
  ASSUME NEW b, Fires(b, <<>>)
  PROVE  Fired(b, {})
<1>1. <<>> \in Seq(Events) /\ {<<>>[i] : i \in DOMAIN <<>>} = {}
  OBVIOUS
<1>. QED
  BY <1>1, FiresEvents

\* Firing two events, as a set.
LEMMA FiredTwo ==
  ASSUME NEW b, NEW e \in Events, NEW f \in Events, Fires(b, <<e, f>>)
  PROVE  Fired(b, {e, f})
<1>1. <<e, f>> \in Seq(Events) /\ {<<e, f>>[i] : i \in DOMAIN <<e, f>>} = {e, f}
  OBVIOUS
<1>. QED
  BY <1>1, FiresEvents

\* A pass that fires its events and fits a row of the state table is a handled
\* pass.
LEMMA Settles ==
  ASSUME NEW b, NEW n \in Buttons, NEW E \in SUBSET Events, Fired(n, E), btn' = n => Row(b, E),
         n.button_level = b.button_level, n.debounce_cnt = b.debounce_cnt
  PROVE  \E F : Handled(b, F)
<1>1. btn' = n
  BY Zenon DEF Fired
<1>2. Handled(b, E)
  BY Zenon, <1>1 DEF Handled
<1>. QED
  BY Zenon, <1>2

\* The values a press gives to the button.
LEMMA DownFields ==
  ASSUME NEW b \in Buttons, NEW s \in {1, 3}, NEW n \in 0 .. RepeatBound - 1
  PROVE  /\ Down(b, s, n) \in Buttons
         /\ Down(b, s, n).state = s /\ Down(b, s, n).ticks = 0 /\ Down(b, s, n).repeat = n
         /\ Down(b, s, n).button_level = b.button_level
         /\ Down(b, s, n).debounce_cnt = b.debounce_cnt
<1>1. "PRESS_DOWN" \in Events \union {"NONE_PRESS"} /\ 0 \in 0 .. TickBound - 1
  BY Bounds DEF Events
<1>. QED
  BY <1>1 DEF Down, Buttons

\* And a change of state, with an event or without, with the ticks reset or not.
LEMMA TurnFields ==
  ASSUME NEW b \in Buttons, NEW s \in {0, 1, 2, 3, 5}, NEW e \in Events
  PROVE  /\ \A n \in { [b EXCEPT !.event = e, !.ticks = 0, !.state = s],
                       [b EXCEPT !.event = e, !.state = s],
                       [b EXCEPT !.state = s] } :
              /\ n \in Buttons /\ n.state = s /\ n.repeat = b.repeat
              /\ n.button_level = b.button_level /\ n.debounce_cnt = b.debounce_cnt
         /\ [b EXCEPT !.event = e, !.ticks = 0, !.state = s].ticks = 0
         /\ [b EXCEPT !.event = e] \in Buttons
         /\ [b EXCEPT !.event = e].state = b.state
         /\ [b EXCEPT !.event = e].button_level = b.button_level
         /\ [b EXCEPT !.event = e].debounce_cnt = b.debounce_cnt
<1>1. 0 \in 0 .. TickBound - 1
  BY Bounds
<1>. QED
  BY <1>1 DEF Buttons

\* A pass in the resting state is a row of the table.
LEMMA RestingRow ==
  ASSUME NEW b \in Buttons, Resting(b)
  PROVE  \E E : Handled(b, E)
<1>1. CASE b.button_level = 1
  <2> DEFINE n == Down(b, 1, 1)
  <2>1. Fires(n, <<"PRESS_DOWN">>) /\ b.state = 0
    BY Zenon, <1>1 DEF Resting
  <2>2. /\ n \in Buttons /\ n.state = 1 /\ n.ticks = 0 /\ n.repeat = 1
        /\ n.button_level = b.button_level /\ n.debounce_cnt = b.debounce_cnt
    BY Bounds, DownFields
  <2> HIDE DEF n
  <2>3. Fired(n, {"PRESS_DOWN"})
    BY Zenon, <2>1, FiredOne DEF Events
  <2>. QED
    BY Zenon, <1>1, <2>1, <2>2, <2>3, Settles DEF Row, Events
<1>2. CASE b.button_level # 1
  <2> DEFINE n == [b EXCEPT !.event = "NONE_PRESS"]
  <2>1. Fires(n, <<>>) /\ b.state = 0
    BY Zenon, <1>2 DEF Resting
  <2>2. n \in Buttons /\ n.state = b.state /\ n.button_level = b.button_level /\ n.debounce_cnt = b.debounce_cnt
        /\ b.button_level = 0
    BY <1>2 DEF Buttons
  <2> HIDE DEF n
  <2>. QED
    BY Zenon, <2>1, <2>2, FiredNone, Settles DEF Row
<1>. QED
  BY <1>1, <1>2

\* A pass in the pressed state is a row of the table.
LEMMA PressedRow ==
  ASSUME NEW b \in Buttons, Pressed(b)
  PROVE  \E E : Handled(b, E)
<1>1. b.state = 1 /\ b.button_level \in {0, 1} /\ b.ticks \in Nat
  BY DEF Pressed, Buttons
<1>2. CASE b.button_level = 0
  <2> DEFINE n == [b EXCEPT !.event = "PRESS_UP", !.ticks = 0, !.state = 2]
  <2>1. Fires(n, <<"PRESS_UP">>)
    BY <1>1, <1>2 DEF Pressed
  <2>2. /\ n \in Buttons /\ n.state = 2 /\ n.ticks = 0 /\ n.repeat = b.repeat
        /\ n.button_level = b.button_level /\ n.debounce_cnt = b.debounce_cnt
    BY TurnFields DEF Events
  <2> HIDE DEF n
  <2>3. b.state # 3
    BY <1>1
  <2>. QED
    BY Zenon, <1>1, <1>2, <2>1, <2>2, <2>3, FiredOne, Settles DEF Row, Events
<1>3. CASE b.button_level = 1 /\ b.ticks > LONG_TICKS
  <2> DEFINE n == [b EXCEPT !.event = "LONG_PRESS_START", !.state = 5]
  <2>1. Fires(n, <<"LONG_PRESS_START">>)
    BY <1>3 DEF Pressed
  <2>2. /\ n \in Buttons /\ n.state = 5 /\ n.button_level = b.button_level
        /\ n.debounce_cnt = b.debounce_cnt
    BY TurnFields DEF Events
  <2> HIDE DEF n
  <2>. QED
    BY Zenon, <1>1, <1>3, <2>1, <2>2, FiredOne, Settles DEF Row, Events
<1>4. CASE b.button_level = 1 /\ ~ (b.ticks > LONG_TICKS)
  <2>1. Fires(b, <<>>)
    BY <1>4 DEF Pressed
  <2>2. b.ticks <= LONG_TICKS
    BY <1>1, <1>4, Bounds
  <2>. QED
    BY Zenon, <1>1, <1>4, <2>1, <2>2, FiredNone, Settles DEF Row
<1>. QED
  BY <1>1, <1>2, <1>3, <1>4

\* A pass in the released state is a row of the table.
LEMMA ReleasedRow ==
  ASSUME NEW b \in Buttons, Released(b)
  PROVE  \E E : Handled(b, E)
<1>1. b.state = 2 /\ b.button_level \in {0, 1} /\ b.ticks \in Nat /\ b.repeat \in Nat
  BY DEF Released, Buttons
<1>2. CASE b.button_level = 1
  <2> DEFINE k == (b.repeat + 1) % RepeatBound
             n == Down(b, 3, k)
  <2>1. Fires(n, <<"PRESS_DOWN", "PRESS_REPEAT">>)
    BY <1>1, <1>2 DEF Released
  <2>2. k \in 0 .. RepeatBound - 1
    BY <1>1, Bounds
  <2>3. /\ n \in Buttons /\ n.state = 3 /\ n.ticks = 0 /\ n.repeat = k
        /\ n.button_level = b.button_level /\ n.debounce_cnt = b.debounce_cnt
    BY <2>2, DownFields
  <2> HIDE DEF n
  <2>4. Fired(n, {"PRESS_DOWN", "PRESS_REPEAT"})
    BY Zenon, <2>1, FiredTwo DEF Events
  <2>. QED
    BY Zenon, <1>1, <1>2, <2>3, <2>4, Settles DEF Row, Events
<1>3. CASE b.button_level = 0 /\ b.ticks > SHORT_TICKS /\ b.repeat \notin {1, 2}
  <2> DEFINE n == [b EXCEPT !.state = 0]
  <2>1. Fires(n, <<>>)
    BY <1>1, <1>3 DEF Released, Click
  <2>2. /\ n \in Buttons /\ n.state = 0 /\ n.button_level = b.button_level
        /\ n.debounce_cnt = b.debounce_cnt
    BY TurnFields DEF Events
  <2> HIDE DEF n
  <2>. QED
    BY Zenon, <1>1, <1>3, <2>1, <2>2, FiredNone, Settles DEF Row
<1>4. CASE b.button_level = 0 /\ b.ticks > SHORT_TICKS /\ b.repeat \in {1, 2}
  <2>1. PICK e \in {"SINGLE_CLICK", "DOUBLE_CLICK"} :
            /\ e = Click(b.repeat)
            /\ \/ b.repeat = 1 /\ e = "SINGLE_CLICK"
               \/ b.repeat = 2 /\ e = "DOUBLE_CLICK"
    BY <1>4 DEF Click
  <2> DEFINE n == [b EXCEPT !.event = e, !.state = 0]
  <2>2. Fires(n, <<e>>)
    BY <1>1, <1>4, <2>1 DEF Released
  <2>3. e \in Events
    BY <2>1 DEF Events
  <2>4. /\ n \in Buttons /\ n.state = 0 /\ n.button_level = b.button_level
        /\ n.debounce_cnt = b.debounce_cnt
    BY ZenonT(30), <2>3, TurnFields
  <2> HIDE DEF n
  <2>5. Fired(n, {e}) /\ {e} \subseteq Events
    BY <2>2, <2>3, FiredOne
  <2>6. btn' = n => Row(b, {e})
    BY Zenon, <1>1, <1>4, <2>1, <2>4 DEF Row
  <2>. QED
    BY Zenon, <2>4, <2>5, <2>6, Settles
<1>5. CASE b.button_level = 0 /\ ~ (b.ticks > SHORT_TICKS)
  <2>1. Fires(b, <<>>)
    BY <1>5 DEF Released
  <2>2. b.ticks <= SHORT_TICKS
    BY <1>1, <1>5, Bounds
  <2>. QED
    BY Zenon, <1>1, <1>5, <2>1, <2>2, FiredNone, Settles DEF Row
<1>. QED
  BY <1>1, <1>2, <1>3, <1>4, <1>5

\* A pass in the state after a repeated press is a row of the table.
LEMMA AgainRow ==
  ASSUME NEW b \in Buttons, PressedAgain(b)
  PROVE  \E E : Handled(b, E)
<1>1. b.state = 3 /\ b.button_level \in {0, 1}
  BY DEF PressedAgain, Buttons
<1>2. CASE b.button_level = 1
  <2>1. Fires(b, <<>>)
    BY Zenon, <1>2 DEF PressedAgain
  <2>. QED
    BY Zenon, <1>1, <1>2, <2>1, FiredNone, Settles DEF Row
<1>3. CASE b.button_level = 0 /\ b.ticks < SHORT_TICKS
  <2> DEFINE n == [b EXCEPT !.event = "PRESS_UP", !.ticks = 0, !.state = 2]
  <2>1. Fires(n, <<"PRESS_UP">>)
    BY <1>3 DEF PressedAgain
  <2>2. /\ n \in Buttons /\ n.state = 2 /\ n.ticks = 0 /\ n.repeat = b.repeat
        /\ n.button_level = b.button_level /\ n.debounce_cnt = b.debounce_cnt
    BY TurnFields DEF Events
  <2> HIDE DEF n
  <2>. QED
    BY Zenon, <1>1, <1>3, <2>1, <2>2, FiredOne, Settles DEF Row, Events
<1>4. CASE b.button_level = 0 /\ ~ (b.ticks < SHORT_TICKS)
  <2> DEFINE n == [b EXCEPT !.event = "PRESS_UP", !.state = 0]
  <2>1. Fires(n, <<"PRESS_UP">>)
    BY <1>4 DEF PressedAgain
  <2>2. /\ n \in Buttons /\ n.state = 0 /\ n.button_level = b.button_level
        /\ n.debounce_cnt = b.debounce_cnt
    BY TurnFields DEF Events
  <2> HIDE DEF n
  <2>. QED
    BY Zenon, <1>1, <1>4, <2>1, <2>2, FiredOne, Settles DEF Row, Events
<1>. QED
  BY <1>1, <1>2, <1>3, <1>4

\* A pass in the long-press state is a row of the table.
LEMMA HeldRow ==
  ASSUME NEW b \in Buttons, HeldLong(b)
  PROVE  \E E : Handled(b, E)
<1>1. b.state = 5 /\ b.button_level \in {0, 1}
  BY DEF HeldLong, Buttons
<1>2. CASE b.button_level = 1
  <2> DEFINE n == [b EXCEPT !.event = "LONG_PRESS_HOLD"]
  <2>1. Fires(n, <<"LONG_PRESS_HOLD">>)
    BY Zenon, <1>2 DEF HeldLong
  <2>2. /\ n \in Buttons /\ n.state = b.state /\ n.button_level = b.button_level
        /\ n.debounce_cnt = b.debounce_cnt
    BY TurnFields DEF Events
  <2> HIDE DEF n
  <2>. QED
    BY Zenon, <1>1, <1>2, <2>1, <2>2, FiredOne, Settles DEF Row, Events
<1>3. CASE b.button_level = 0
  <2> DEFINE n == [b EXCEPT !.event = "PRESS_UP", !.state = 0]
  <2>1. Fires(n, <<"PRESS_UP">>)
    BY <1>3 DEF HeldLong
  <2>2. /\ n \in Buttons /\ n.state = 0 /\ n.button_level = b.button_level
        /\ n.debounce_cnt = b.debounce_cnt
    BY TurnFields DEF Events
  <2> HIDE DEF n
  <2>. QED
    BY Zenon, <1>1, <1>3, <2>1, <2>2, FiredOne, Settles DEF Row, Events
<1>. QED
  BY <1>1, <1>2, <1>3

\* Writing the debounce counter leaves the rest of the button alone.
LEMMA CountFields ==
  ASSUME NEW b \in Buttons, NEW k \in 0 .. 7, NEW n, n = [b EXCEPT !.debounce_cnt = k]
  PROVE  /\ n \in Buttons /\ n.state = b.state /\ n.repeat = b.repeat /\ n.ticks = b.ticks
         /\ n.debounce_cnt = k /\ n.button_level = b.button_level
<1>1. [b EXCEPT !.debounce_cnt = k] \in Buttons
  BY DEF Buttons
<1>2. DOMAIN b = {"state", "ticks", "repeat", "event", "debounce_cnt", "button_level"}
  BY DEF Buttons
<1>. QED
  BY <1>1, <1>2

\* Accepting a new level clears the counter and leaves the state machine alone.
LEMMA TurnedFields ==
  ASSUME NEW b \in Buttons, NEW l \in {0, 1}, NEW n,
         n = [b EXCEPT !.button_level = l, !.debounce_cnt = 0]
  PROVE  /\ n \in Buttons /\ n.state = b.state /\ n.repeat = b.repeat /\ n.ticks = b.ticks
         /\ n.debounce_cnt = 0 /\ n.button_level = l
<1>0. 0 \in 0 .. 7
  OBVIOUS
<1>1. [b EXCEPT !.button_level = l, !.debounce_cnt = 0] \in Buttons
  BY <1>0 DEF Buttons
<1>2. DOMAIN b = {"state", "ticks", "repeat", "event", "debounce_cnt", "button_level"}
  BY DEF Buttons
<1>. QED
  BY <1>1, <1>2

\* The ranges of a button's numeric fields.
LEMMA ButtonNumbers ==
  ASSUME NEW b \in Buttons
  PROVE  /\ b.state \in {0, 1, 2, 3, 5} /\ b.ticks \in 0 .. TickBound - 1
         /\ b.repeat \in 0 .. RepeatBound - 1 /\ b.debounce_cnt \in 0 .. 7
         /\ b.button_level \in {0, 1}
BY DEF Buttons

\* What the machine is given in a sample.
LEMMA LevelSeen ==
  ASSUME ButtonTypeOK, DebounceInv, NEW r \in {0, 1}, NEW b, b = Debounced(Counted(btn), r),
         NEW s, s = (IF r # level THEN 1 ELSE UpTo(DEBOUNCE_TICKS, stable + 1))
  PROVE  /\ b \in Buttons /\ b.state = btn.state /\ b.repeat = btn.repeat
         /\ b.ticks = IF btn.state > 0 THEN (btn.ticks + 1) % TickBound ELSE btn.ticks
         /\ b.button_level # btn.button_level => s = DEBOUNCE_TICKS
         /\ s \in 0 .. DEBOUNCE_TICKS
         /\ IF r = b.button_level THEN b.debounce_cnt = 0
            ELSE b.debounce_cnt = s /\ s < DEBOUNCE_TICKS
<1> DEFINE c == Counted(btn)
           n == (c.debounce_cnt + 1) % 8
<1>1. btn \in Buttons /\ level \in {0, 1} /\ stable \in 0 .. DEBOUNCE_TICKS
  BY DEF ButtonTypeOK, Buttons
<1>2. /\ c \in Buttons /\ c.state = btn.state /\ c.repeat = btn.repeat
      /\ c.debounce_cnt = btn.debounce_cnt /\ c.button_level = btn.button_level
      /\ c.ticks = IF btn.state > 0 THEN (btn.ticks + 1) % TickBound ELSE btn.ticks
  <2>1. (btn.ticks + 1) % TickBound \in 0 .. TickBound - 1
    BY <1>1, Bounds DEF Buttons
  <2>. QED
    BY <1>1, <2>1 DEF Counted, Buttons
<1> HIDE DEF c
<1>3. c.debounce_cnt \in 0 .. 7 /\ c.button_level \in {0, 1}
  BY <1>2, ButtonNumbers
<1>4. n = (c.debounce_cnt + 1) % 8 /\ n \in 0 .. 7
  BY <1>3
<1> HIDE DEF n
<1>5. /\ r # level => n = 1 \/ r = c.button_level
      /\ r = level /\ r # c.button_level => n = stable + 1
  <2>1. r # level /\ r # c.button_level => c.debounce_cnt = 0
    BY <1>1, <1>2, <1>3 DEF DebounceInv
  <2>2. r = level /\ r # c.button_level => c.debounce_cnt = stable /\ stable < 7
    BY <1>1, <1>2, Bounds DEF DebounceInv
  <2>3. 1 % 8 = 1 /\ \A k \in 0 .. 6 : (k + 1) % 8 = k + 1
    OBVIOUS
  <2>4. CASE r # level
    <3>1. r # c.button_level => n = 1
      BY <1>4, <2>1, <2>3, <2>4
    <3>. QED
      BY <2>4, <3>1
  <2>5. CASE r = level
    <3>1. r # c.button_level => stable \in 0 .. 6 /\ n = (stable + 1) % 8
      BY <1>1, <1>4, <2>2, <2>5, Bounds
    <3>. QED
      BY <2>3, <2>5, <3>1
  <2>. QED
    BY <2>4, <2>5
<1>6. s \in 1 .. DEBOUNCE_TICKS /\ DEBOUNCE_TICKS \in 1 .. 7
      /\ (r # c.button_level => s = IF n >= DEBOUNCE_TICKS THEN DEBOUNCE_TICKS ELSE n)
  BY <1>1, <1>4, <1>5, Bounds DEF UpTo
<1>7. CASE r = c.button_level
  <2>1. b = [c EXCEPT !.debounce_cnt = 0]
    BY <1>7 DEF Debounced, c
  <2>2. /\ b \in Buttons /\ b.state = c.state /\ b.repeat = c.repeat /\ b.ticks = c.ticks
        /\ b.debounce_cnt = 0 /\ b.button_level = c.button_level
    <3>1. 0 \in 0 .. 7
      OBVIOUS
    <3>. QED
      BY <1>2, <2>1, <3>1, CountFields
  <2>. QED
    BY <1>2, <1>6, <1>7, <2>2
<1>8. CASE r # c.button_level /\ n >= DEBOUNCE_TICKS
  <2>1. b = [c EXCEPT !.button_level = r, !.debounce_cnt = 0]
    BY <1>8 DEF Debounced, c, n
  <2>2. /\ b \in Buttons /\ b.state = c.state /\ b.repeat = c.repeat /\ b.ticks = c.ticks
        /\ b.debounce_cnt = 0 /\ b.button_level = r
    BY Zenon, <1>2, <2>1, TurnedFields
  <2>. QED
    BY <1>2, <1>6, <1>8, <2>2
<1>9. CASE r # c.button_level /\ ~ (n >= DEBOUNCE_TICKS)
  <2>1. b = [c EXCEPT !.debounce_cnt = n]
    BY <1>9 DEF Debounced, c, n
  <2>2. /\ b \in Buttons /\ b.state = c.state /\ b.repeat = c.repeat /\ b.ticks = c.ticks
        /\ b.debounce_cnt = n /\ b.button_level = c.button_level
    BY <1>2, <1>4, <2>1, CountFields
  <2>. QED
    BY <1>2, <1>4, <1>6, <1>9, <2>2
<1>. QED
  BY <1>7, <1>8, <1>9

\* A sample, in terms of the level b that is seen and the events E that are called.
Sampled(b, E) ==
    /\ b \in Buttons /\ E \in SUBSET Events /\ Handled(b, E)
    /\ b.state = btn.state /\ b.repeat = btn.repeat
    /\ b.ticks = IF btn.state > 0 THEN (btn.ticks + 1) % TickBound ELSE btn.ticks
    /\ b.button_level # btn.button_level => stable' = DEBOUNCE_TICKS
    /\ level' \in {0, 1} /\ stable' \in 0 .. DEBOUNCE_TICKS
    /\ DebounceInv'
    /\ held' = IF b.button_level # btn.button_level THEN 0 ELSE UpTo(LongEnough, held + 1)
    /\ lasted' = IF b.button_level # btn.button_level /\ b.button_level = 0
                 THEN UpTo(LongEnough, held + 1) ELSE lasted
    /\ presses' = IF b.button_level # btn.button_level /\ b.button_level = 1
                  THEN IF btn.state = 0 THEN 1 ELSE UpTo(RepeatBound, presses + 1)
                  ELSE presses
    /\ wrapped' = (btn.state # 0 /\ (wrapped \/ btn.ticks + 1 = TickBound))
    /\ Hears(calls', "PRESS_DOWN") /\ ~Hears(calls', "PRESS_UP") => told' = "down"
    /\ Hears(calls', "PRESS_UP") /\ ~Hears(calls', "PRESS_DOWN") => told' = "up"
    /\ ~Hears(calls', "PRESS_DOWN") /\ ~Hears(calls', "PRESS_UP") => told' = told
    /\ told' \in {"up", "down", told}
    /\ UNCHANGED <<disable, stores, switched>>

\* Every sample of the button is a debounce step followed by a handled pass.
LEMMA SampleFields ==
  ASSUME ButtonInv, ButtonSample
  PROVE  \E b, E : Sampled(b, E)
<1>1. ButtonTypeOK /\ DebounceInv
  BY DEF ButtonInv
<1>2. PICK r \in {0, 1} :
        LET b == Debounced(Counted(btn), r)
            turned == b.button_level # btn.button_level
        IN  /\ Resting(b) \/ Pressed(b) \/ Released(b) \/ PressedAgain(b) \/ HeldLong(b)
            /\ level' = r
            /\ stable' = IF r # level THEN 1 ELSE UpTo(DEBOUNCE_TICKS, stable + 1)
            /\ held' = IF turned THEN 0 ELSE UpTo(LongEnough, held + 1)
            /\ lasted' = IF turned /\ b.button_level = 0 THEN UpTo(LongEnough, held + 1) ELSE lasted
            /\ presses' = CASE turned /\ b.button_level = 1 /\ btn.state = 0 -> 1
                             [] turned /\ b.button_level = 1 /\ btn.state # 0 ->
                                  UpTo(RepeatBound, presses + 1)
                             [] OTHER -> presses
            /\ wrapped' = (btn.state # 0 /\ (wrapped \/ btn.ticks + 1 = TickBound))
            /\ told' = CASE Hears(calls', "PRESS_DOWN") -> "down"
                          [] Hears(calls', "PRESS_UP") -> "up"
                          [] OTHER -> told
  BY Zenon DEF ButtonSample
<1> DEFINE b == Debounced(Counted(btn), r)
<1>3. UNCHANGED <<disable, stores, switched>>
  BY Zenon DEF ButtonSample
<1>4. /\ b \in Buttons /\ b.state = btn.state /\ b.repeat = btn.repeat
      /\ b.ticks = IF btn.state > 0 THEN (btn.ticks + 1) % TickBound ELSE btn.ticks
      /\ b.button_level # btn.button_level => stable' = DEBOUNCE_TICKS
      /\ stable' \in 0 .. DEBOUNCE_TICKS
      /\ IF r = b.button_level THEN b.debounce_cnt = 0
         ELSE b.debounce_cnt = stable' /\ stable' < DEBOUNCE_TICKS
  BY <1>1, <1>2, LevelSeen
<1> HIDE DEF b
<1>5. PICK E : Handled(b, E)
  BY Zenon, <1>2, <1>4, RestingRow, PressedRow, ReleasedRow, AgainRow, HeldRow DEF b
<1>6. E \in SUBSET Events /\ btn'.button_level = b.button_level /\ btn'.debounce_cnt = b.debounce_cnt
  BY Zenon, <1>5 DEF Handled
<1>7. level' = r /\ level' \in {0, 1} /\ DebounceInv'
  BY <1>2, <1>4, <1>6 DEF DebounceInv
<1>8. presses' = IF b.button_level # btn.button_level /\ b.button_level = 1
                 THEN IF btn.state = 0 THEN 1 ELSE UpTo(RepeatBound, presses + 1)
                 ELSE presses
  BY <1>2 DEF b
<1>9. /\ held' = IF b.button_level # btn.button_level THEN 0 ELSE UpTo(LongEnough, held + 1)
      /\ lasted' = IF b.button_level # btn.button_level /\ b.button_level = 0
                   THEN UpTo(LongEnough, held + 1) ELSE lasted
  BY Zenon, <1>2 DEF b
<1>10. wrapped' = (btn.state # 0 /\ (wrapped \/ btn.ticks + 1 = TickBound))
  BY Zenon, <1>2
<1>11. told' = CASE Hears(calls', "PRESS_DOWN") -> "down"
                 [] Hears(calls', "PRESS_UP") -> "up"
                 [] OTHER -> told
  BY Zenon, <1>2
<1>12. /\ Hears(calls', "PRESS_DOWN") /\ ~Hears(calls', "PRESS_UP") => told' = "down"
       /\ Hears(calls', "PRESS_UP") /\ ~Hears(calls', "PRESS_DOWN") => told' = "up"
       /\ ~Hears(calls', "PRESS_DOWN") /\ ~Hears(calls', "PRESS_UP") => told' = told
       /\ told' \in {"up", "down", told}
  BY <1>11
<1>13. Sampled(b, E)
  BY Zenon, <1>3, <1>4, <1>5, <1>6, <1>7, <1>8, <1>9, <1>10, <1>12 DEF Sampled
<1>. QED
  BY Zenon, <1>13

\* What EventsAreEarned asks of an event that is called now.
Earned(ev) ==
    /\ ev \in {"PRESS_DOWN", "PRESS_UP"} => stable' = DEBOUNCE_TICKS
    /\ ev = "LONG_PRESS_START" => presses' = 1 /\ held' > LONG_TICKS
    /\ ev = "SINGLE_CLICK" => /\ presses' \in {1, RepeatBound} /\ held' >= SHORT_TICKS
                              /\ lasted' <= LONG_TICKS + 1 \/ presses' # 1
    /\ ev = "DOUBLE_CLICK" => /\ presses' \in {2, RepeatBound} /\ held' >= SHORT_TICKS
                              /\ lasted' < SHORT_TICKS \/ wrapped'

\* Calls made for earned events keep EventsAreEarned.
LEMMA EarnedCalls ==
  ASSUME ButtonTypeOK, NEW b, NEW E, Handled(b, E), UNCHANGED <<disable, stores>>,
         \A ev \in E : Earned(ev)
  PROVE  EventsAreEarned'
<1>1. ASSUME NEW ev, cb(ev), ~usr_data PROVE ev = Registered[1]
  <2>1. PICK i \in DOMAIN Registered : Registered[i] = ev /\ stores >= 2 * i - 1
    BY <1>1 DEF cb
  <2>2. stores \in Nat /\ ~ (stores >= 2) /\ i \in Nat \ {0}
    BY <1>1, Bounds DEF ButtonTypeOK, usr_data
  <2>3. i = 1
    BY <2>1, <2>2
  <2>. QED
    BY <2>1, <2>3
<1>2. ASSUME NEW i \in DOMAIN calls'
      PROVE  Earned(calls'[i].ev) /\ (calls'[i].heard /\ ~calls'[i].usr => calls'[i].ev = Registered[1])
  BY Zenon, <1>1 DEF Handled, Fired
<1>. QED
  BY Zenon, <1>2 DEF EventsAreEarned, Earned

\* A sample keeps the state machine's invariant, and the events it fires are
\* earned.
LEMMA MachineStep ==
  ASSUME ButtonInv, NEW b, NEW E, Sampled(b, E)
  PROVE  MachineInv' /\ \A ev \in E : Earned(ev)
<1>1. /\ DEBOUNCE_TICKS \in 1 .. 7 /\ SHORT_TICKS \in Nat /\ LONG_TICKS \in Nat
      /\ TickBound \in Nat /\ RepeatBound \in Nat
      /\ LONG_TICKS + 1 < TickBound /\ SHORT_TICKS <= LONG_TICKS /\ RepeatBound > 2
      /\ LongEnough = LONG_TICKS + 2
  BY Bounds DEF LongEnough
<1>2. /\ btn.state \in {0, 1, 2, 3, 5} /\ btn.ticks \in 0 .. TickBound - 1
      /\ btn.repeat \in 0 .. RepeatBound - 1 /\ btn.button_level \in {0, 1}
  BY ButtonNumbers DEF ButtonInv, ButtonTypeOK, Buttons
<1>3. /\ held \in 0 .. LongEnough /\ lasted \in 0 .. LongEnough /\ presses \in 0 .. RepeatBound
      /\ wrapped \in BOOLEAN
  BY DEF ButtonInv, ButtonTypeOK
<1>4. /\ b.state = btn.state /\ b.repeat = btn.repeat /\ b.button_level \in {0, 1}
      /\ b.ticks = IF btn.state > 0 THEN (btn.ticks + 1) % TickBound ELSE btn.ticks
      /\ b.button_level # btn.button_level => stable' = DEBOUNCE_TICKS
      /\ held' = IF b.button_level # btn.button_level THEN 0 ELSE UpTo(LongEnough, held + 1)
      /\ lasted' = IF b.button_level # btn.button_level /\ b.button_level = 0
                   THEN UpTo(LongEnough, held + 1) ELSE lasted
      /\ presses' = IF b.button_level # btn.button_level /\ b.button_level = 1
                    THEN IF btn.state = 0 THEN 1 ELSE UpTo(RepeatBound, presses + 1)
                    ELSE presses
  BY ButtonNumbers DEF Sampled
<1>5. wrapped' <=> btn.state # 0 /\ (wrapped \/ btn.ticks + 1 = TickBound)
  BY Zenon DEF Sampled
<1>6. btn'.button_level = b.button_level /\ Row(b, E)
  BY Zenon DEF Sampled, Handled
<1>7. (btn.ticks + 1) % TickBound = IF btn.ticks + 1 = TickBound THEN 0 ELSE btn.ticks + 1
  BY <1>1, <1>2
<1>8. MachineInv
  BY DEF ButtonInv
<1>9. CASE b.state = 0
  <2>1. \/ b.button_level = 1 /\ E = {"PRESS_DOWN"} /\ btn'.state = 1 /\ btn'.ticks = 0 /\ btn'.repeat = 1
        \/ b.button_level = 0 /\ E = {} /\ btn'.state = 0
    BY <1>6, <1>9 DEF Row
  <2>. QED
    BY <1>1, <1>2, <1>3, <1>4, <1>6, <1>8, <1>9, <2>1 DEF MachineInv, Earned, UpTo
<1>10. CASE b.state = 1
  <2>1. \/ /\ b.button_level = 0 /\ E = {"PRESS_UP"}
           /\ btn'.state = 2 /\ btn'.ticks = 0 /\ btn'.repeat = b.repeat
        \/ /\ b.button_level = 1 /\ b.ticks > LONG_TICKS /\ E = {"LONG_PRESS_START"} /\ btn'.state = 5
        \/ b.button_level = 1 /\ b.ticks <= LONG_TICKS /\ E = {} /\ btn' = b
    BY <1>6, <1>10 DEF Row
  <2>2. btn.ticks = held /\ held <= LONG_TICKS /\ presses = 1 /\ btn.button_level = 1
        /\ b.ticks = held + 1 /\ (presses = RepeatBound \/ (presses > 0 /\ btn.repeat = presses))
    BY <1>1, <1>2, <1>3, <1>4, <1>7, <1>8, <1>10 DEF MachineInv
  <2>. QED
    BY <1>1, <1>2, <1>3, <1>4, <1>6, <1>10, <2>1, <2>2 DEF MachineInv, Earned, UpTo
<1>11. CASE b.state = 2
  <2>1. \/ /\ b.button_level = 1 /\ E = {"PRESS_DOWN", "PRESS_REPEAT"}
           /\ btn'.state = 3 /\ btn'.ticks = 0 /\ btn'.repeat = (b.repeat + 1) % RepeatBound
        \/ /\ b.button_level = 0 /\ b.ticks > SHORT_TICKS /\ btn'.state = 0
           /\ \/ b.repeat = 1 /\ E = {"SINGLE_CLICK"}
              \/ b.repeat = 2 /\ E = {"DOUBLE_CLICK"}
              \/ E = {}
        \/ b.button_level = 0 /\ b.ticks <= SHORT_TICKS /\ E = {} /\ btn' = b
    BY <1>6, <1>11 DEF Row
  <2>2. /\ btn.ticks = held /\ held <= SHORT_TICKS /\ btn.button_level = 0 /\ b.ticks = held + 1
        /\ presses = RepeatBound \/ (presses > 0 /\ btn.repeat = presses)
        /\ IF presses = 1 THEN lasted <= LONG_TICKS + 1 ELSE lasted < SHORT_TICKS \/ wrapped
    BY <1>1, <1>2, <1>3, <1>4, <1>7, <1>8, <1>11 DEF MachineInv
  <2>3. wrapped' <=> wrapped
    BY <1>1, <1>2, <1>4, <1>5, <1>11, <2>2
  <2>. QED
    BY <1>1, <1>2, <1>3, <1>4, <1>6, <1>11, <2>1, <2>2, <2>3 DEF MachineInv, Earned, UpTo
<1>12. CASE b.state = 3
  <2>1. \/ b.button_level = 1 /\ E = {} /\ btn' = b
        \/ /\ b.button_level = 0 /\ b.ticks < SHORT_TICKS /\ E = {"PRESS_UP"}
           /\ btn'.state = 2 /\ btn'.ticks = 0 /\ btn'.repeat = b.repeat
        \/ b.button_level = 0 /\ E = {"PRESS_UP"} /\ btn'.state = 0
    BY <1>6, <1>12 DEF Row
  <2>2. /\ btn.button_level = 1 /\ presses # 1 /\ (wrapped \/ held = UpTo(LongEnough, btn.ticks))
        /\ presses = RepeatBound \/ (presses > 0 /\ btn.repeat = presses)
    BY <1>2, <1>4, <1>8, <1>12 DEF MachineInv
  <2>3. wrapped' \/ /\ held = UpTo(LongEnough, btn.ticks) /\ btn.ticks + 1 < TickBound
                    /\ b.ticks = btn.ticks + 1
    BY <1>1, <1>2, <1>4, <1>5, <1>7, <1>12, <2>2
  <2>. QED
    BY <1>1, <1>2, <1>3, <1>4, <1>6, <1>12, <2>1, <2>2, <2>3 DEF MachineInv, Earned, UpTo
<1>13. CASE b.state = 5
  <2>1. \/ b.button_level = 0 /\ E = {"PRESS_UP"} /\ btn'.state = 0
        \/ b.button_level = 1 /\ E = {"LONG_PRESS_HOLD"} /\ btn'.state = 5
    BY <1>6, <1>13 DEF Row
  <2>. QED
    BY <1>1, <1>2, <1>3, <1>4, <1>6, <1>8, <1>13, <2>1 DEF MachineInv, Earned, UpTo
<1>. QED
  BY <1>2, <1>4, <1>9, <1>10, <1>11, <1>12, <1>13

\* A sample keeps the button's types.
LEMMA SampleTypes ==
  ASSUME ButtonInv, NEW b, NEW E, Sampled(b, E)
  PROVE  ButtonTypeOK'
<1>1. btn' \in Buttons /\ calls' \in Seq(Heard) /\ disable' \in BOOLEAN
      /\ wrapped' \in BOOLEAN /\ told' \in {"up", "down", "unknown"}
  BY Zenon DEF Sampled, Handled, Fired, ButtonInv, ButtonTypeOK
<1>2. stores' \in 0 .. 2 * Len(Registered) /\ level' \in {0, 1} /\ stable' \in 0 .. DEBOUNCE_TICKS
  BY Zenon DEF Sampled, ButtonInv, ButtonTypeOK
<1>3. held \in 0 .. LongEnough /\ lasted \in 0 .. LongEnough /\ presses \in 0 .. RepeatBound
      /\ RepeatBound \in Nat /\ RepeatBound > 2 /\ LongEnough \in Nat
  BY Bounds DEF ButtonInv, ButtonTypeOK, LongEnough
<1>4. held' \in 0 .. LongEnough /\ lasted' \in 0 .. LongEnough /\ presses' \in 0 .. RepeatBound
  BY <1>3 DEF Sampled, UpTo
<1>. QED
  BY Zenon, <1>1, <1>2, <1>4 DEF ButtonTypeOK, Buttons, Heard

\* Every step of the button keeps its invariant.
LEMMA ButtonStep ==
  ASSUME ButtonInv, [ButtonNext]_btnVars
  PROVE  ButtonInv'
<1>1. CASE ButtonSample
  <2>1. PICK b, E : Sampled(b, E)
    BY Zenon, <1>1, SampleFields
  <2>2. MachineInv' /\ \A ev \in E : Earned(ev)
    BY Zenon, <2>1, MachineStep
  <2>3. EventsAreEarned'
    BY Zenon, <2>1, <2>2, EarnedCalls DEF ButtonInv, Sampled
  <2>4. ButtonTypeOK' /\ DebounceInv'
    BY Zenon, <2>1, SampleTypes DEF Sampled
  <2>. QED
    BY Zenon, <2>2, <2>3, <2>4 DEF ButtonInv
<1>2. CASE RegisterStore
  <2>1. ButtonTypeOK'
    <3>1. stores' \in 0 .. 2 * Len(Registered) /\ calls' \in Seq(Heard)
      BY <1>2, Bounds DEF RegisterStore, ButtonInv, ButtonTypeOK
    <3>. QED
      BY Zenon, <1>2, <3>1 DEF RegisterStore, ButtonInv, ButtonTypeOK, Heard
  <2>2. DebounceInv' /\ MachineInv' /\ EventsAreEarned'
    BY <1>2 DEF RegisterStore, ButtonInv, DebounceInv, MachineInv, EventsAreEarned
  <2>. QED
    BY Zenon, <2>1, <2>2 DEF ButtonInv
<1>3. CASE SetDisable
  <2>1. ButtonTypeOK'
    <3>1. calls' \in Seq(Heard)
      BY <1>3 DEF SetDisable
    <3>. QED
      BY Zenon, <1>3, <3>1 DEF SetDisable, ButtonInv, ButtonTypeOK, Heard
  <2>2. DebounceInv' /\ MachineInv' /\ EventsAreEarned'
    BY <1>3 DEF SetDisable, ButtonInv, DebounceInv, MachineInv, EventsAreEarned
  <2>. QED
    BY Zenon, <2>1, <2>2 DEF ButtonInv
<1>4. CASE UNCHANGED btnVars
  <2>1. ButtonTypeOK'
    BY Zenon, <1>4 DEF btnVars, ButtonInv, ButtonTypeOK
  <2>2. DebounceInv' /\ MachineInv'
    BY <1>4 DEF btnVars, ButtonInv, DebounceInv, MachineInv
  <2>3. EventsAreEarned'
    BY Zenon, <1>4 DEF btnVars, ButtonInv, EventsAreEarned, usr_data
  <2>. QED
    BY Zenon, <2>1, <2>2, <2>3 DEF ButtonInv
<1>. QED
  BY Zenon, <1>1, <1>2, <1>3, <1>4 DEF ButtonNext

\* Port types with buttons register both ends of a press.
BothRegistered == {"PRESS_DOWN", "PRESS_UP"} \subseteq {Registered[i] : i \in DOMAIN Registered}

\* Once every registration is stored, both press events have a callback.
LEMMA AllHeard ==
  ASSUME ButtonTypeOK, stores = 2 * Len(Registered), BothRegistered
  PROVE  cb("PRESS_DOWN") /\ cb("PRESS_UP")
<1>1. ASSUME NEW i \in DOMAIN Registered PROVE stores >= 2 * i - 1
  BY Bounds
<1>. QED
  BY Zenon, <1>1 DEF cb, BothRegistered

\* A sample tells no press twice without its release, nor a release without its
\* press.
LEMMA PairedSample ==
  ASSUME ButtonInv, ToldInv, BothRegistered, NEW b, NEW E, Sampled(b, E)
  PROVE  /\ ToldInv'
         /\ stores = 2 * Len(Registered) =>
               /\ Hears(calls', "PRESS_DOWN") => told # "down"
               /\ Hears(calls', "PRESS_UP") => told # "up"
<1>1. stores' = stores /\ disable' = disable
  BY Zenon DEF Sampled
<1> SUFFICES ASSUME stores = 2 * Len(Registered)
             PROVE  /\ told' = "down" => ~disable /\ btn'.button_level = 1
                    /\ told' = "up" => ~disable /\ btn'.button_level = 0
                    /\ Hears(calls', "PRESS_DOWN") => told # "down"
                    /\ Hears(calls', "PRESS_UP") => told # "up"
  BY <1>1 DEF ToldInv
<1>2. cb("PRESS_DOWN") /\ cb("PRESS_UP")
  BY AllHeard DEF ButtonInv
<1>3. /\ Hears(calls', "PRESS_DOWN") <=> "PRESS_DOWN" \in E /\ ~disable
      /\ Hears(calls', "PRESS_UP") <=> "PRESS_UP" \in E /\ ~disable
  BY Zenon, <1>2 DEF Sampled, Handled, Fired
<1>4. /\ told = "down" => ~disable /\ btn.button_level = 1
      /\ told = "up" => ~disable /\ btn.button_level = 0
  BY Zenon DEF ToldInv
<1>5. /\ btn.button_level = 1 <=> btn.state \in {1, 3, 5}
      /\ btn.button_level \in {0, 1} /\ b.state = btn.state /\ b.button_level \in {0, 1}
      /\ btn.state \in {0, 1, 2, 3, 5} /\ btn'.button_level = b.button_level
  BY ButtonNumbers DEF ButtonInv, ButtonTypeOK, Buttons, MachineInv, Sampled, Handled
<1>6. /\ "PRESS_DOWN" \in E <=> b.button_level = 1 /\ btn.button_level = 0
      /\ "PRESS_UP" \in E <=> b.button_level = 0 /\ btn.button_level = 1
  <2>1. Row(b, E)
    BY Zenon DEF Sampled, Handled
  <2>. QED
    BY <1>5, <2>1 DEF Row
<1>7. /\ Hears(calls', "PRESS_DOWN") /\ ~Hears(calls', "PRESS_UP") => told' = "down"
      /\ Hears(calls', "PRESS_UP") /\ ~Hears(calls', "PRESS_DOWN") => told' = "up"
      /\ ~Hears(calls', "PRESS_DOWN") /\ ~Hears(calls', "PRESS_UP") => told' = told
  BY Zenon DEF Sampled
<1>. QED
  BY <1>3, <1>4, <1>5, <1>6, <1>7

\* Every step tells presses and releases in turn.
LEMMA PairedStep ==
  ASSUME ButtonInv, ToldInv, BothRegistered, [ButtonNext]_btnVars
  PROVE  /\ ToldInv'
         /\ btnVars' # btnVars =>
               (stores = 2 * Len(Registered) =>
                  /\ Hears(calls', "PRESS_DOWN") => told # "down"
                  /\ Hears(calls', "PRESS_UP") => told # "up")
<1>1. CASE ButtonSample
  BY Zenon, <1>1, SampleFields, PairedSample
<1>2. CASE RegisterStore \/ SetDisable
  <2>1. calls' = <<>> /\ told' = "unknown"
    BY Zenon, <1>2 DEF RegisterStore, SetDisable
  <2>. QED
    BY <2>1 DEF ToldInv, Hears
<1>3. CASE UNCHANGED btnVars
  BY <1>3 DEF btnVars, ToldInv
<1>. QED
  BY Zenon, <1>1, <1>2, <1>3 DEF ButtonNext

-----------------------------------------------------------------------------
(* The ADC keys: the table of channels.                                    *)

LEMMA FirstIsLeast ==
  ASSUME NEW S \in SUBSET Entries, S # {}
  PROVE  FirstOf(S) \in S /\ \A f \in S : FirstOf(S) <= f
<1>1. S \subseteq Nat
  BY AdcAssumption DEF Entries
<1>2. PICK e \in S : \A f \in S : ~ (<<f, e>> \in OpToRel(<, Nat))
  BY <1>1, WFMin, NatLessThanWellFounded
<1>3. \A f \in S : <<f, e>> \in OpToRel(<, Nat) <=> f < e
  BY <1>1 DEF OpToRel
<1>4. \A f \in S : ~ (f < e)
  BY Zenon, <1>2, <1>3
<1>5. \A f \in S : e <= f
  BY <1>1, <1>4
<1>. QED
  BY <1>5 DEF FirstOf

\* A channel that entries have is found in the first of them.
LEMMA FirstOfChannel ==
  ASSUME NEW c, OfChannel(c) # {}
  PROVE  /\ FirstOf(OfChannel(c)) \in Entries /\ g_button[FirstOf(OfChannel(c))].channel = c
         /\ \A f \in Entries : g_button[f].channel = c => FirstOf(OfChannel(c)) <= f
<1>1. OfChannel(c) \in SUBSET Entries
  BY DEF OfChannel
<1>2. FirstOf(OfChannel(c)) \in OfChannel(c) /\ \A f \in OfChannel(c) : FirstOf(OfChannel(c)) <= f
  BY <1>1, FirstIsLeast
<1>. QED
  BY <1>2 DEF OfChannel

AdcEntry == [channel : Channels \union {0, CHANNEL_MAX}, is_init : BOOLEAN,
             btns : SUBSET Keys, recent : BOOLEAN]

\* What a zeroed table entry and the empty judgement are.
LEMMA ZeroedFields ==
  /\ Zeroed \in AdcEntry /\ Zeroed.channel = 0 /\ Zeroed.is_init = FALSE /\ Zeroed.recent = FALSE
  /\ NoKey.by = NoKey.key /\ CHANNEL_MAX = 8 /\ \A c \in Channels : c \in Nat /\ c # CHANNEL_MAX
BY AdcAssumption DEF Zeroed, AdcEntry, NoKey, CHANNEL_MAX

\* The key table's invariant holds at the start.
LEMMA InitAdc == AdcInit => AdcInv
<1> SUFFICES ASSUME AdcInit PROVE AdcInv
  OBVIOUS
<1>1. \A e \in Entries : g_button[e] = Zeroed
  BY DEF AdcInit
<1>2. AdcTypeOK
  BY ZeroedFields DEF AdcInit, AdcTypeOK, AdcEntry
<1>3. InUseInv /\ UntouchedInv /\ RecentInv /\ ChannelsDistinct
  BY Zenon, <1>1, ZeroedFields DEF InUseInv, UntouchedInv, Untouched, RecentInv, ChannelsDistinct
<1>4. JudgedByMeasured
  BY Zenon, ZeroedFields DEF JudgedByMeasured, AdcInit
<1>. QED
  BY Zenon, <1>2, <1>3, <1>4 DEF AdcInv

\* Entries are changed one at a time.
LEMMA OneEntry ==
  ASSUME AdcTypeOK, NEW e \in Entries, NEW b \in AdcEntry,
         g_button' = [g_button EXCEPT ![e] = b]
  PROVE  /\ g_button'[e] = b /\ \A f \in Entries : f # e => g_button'[f] = g_button[f]
         /\ g_button' \in [Entries -> AdcEntry]
BY DEF AdcTypeOK, AdcEntry

\* An entry that keeps its channel and use, and is not measured.
LEMMA SameEntry ==
  ASSUME AdcInv, NEW e \in Entries, NEW b \in AdcEntry,
         b.channel = g_button[e].channel, b.is_init = g_button[e].is_init,
         b.recent => g_button[e].recent,
         g_button' = [g_button EXCEPT ![e] = b], UNCHANGED <<vol, sampled>>, judged' = NoKey
  PROVE  AdcInv'
<1>1. /\ g_button'[e] = b /\ \A f \in Entries : f # e => g_button'[f] = g_button[f]
      /\ g_button' \in [Entries -> AdcEntry]
  BY OneEntry DEF AdcInv
<1>2. AdcTypeOK'
  BY Zenon, <1>1 DEF AdcInv, AdcTypeOK, AdcEntry
<1>3. \A f \in Entries : /\ g_button'[f].channel = g_button[f].channel
                         /\ g_button'[f].is_init = g_button[f].is_init
                         /\ g_button'[f].recent => g_button[f].recent
  BY Zenon, <1>1
<1>4. InUseInv' /\ ChannelsDistinct' /\ UntouchedInv'
  BY <1>3 DEF AdcInv, InUseInv, ChannelsDistinct, UntouchedInv, Untouched
<1>5. RecentInv'
  BY <1>3 DEF AdcInv, RecentInv
<1>6. JudgedByMeasured'
  BY Zenon, ZeroedFields DEF JudgedByMeasured
<1>. QED
  BY Zenon, <1>2, <1>4, <1>5, <1>6 DEF AdcInv

\* The entry a channel is taken into use in: none in front of it was never used,
\* and no other has the channel.
LEMMA UnusedEntry ==
  ASSUME AdcInv, NEW c \in Channels, NEW e \in EntryFor(c), ~g_button[e].is_init
  PROVE  /\ e \in Entries
         /\ \A f \in Entries : f < e => ~Untouched(f)
         /\ \A f \in Entries \ {e} : g_button[f].channel = c
                => ~g_button[f].is_init /\ ~g_button[f].recent
<1>1. CASE OfChannel(c) # {}
  <2>1. e = FirstOf(OfChannel(c))
    BY Zenon, <1>1 DEF EntryFor
  <2>2. /\ e \in Entries /\ g_button[e].channel = c
        /\ \A f \in Entries : g_button[f].channel = c => e <= f
    BY Zenon, <1>1, <2>1, FirstOfChannel
  <2>3. Untouched(e) /\ c = 0
    BY Zenon, <2>2, ZeroedFields DEF AdcInv, UntouchedInv, Untouched
  <2>4. Entries \subseteq Nat
    BY AdcAssumption DEF Entries
  <2>5. ASSUME NEW f \in Entries, f < e PROVE ~Untouched(f)
    <3>1. Untouched(f) => g_button[f].channel = 0
      BY Zenon DEF AdcInv, UntouchedInv
    <3>. QED
      BY <2>2, <2>3, <2>4, <2>5, <3>1
  <2>6. ASSUME NEW f \in Entries \ {e}, g_button[f].channel = c
        PROVE  ~g_button[f].is_init /\ ~g_button[f].recent
    <3>1. e < f
      BY <2>2, <2>4, <2>6
    <3>2. ~g_button[f].is_init
      BY Zenon, <2>2, <2>3, <3>1 DEF AdcInv, UntouchedInv
    <3>3. Untouched(f)
      BY Zenon, <2>3, <2>6, <3>2, ZeroedFields DEF Untouched
    <3>. QED
      BY Zenon, <2>2, <2>3, <3>1, <3>2, <3>3 DEF AdcInv, UntouchedInv
  <2>. QED
    BY Zenon, <2>2, <2>5, <2>6
<1>2. CASE OfChannel(c) = {}
  <2>1. e \in Entries /\ \A f \in 1 .. e - 1 : g_button[f].is_init
    BY Zenon, <1>2 DEF EntryFor
  <2>2. \A f \in Entries : f < e => f \in 1 .. e - 1
    BY <2>1, AdcAssumption DEF Entries
  <2>. QED
    BY Zenon, <1>2, <2>1, <2>2 DEF OfChannel, Untouched
<1>. QED
  BY Zenon, <1>1, <1>2

\* Replacing an entry's key set leaves its other fields alone.
LEMMA BtnsFields ==
  ASSUME NEW b \in AdcEntry, NEW s \in SUBSET Keys, NEW n, n = [b EXCEPT !.btns = s]
  PROVE  n \in AdcEntry /\ n.channel = b.channel /\ n.is_init = b.is_init /\ n.recent = b.recent
BY DEF AdcEntry

Taken(b, c, n) ==
    /\ n \in AdcEntry
    /\ b.is_init => n.channel = b.channel /\ n.is_init = b.is_init /\ n.recent = b.recent
    /\ ~b.is_init => n.channel = c /\ n.is_init = TRUE /\ n.recent = FALSE

\* Registering the first key of a channel takes its entry.
LEMMA TakenFields ==
  ASSUME NEW b \in AdcEntry, NEW c \in Channels, NEW k \in Keys, NEW n, n = WithKey(TakenInUse(b, c), k)
  PROVE  Taken(b, c, n)
<1>0. b.btns \union {k} \in SUBSET Keys
  BY DEF AdcEntry
<1>1. CASE b.is_init
  <2>1. n = [b EXCEPT !.btns = b.btns \union {k}]
    <3>1. TakenInUse(b, c) = b
      BY Zenon, <1>1 DEF TakenInUse
    <3>. QED
      BY <3>1 DEF WithKey
  <2>. QED
    <3>1. n \in AdcEntry /\ n.channel = b.channel /\ n.is_init = b.is_init /\ n.recent = b.recent
      BY Zenon, <2>1, BtnsFields, <1>0
    <3>. QED
      BY Zenon, <1>1, <3>1 DEF Taken
<1>2. CASE ~b.is_init
  <2> DEFINE m == [b EXCEPT !.channel = c, !.is_init = TRUE, !.recent = FALSE]
  <2>2. /\ m \in AdcEntry /\ m.channel = c /\ m.is_init = TRUE /\ m.recent = FALSE
    BY DEF AdcEntry
  <2>0. m.btns \union {k} \in SUBSET Keys
    BY <2>2 DEF AdcEntry
  <2> HIDE DEF m
  <2>1. n = [m EXCEPT !.btns = m.btns \union {k}]
    <3>1. TakenInUse(b, c) = m
      BY Zenon, <1>2 DEF TakenInUse, m
    <3>. QED
      BY <3>1 DEF WithKey
  <2>3. n \in AdcEntry /\ n.channel = m.channel /\ n.is_init = m.is_init /\ n.recent = m.recent
    BY ZenonT(30), <2>1, <2>2, BtnsFields, <2>0
  <2>. QED
    BY Zenon, <1>2, <2>2, <2>3 DEF Taken
<1>. QED
  BY Zenon, <1>1, <1>2

\* Registering a key keeps the invariant of the key table.
LEMMA KeyInitStep ==
  ASSUME AdcInv, NEW c \in Channels, NEW k \in Keys, AdcKeyInit(c, k)
  PROVE  AdcInv'
<1>1. PICK e \in EntryFor(c) :
        /\ g_button' = [g_button EXCEPT ![e] = WithKey(TakenInUse(@, c), k)]
        /\ sampled' = IF g_button[e].is_init THEN sampled ELSE {p \in sampled : p[1] # c}
        /\ judged' = NoKey /\ UNCHANGED vol
  BY Zenon DEF AdcKeyInit
<1>2. e \in Entries
  BY Zenon, FirstOfChannel DEF EntryFor
<1>a. PICK b : b = g_button[e]
  BY Zenon
<1>b. PICK n : n = WithKey(TakenInUse(b, c), k)
  BY Zenon
<1>3. b \in AdcEntry
  BY <1>2, <1>a DEF AdcInv, AdcTypeOK, AdcEntry
<1>4. /\ n \in AdcEntry
      /\ b.is_init => n.channel = b.channel /\ n.is_init = b.is_init /\ n.recent = b.recent
      /\ ~b.is_init => n.channel = c /\ n.is_init = TRUE /\ n.recent = FALSE
  <2>1. Taken(b, c, n)
    BY Zenon, <1>3, <1>b, TakenFields
  <2>. QED
    BY Zenon, <2>1 DEF Taken
<1>5. g_button' = [g_button EXCEPT ![e] = n]
  BY Zenon, <1>1, <1>a, <1>b
<1>6. CASE g_button[e].is_init
  <2>1. UNCHANGED <<vol, sampled>> /\ judged' = NoKey
    BY Zenon, <1>1, <1>6
  <2>. QED
    BY Zenon, <1>a, <1>2, <1>4, <1>5, <1>6, <2>1, SameEntry
<1>7. CASE ~g_button[e].is_init
  <2>1. /\ \A f \in Entries : f < e => ~Untouched(f)
        /\ \A f \in Entries \ {e} : g_button[f].channel = c
                => ~g_button[f].is_init /\ ~g_button[f].recent
    BY Zenon, <1>1, <1>7, UnusedEntry
  <2>2. /\ g_button'[e] = n /\ \A f \in Entries : f # e => g_button'[f] = g_button[f]
        /\ g_button' \in [Entries -> AdcEntry]
    BY <1>2, <1>4, <1>5, OneEntry DEF AdcInv
  <2>3. n.channel = c /\ n.is_init /\ ~n.recent /\ sampled' = {p \in sampled : p[1] # c}
    BY Zenon, <1>a, <1>1, <1>4, <1>7
  <2>4. AdcTypeOK'
    <3>1. sampled' \subseteq Channels \X Channels /\ vol' \in Channels \union {CHANNEL_MAX}
      BY Zenon, <1>1, <2>3 DEF AdcInv, AdcTypeOK
    <3>. QED
      BY Zenon, <2>2, <3>1 DEF AdcTypeOK, AdcEntry
  <2>5. InUseInv' /\ ChannelsDistinct'
    <3>1. InUseInv'
      BY <1>2, <2>2, <2>3, ZeroedFields DEF AdcInv, InUseInv
    <3>2. ChannelsDistinct'
      BY <1>2, <2>1, <2>2, <2>3 DEF AdcInv, ChannelsDistinct
    <3>. QED
      BY Zenon, <3>1, <3>2
  <2>6. UntouchedInv'
    BY Zenon, <1>2, <2>1, <2>2, <2>3 DEF AdcInv, UntouchedInv, Untouched
  <2>7. RecentInv'
    <3> SUFFICES ASSUME NEW f \in Entries, g_button'[f].recent, g_button'[f].channel # CHANNEL_MAX
                 PROVE  <<g_button'[f].channel, vol'>> \in sampled'
      BY Zenon DEF RecentInv
    <3>1. f # e /\ g_button'[f] = g_button[f] /\ g_button[f].channel # c
      BY Zenon, <2>1, <2>2, <2>3
    <3>2. <<g_button[f].channel, vol>> \in sampled
      BY Zenon, <3>1 DEF AdcInv, RecentInv
    <3>. QED
      BY <1>1, <2>3, <3>1, <3>2
  <2>8. JudgedByMeasured'
    BY Zenon, <1>1, ZeroedFields DEF JudgedByMeasured
  <2>. QED
    BY Zenon, <2>4, <2>5, <2>6, <2>7, <2>8 DEF AdcInv
<1>. QED
  BY Zenon, <1>6, <1>7

\* Removing a key keeps the invariant of the key table.
LEMMA KeyDeinitStep ==
  ASSUME AdcInv, NEW c \in Channels, NEW k \in Keys, AdcKeyDeinit(c, k)
  PROVE  AdcInv'
<1>1. PICK e : e = FirstOf(OfChannel(c))
  BY Zenon
<1>2. e \in Entries /\ g_button[e].channel = c
  BY Zenon, <1>1, FirstOfChannel DEF AdcKeyDeinit
<1>3. PICK b : b = g_button[e]
  BY Zenon
<1>4. b \in AdcEntry
  BY <1>2, <1>3 DEF AdcInv, AdcTypeOK, AdcEntry
<1>5. PICK left : left = b.btns \ {k}
  BY Zenon
<1>6. PICK n : n = IF left = {} /\ b.is_init
                   THEN [b EXCEPT !.btns = {}, !.is_init = FALSE, !.channel = CHANNEL_MAX]
                   ELSE [b EXCEPT !.btns = left]
  BY Zenon
<1>7. PICK g : g = [g_button EXCEPT ![e] = n]
  BY Zenon
<1>8. /\ g_button' = IF (\A f \in Entries : ~g[f].is_init) /\ \E f \in Entries : g_button[f].is_init
                     THEN [f \in Entries |-> Zeroed] ELSE g
      /\ judged' = NoKey /\ UNCHANGED <<vol, sampled>>
  BY <1>1, <1>3, <1>5, <1>6, <1>7 DEF AdcKeyDeinit
<1>9. CASE g_button' = [f \in Entries |-> Zeroed]
  <2>1. \A f \in Entries : g_button'[f] = Zeroed
    BY <1>9
  <2>2. AdcTypeOK'
    <3>1. g_button' \in [Entries -> AdcEntry]
      BY <1>9, ZeroedFields
    <3>. QED
      BY Zenon, <1>8, <3>1 DEF AdcInv, AdcTypeOK, AdcEntry
  <2>3. InUseInv' /\ UntouchedInv' /\ RecentInv' /\ ChannelsDistinct'
    BY Zenon, <2>1, ZeroedFields DEF InUseInv, UntouchedInv, Untouched, RecentInv, ChannelsDistinct
  <2>4. JudgedByMeasured'
    BY Zenon, <1>8, ZeroedFields DEF JudgedByMeasured
  <2>. QED
    BY Zenon, <2>2, <2>3, <2>4 DEF AdcInv
<1>10. CASE g_button' = g /\ ~ (left = {} /\ b.is_init)
  <2>1. n = [b EXCEPT !.btns = left] /\ left \in SUBSET Keys
    BY <1>4, <1>5, <1>6, <1>10 DEF AdcEntry
  <2>2. n \in AdcEntry /\ n.channel = b.channel /\ n.is_init = b.is_init /\ n.recent = b.recent
    BY Zenon, <1>4, <2>1, BtnsFields
  <2>3. n.recent => b.recent
    BY Zenon, <2>2
  <2>. QED
    BY Zenon, <1>2, <1>3, <1>7, <1>8, <1>10, <2>2, <2>3, SameEntry
<1>11. CASE g_button' = g /\ left = {} /\ b.is_init
  <2>1. n = [b EXCEPT !.btns = {}, !.is_init = FALSE, !.channel = CHANNEL_MAX]
    BY Zenon, <1>6, <1>11
  <2>2. /\ n \in AdcEntry /\ n.channel = CHANNEL_MAX /\ n.is_init = FALSE
    BY <1>4, <2>1 DEF AdcEntry
  <2>3. /\ g_button'[e] = n /\ \A f \in Entries : f # e => g_button'[f] = g_button[f]
        /\ g_button' \in [Entries -> AdcEntry]
    BY Zenon, <1>2, <1>7, <1>11, <2>2, OneEntry DEF AdcInv
  <2>4. AdcTypeOK'
    BY Zenon, <1>8, <2>3 DEF AdcInv, AdcTypeOK, AdcEntry
  <2>5. InUseInv' /\ ChannelsDistinct' /\ UntouchedInv'
    BY <2>2, <2>3 DEF AdcInv, InUseInv, ChannelsDistinct, UntouchedInv, Untouched
  <2>6. RecentInv'
    BY <1>8, <2>2, <2>3 DEF AdcInv, RecentInv
  <2>7. JudgedByMeasured'
    BY Zenon, <1>8, ZeroedFields DEF JudgedByMeasured
  <2>. QED
    BY Zenon, <2>4, <2>5, <2>6, <2>7 DEF AdcInv
<1>. QED
  BY Zenon, <1>8, <1>9, <1>10, <1>11

\* Judging a key keeps the invariant of the key table.
LEMMA GetKeyLevelStep ==
  ASSUME AdcInv, NEW c \in Channels, AdcGetKeyLevel(c)
  PROVE  AdcInv'
<1>1. PICK e : e = FirstOf(OfChannel(c))
  BY Zenon
<1>2. /\ e \in Entries /\ g_button[e].channel = c
      /\ \A f \in Entries : g_button[f].channel = c => e <= f
  BY Zenon, <1>1, FirstOfChannel DEF AdcGetKeyLevel
<1>3. PICK n : n = [g_button[e] EXCEPT !.recent = TRUE]
  BY Zenon
<1>4. /\ g_button' = [g_button EXCEPT ![e] = n]
      /\ vol' = IF ~g_button[e].recent THEN c ELSE vol
      /\ judged' = [key |-> c, by |-> vol']
      /\ sampled' = IF ~g_button[e].recent
                    THEN {p \in sampled : p[1] # c}
                           \union {<<d, c>> : d \in {p[1] : p \in sampled} \union {c}}
                    ELSE sampled
  BY <1>1, <1>3 DEF AdcGetKeyLevel
<1>5. g_button[e] \in AdcEntry
  BY <1>2 DEF AdcInv, AdcTypeOK, AdcEntry
<1>6. /\ n \in AdcEntry /\ n.channel = c /\ n.is_init = g_button[e].is_init /\ n.recent = TRUE
  BY <1>2, <1>3, <1>5 DEF AdcEntry
<1>7. /\ g_button'[e] = n /\ \A f \in Entries : f # e => g_button'[f] = g_button[f]
      /\ g_button' \in [Entries -> AdcEntry]
  BY Zenon, <1>2, <1>4, <1>6, OneEntry DEF AdcInv
<1>8. InUseInv' /\ ChannelsDistinct'
  BY <1>2, <1>6, <1>7 DEF AdcInv, InUseInv, ChannelsDistinct
<1>9. UntouchedInv'
  <2> SUFFICES ASSUME NEW u \in Entries, NEW f \in Entries, Untouched(u)'
               PROVE  /\ g_button'[u].channel = 0
                      /\ u < f => ~g_button'[f].is_init
                      /\ u < f /\ Untouched(f)' => ~g_button'[f].recent
    BY Zenon DEF UntouchedInv
  <2>1. /\ g_button'[u].channel = g_button[u].channel /\ g_button'[u].is_init = g_button[u].is_init
        /\ g_button'[f].channel = g_button[f].channel /\ g_button'[f].is_init = g_button[f].is_init
    BY Zenon, <1>2, <1>6, <1>7
  <2>2. Untouched(u) /\ (Untouched(f)' => Untouched(f))
    BY Zenon, <2>1 DEF Untouched
  <2>3. /\ g_button[u].channel = 0 /\ (u < f => ~g_button[f].is_init)
        /\ u < f /\ Untouched(f) => ~g_button[f].recent
    BY Zenon, <2>2 DEF AdcInv, UntouchedInv
  <2>4. CASE f # e
    BY Zenon, <1>7, <2>1, <2>2, <2>3, <2>4
  <2>5. CASE f = e
    <3>1. Untouched(f) => g_button[f].channel = 0
      BY Zenon DEF AdcInv, UntouchedInv
    <3>2. Untouched(f) => ~(u < f)
      BY <1>2, <2>3, <2>5, <3>1, AdcAssumption DEF Entries
    <3>. QED
      BY Zenon, <2>1, <2>2, <2>3, <3>2
  <2>. QED
    BY <2>4, <2>5
<1>10. CASE ~g_button[e].recent
  <2>1. vol' = c /\ sampled' = {p \in sampled : p[1] # c}
                                \union {<<d, c>> : d \in {p[1] : p \in sampled} \union {c}}
    BY Zenon, <1>4, <1>10
  <2>2. sampled \subseteq Channels \X Channels
    BY DEF AdcInv, AdcTypeOK
  <2>3. AdcTypeOK'
    <3>1. sampled' \subseteq Channels \X Channels /\ vol' \in Channels \union {CHANNEL_MAX}
      BY <2>1, <2>2
    <3>. QED
      BY Zenon, <1>7, <3>1 DEF AdcTypeOK, AdcEntry
  <2>4. RecentInv'
    <3> SUFFICES ASSUME NEW f \in Entries, g_button'[f].recent, g_button'[f].channel # CHANNEL_MAX
                 PROVE  <<g_button'[f].channel, c>> \in sampled'
      BY Zenon, <2>1 DEF RecentInv
    <3>1. CASE f = e
      BY <1>6, <1>7, <2>1, <3>1
    <3>2. CASE f # e
      <4>1. <<g_button[f].channel, vol>> \in sampled /\ g_button'[f] = g_button[f]
        BY Zenon, <1>7, <3>2 DEF AdcInv, RecentInv
      <4>. QED
        BY <2>1, <4>1
    <3>. QED
      BY <3>1, <3>2
  <2>5. JudgedByMeasured'
    BY <1>4, <2>1 DEF JudgedByMeasured
  <2>. QED
    BY Zenon, <1>8, <1>9, <2>3, <2>4, <2>5 DEF AdcInv
<1>11. CASE g_button[e].recent
  <2>1. vol' = vol /\ sampled' = sampled
    BY Zenon, <1>4, <1>11
  <2>2. AdcTypeOK'
    BY Zenon, <1>7, <2>1 DEF AdcInv, AdcTypeOK, AdcEntry
  <2>3. RecentInv'
    BY <1>2, <1>6, <1>7, <1>11, <2>1 DEF AdcInv, RecentInv
  <2>4. JudgedByMeasured'
    <3>1. <<c, vol>> \in sampled
      BY <1>2, <1>11, ZeroedFields DEF AdcInv, RecentInv
    <3>. QED
      BY <1>4, <2>1, <3>1 DEF JudgedByMeasured
  <2>. QED
    BY Zenon, <1>8, <1>9, <2>2, <2>3, <2>4 DEF AdcInv
<1>. QED
  BY Zenon, <1>10, <1>11

\* The passing of time keeps the invariant of the key table.
LEMMA ElapseStep ==
  ASSUME AdcInv, AdcElapse
  PROVE  AdcInv'
<1>1. PICK e \in Entries : /\ g_button' = [g_button EXCEPT ![e].recent = FALSE]
                           /\ judged' = NoKey /\ UNCHANGED <<vol, sampled>>
  BY Zenon DEF AdcElapse
<1>2. PICK n : n = [g_button[e] EXCEPT !.recent = FALSE]
  BY Zenon
<1>3. g_button' = [g_button EXCEPT ![e] = n]
  BY <1>1, <1>2
<1>4. g_button[e] \in AdcEntry
  BY DEF AdcInv, AdcTypeOK, AdcEntry
<1>5. n \in AdcEntry /\ n.channel = g_button[e].channel /\ n.is_init = g_button[e].is_init
      /\ n.recent = FALSE
  BY <1>2, <1>4 DEF AdcEntry
<1>6. n.recent => g_button[e].recent
  BY Zenon, <1>5
<1>. QED
  BY Zenon, <1>1, <1>3, <1>5, <1>6, SameEntry

\* Every step of the key table keeps its invariant.
LEMMA AdcStep ==
  ASSUME AdcInv, [AdcNext]_adcVars
  PROVE  AdcInv'
<1>1. CASE UNCHANGED adcVars
  <2>1. AdcTypeOK'
    BY Zenon, <1>1 DEF adcVars, AdcInv, AdcTypeOK
  <2>2. InUseInv' /\ UntouchedInv' /\ RecentInv' /\ ChannelsDistinct' /\ JudgedByMeasured'
    BY <1>1 DEF adcVars, AdcInv, InUseInv, UntouchedInv, Untouched, RecentInv, ChannelsDistinct,
                JudgedByMeasured
  <2>. QED
    BY Zenon, <2>1, <2>2 DEF AdcInv
<1>. QED
  BY Zenon, <1>1, KeyInitStep, KeyDeinitStep, GetKeyLevelStep, ElapseStep DEF AdcNext

-----------------------------------------------------------------------------
(* The outputs: the calls in progress and what each leaves to do.          *)

OutPcs == {"idle", "level", "read", "write", "back", "fade", "check", "dim", "disable"}

OutTask == [pc : OutPcs,
            port : Ports \union {"none"}, arg : Nat, seen : SUBSET Pins,
            op : {"none", "set", "toggle", "color", "active"}]

LightState == [state : {0, 1}, color : Colors \union {0, MAX_DUTY}, duty : Nat]
PortState  == [active : BOOLEAN, disable : BOOLEAN, status : BOOLEAN]

\* The task t is now in a call with these values, the others are where they were.
Stepped(t, pc, p, op, arg, seen) ==
    /\ otask' \in [OutTasks -> OutTask]
    /\ \A u \in OutTasks \ {t} : otask'[u] = otask[u]
    /\ otask'[t].pc = pc /\ otask'[t].port = p /\ otask'[t].op = op
    /\ otask'[t].arg = arg /\ otask'[t].seen = seen

\* The fields of an output task have their types.
LEMMA TaskFields ==
  ASSUME OutTypeOK, NEW t \in OutTasks
  PROVE  /\ otask[t] \in OutTask /\ otask \in [OutTasks -> OutTask]
         /\ otask[t].pc \in OutPcs
         /\ otask[t].port \in Ports \union {"none"} /\ otask[t].arg \in Nat
         /\ otask[t].seen \in SUBSET Pins
         /\ otask[t].op \in {"none", "set", "toggle", "color", "active"}
BY DEF OutTypeOK, OutTask, OutPcs

\* The fields of a call that differs from b in these three.
SetTo(e, b, pc, arg, seen) ==
    /\ e \in OutTask /\ e.pc = pc /\ e.port = b.port /\ e.op = b.op
    /\ e.arg = arg /\ e.seen = seen

SetIn(e, b, pc, arg, seen) ==
    \/ e = [b EXCEPT !.pc = pc] /\ arg = b.arg /\ seen = b.seen
    \/ e = [b EXCEPT !.pc = pc, !.arg = arg] /\ seen = b.seen
    \/ e = [b EXCEPT !.pc = pc, !.seen = seen] /\ arg = b.arg

\* A record written field by field is the one Set describes.
LEMMA SetFields ==
  ASSUME NEW b \in OutTask, NEW arg \in Nat, NEW seen \in SUBSET Pins,
         NEW pc \in OutPcs, NEW e, SetIn(e, b, pc, arg, seen)
  PROVE  SetTo(e, b, pc, arg, seen)
<1>1. CASE e = [b EXCEPT !.pc = pc] /\ arg = b.arg /\ seen = b.seen
  BY <1>1 DEF OutTask, SetTo
<1>2. CASE e = [b EXCEPT !.pc = pc, !.arg = arg] /\ seen = b.seen
  BY <1>2 DEF OutTask, SetTo
<1>3. CASE e = [b EXCEPT !.pc = pc, !.seen = seen] /\ arg = b.arg
  BY <1>3 DEF OutTask, SetTo
<1>. QED
  BY Zenon, <1>1, <1>2, <1>3 DEF SetIn

\* A step that replaces one task's record moves that task and no other.
LEMMA NewTask ==
  ASSUME OutTypeOK, NEW t \in OutTasks, NEW e \in OutTask, otask' = [otask EXCEPT ![t] = e]
  PROVE  Stepped(t, e.pc, e.port, e.op, e.arg, e.seen)
<1>1. otask \in [OutTasks -> OutTask]
  BY TaskFields
<1>. QED
  BY <1>1 DEF Stepped

\* A call that returns leaves its task idle.
LEMMA Returns ==
  ASSUME OutTypeOK, NEW t \in OutTasks, OutReturn(t)
  PROVE  Stepped(t, "idle", "none", "none", 0, {})
<1>1. /\ IdleO \in OutTask /\ IdleO.pc = "idle" /\ IdleO.port = "none" /\ IdleO.op = "none"
      /\ IdleO.arg = 0 /\ IdleO.seen = {}
  BY DEF IdleO, OutTask, OutPcs
<1>2. Stepped(t, IdleO.pc, IdleO.port, IdleO.op, IdleO.arg, IdleO.seen)
  BY <1>1, NewTask DEF OutReturn
<1>. QED
  BY Zenon, <1>1, <1>2

\* A step inside a call moves the task's place, argument and snapshot only.
LEMMA Goes ==
  ASSUME OutTypeOK, NEW t \in OutTasks, NEW arg \in Nat, NEW seen \in SUBSET Pins,
         NEW pc \in OutPcs,
         \/ otask' = [otask EXCEPT ![t].pc = pc] /\ arg = otask[t].arg /\ seen = otask[t].seen
         \/ otask' = [otask EXCEPT ![t].pc = pc, ![t].arg = arg] /\ seen = otask[t].seen
         \/ otask' = [otask EXCEPT ![t].pc = pc, ![t].seen = seen] /\ arg = otask[t].arg
  PROVE  Stepped(t, pc, otask[t].port, otask[t].op, arg, seen)
<1>1. otask[t] \in OutTask /\ otask \in [OutTasks -> OutTask]
  BY TaskFields
<1>2. PICK e : SetIn(e, otask[t], pc, arg, seen) /\ otask' = [otask EXCEPT ![t] = e]
  BY <1>1 DEF SetIn
<1>3. SetTo(e, otask[t], pc, arg, seen)
  BY Zenon, <1>1, <1>2, SetFields
<1>4. e \in OutTask /\ Stepped(t, e.pc, e.port, e.op, e.arg, e.seen)
  BY Zenon, <1>2, <1>3, NewTask DEF SetTo
<1>. QED
  BY Zenon, <1>3, <1>4 DEF SetTo

Others(t) == \A u \in OutTasks \ {t} : otask'[u] = otask[u]

\* Two calls under way on one port, or on pins of the chip, are both noted as
\* crossed.
LEMMA Noted ==
  ASSUME OutInv, NEW t \in OutTasks, NEW u \in OutTasks, t # u,
         otask[t].pc # "idle", otask[u].pc # "idle",
         Together(otask[t].port, otask[u].port)
  PROVE  otask[t].port \in crossed_out /\ otask[u].port \in crossed_out
<1>1. Together(otask[u].port, otask[t].port)
  BY DEF Together
<1>. QED
  BY Zenon, <1>1 DEF OutInv, MetInv

\* A step that moves one task, idle or on the port it had, keeps MetInv.
LEMMA KeepMet ==
  ASSUME OutInv, NEW t \in OutTasks, Others(t), crossed_out \subseteq crossed_out',
         \/ otask'[t].pc = "idle"
         \/ otask[t].pc # "idle" /\ otask'[t].port = otask[t].port
  PROVE  MetInv'
<1> SUFFICES ASSUME NEW u \in OutTasks, NEW v \in OutTasks, u # v,
                    otask'[u].pc # "idle", otask'[v].pc # "idle",
                    Together(otask'[u].port, otask'[v].port)
             PROVE  otask'[u].port \in crossed_out
  BY Zenon DEF MetInv
<1>1. \A w \in OutTasks : otask'[w].pc # "idle" =>
        otask[w].pc # "idle" /\ otask'[w].port = otask[w].port
  BY Zenon DEF Others
<1>. QED
  BY <1>1 DEF OutInv, MetInv

\* A step that writes no pin, outside the read and write of one, keeps PinInv.
LEMMA KeepPins ==
  ASSUME OutInv, NEW t \in OutTasks, Others(t), crossed_out \subseteq crossed_out', UNCHANGED chip,
         \A p \in Pins : wanted'[p] = wanted[p],
         otask[t].pc \notin {"read", "write"}, otask'[t].pc \notin {"read", "write"}
  PROVE  PinInv'
<1>1. \A u \in OutTasks : otask'[u].pc = "write" => otask'[u] = otask[u] /\ otask[u].pc = "write"
  BY Zenon DEF Others
<1>2. \A u \in OutTasks : \A p : Writing(u, p)' <=> Writing(u, p)
  BY DEF Writing, At, Others
<1>3. \A u \in OutTasks : \A p : Writing(u, p) => otask'[u] = otask[u]
  BY Zenon DEF Writing, Others
<1> SUFFICES ASSUME NEW p \in Pins \ crossed_out'
             PROVE  /\ PinLevel(p, chip) = wanted[p] \/ \E u \in OutTasks : Writing(u, p)'
                    /\ \A u \in OutTasks :
                          /\ Writing(u, p)' => otask'[u].arg = wanted[p]
                          /\ otask'[u].pc = "write" => (p \in otask'[u].seen <=> p \in chip)
  BY Zenon DEF PinInv, PinLevel
<1>4. p \in Pins \ crossed_out
  OBVIOUS
<1>5. /\ PinLevel(p, chip) = wanted[p] \/ \E u \in OutTasks : Writing(u, p)
      /\ \A u \in OutTasks :
            /\ Writing(u, p) => otask[u].arg = wanted[p]
            /\ otask[u].pc = "write" => (p \in otask[u].seen <=> p \in chip)
  BY Zenon, <1>4 DEF OutInv, PinInv
<1>6. PinLevel(p, chip) = wanted[p] \/ \E u \in OutTasks : Writing(u, p)'
  BY Zenon, <1>2, <1>5
<1>7. ASSUME NEW u \in OutTasks, Writing(u, p)' PROVE otask'[u].arg = wanted[p]
  BY Zenon, <1>2, <1>3, <1>5, <1>7
<1>8. ASSUME NEW u \in OutTasks, otask'[u].pc = "write"
      PROVE  p \in otask'[u].seen <=> p \in chip
  BY Zenon, <1>1, <1>5, <1>8
<1>. QED
  BY Zenon, <1>6, <1>7, <1>8

\* The light of a call is not that of another.
LEMMA KeepLight ==
  ASSUME OutInv, NEW t \in OutTasks, Others(t), crossed_out \subseteq crossed_out',
         NEW l \in Lights \ crossed_out', pwm'[l] = pwm[l], wanted'[l] = wanted[l],
         ~Fading(t, l), ~Fading(t, l)',
         At(t, l)' => otask'[t].pc \notin {"fade", "dim"}
  PROVE  /\ pwm'[l].state = wanted'[l]
         /\ Settled(l, pwm[l].duty)' \/ \E u \in OutTasks : Fading(u, l)'
         /\ \A u \in OutTasks : At(u, l)' =>
               /\ otask'[u].pc = "fade" => Settled(l, otask[u].arg)'
               /\ otask'[u].pc = "dim" => wanted'[l] = 1
<1>1. l \in Lights \ crossed_out
  OBVIOUS
<1>2. /\ pwm[l].state = wanted[l]
      /\ Settled(l, pwm[l].duty) \/ \E u \in OutTasks : Fading(u, l)
      /\ \A u \in OutTasks : At(u, l) =>
            /\ otask[u].pc = "fade" => Settled(l, otask[u].arg)
            /\ otask[u].pc = "dim" => wanted[l] = 1
  BY Zenon, <1>1 DEF OutInv, LightInv
<1>3. Settled(l, pwm[l].duty) => Settled(l, pwm[l].duty)'
  BY DEF Settled
<1>4. ASSUME NEW u \in OutTasks, u # t
      PROVE  /\ Fading(u, l) => Fading(u, l)'
             /\ At(u, l)' => At(u, l)
             /\ otask'[u] = otask[u]
             /\ Settled(l, otask[u].arg) => Settled(l, otask[u].arg)'
  BY <1>4 DEF Fading, At, Others, Settled
<1>5. \A u \in OutTasks : Fading(u, l) => Fading(u, l)'
  BY Zenon, <1>4
<1>6. ASSUME NEW u \in OutTasks, At(u, l)'
      PROVE  /\ otask'[u].pc = "fade" => Settled(l, otask[u].arg)'
             /\ otask'[u].pc = "dim" => wanted'[l] = 1
  BY <1>2, <1>4, <1>6
<1>. QED
  BY Zenon, <1>2, <1>3, <1>5, <1>6

\* A step that leaves a port's two flags alone keeps what DisableInv says of it.
LEMMA KeepDisable ==
  ASSUME OutInv, NEW t \in OutTasks, Others(t), crossed_out \subseteq crossed_out',
         NEW p \in Ports \ crossed_out',
         port'[p].active = port[p].active, port'[p].disable = port[p].disable,
         ~Disabling(t, p), ~Disabling(t, p)'
  PROVE  /\ (port'[p].disable <=> ~port'[p].active) \/ \E u \in OutTasks : Disabling(u, p)'
         /\ \A u \in OutTasks : Disabling(u, p)' => (otask'[u].arg = 0 <=> ~port'[p].active)
<1>1. p \in Ports \ crossed_out
  OBVIOUS
<1>2. /\ (port[p].disable <=> ~port[p].active) \/ \E u \in OutTasks : Disabling(u, p)
      /\ \A u \in OutTasks : Disabling(u, p) => (otask[u].arg = 0 <=> ~port[p].active)
  BY Zenon, <1>1 DEF OutInv, DisableInv
<1>3. \A u \in OutTasks : /\ Disabling(u, p)' <=> Disabling(u, p)
                          /\ Disabling(u, p) => otask'[u] = otask[u]
  BY Zenon DEF Disabling, At, Others
<1>. QED
  BY Zenon, <1>2, <1>3

\* Writing one pin changes the level of no other.
LEMMA PinLevels ==
  ASSUME NEW p, NEW h, NEW g
  PROVE  /\ PinLevel(p, h) \in {0, 1} /\ OutRead(p, h) \in {0, 1}
         /\ (p \in h <=> p \in g) => PinLevel(p, h) = PinLevel(p, g)
         /\ \A q, l : q # p => (q \in PinWritten(p, l, h) <=> q \in h)
BY DEF PinLevel, Level01, OutRead, PinWritten

\* A pin just written reads back at the level written.
LEMMA WrittenPin ==
  ASSUME NEW p, NEW h, NEW l \in {0, 1}
  PROVE  PinLevel(p, PinWritten(p, l, h)) = l
BY DEF PinLevel, Level01, PinWritten

\* What the sets of ports, pins, lights and colours have in common.
LEMMA OutSets ==
  /\ Ports = Pins \union Lights /\ Reversed \subseteq Pins
  /\ \A p : ~(p \in Pins /\ p \in Lights)
  /\ \A c \in Colors : c \in Nat /\ c # 0
  /\ MAX_DUTY \in Nat /\ MAX_DUTY # 0 /\ MaxCommands \in Nat
BY OutAssumption DEF Ports

\* What the invariants ask of a call.
Sound(e) ==
    /\ e.pc # "idle" => e.port \in Ports
    /\ e.pc \in {"read", "write", "back"} => e.port \in Pins /\ e.arg \in {0, 1}
    /\ e.pc \in {"fade", "check", "dim"} => e.port \in Lights
    /\ e.pc = "level" /\ e.op = "set" => e.arg \in {0, 1}
    /\ e.pc = "level" /\ e.op = "color" => e.port \in Lights /\ e.arg \in Colors
    /\ e.pc = "level" => e.op \in {"set", "toggle", "color"}

\* A step that leaves the moving task sound keeps CallInv.
LEMMA KeepSound ==
  ASSUME OutInv, NEW t \in OutTasks, Others(t), Sound(otask'[t])
  PROVE  CallInv'
<1>1. \A u \in OutTasks : Sound(otask[u])
  BY Zenon DEF OutInv, CallInv, Sound
<1>2. \A u \in OutTasks : Sound(otask'[u])
  BY Zenon, <1>1 DEF Others
<1>. QED
  BY Zenon, <1>2 DEF CallInv, Sound

\* Every task is sound.
LEMMA SoundTask ==
  ASSUME OutInv, NEW t \in OutTasks
  PROVE  Sound(otask[t])
BY Zenon DEF OutInv, CallInv, Sound

\* The types of the output variables, assembled from their parts.
LEMMA OutTypes ==
  ASSUME OutInv, NEW t \in OutTasks, otask' \in [OutTasks -> OutTask],
         chip' \subseteq Pins, pwm' \in [Lights -> LightState], port' \in [Ports -> PortState],
         wanted' \in [Ports -> {0, 1}], crossed_out' \subseteq Ports,
         commands' \in [OutTasks -> 0 .. MaxCommands]
  PROVE  OutTypeOK'
BY Zenon DEF OutTypeOK, OutTask, OutPcs, LightState, PortState

\* The types of the output variables before the step.
LEMMA OldTypes ==
  ASSUME OutInv
  PROVE  /\ otask \in [OutTasks -> OutTask]
         /\ chip \subseteq Pins /\ pwm \in [Lights -> LightState] /\ port \in [Ports -> PortState]
         /\ wanted \in [Ports -> {0, 1}] /\ crossed_out \subseteq Ports
         /\ commands \in [OutTasks -> 0 .. MaxCommands]
BY Zenon DEF OutInv, OutTypeOK, OutTask, OutPcs, LightState, PortState

\* A call begins: the task was idle, and calls that meet are noted.
LEMMA CallBegins ==
  ASSUME OutInv, NEW t \in OutTasks, NEW p \in Ports, NEW arg \in Nat,
         NEW op \in {"set", "toggle", "color", "active"}, NEW pc \in {"level", "disable"},
         OutCall(t, p, op, arg, pc),
         pc = "level" => op # "active", op = "set" => arg \in {0, 1},
         op = "color" => p \in Lights /\ arg \in Colors,
         UNCHANGED <<chip, pwm, wanted>>, port' \in [Ports -> PortState]
  PROVE  /\ OutTypeOK' /\ CallInv' /\ MetInv' /\ PinInv' /\ LightInv'
         /\ otask[t].pc = "idle" /\ Stepped(t, pc, p, op, arg, {}) /\ Others(t)
         /\ crossed_out \subseteq crossed_out'
         /\ \A u \in OutTasks \ {t} : At(u, p) => p \in crossed_out'
<1>1. otask[t].pc = "idle" /\ commands[t] < MaxCommands
  BY Zenon DEF OutCall
<1>2. Stepped(t, pc, p, op, arg, {}) /\ Others(t)
  <2>1. PICK e : e = [pc |-> pc, port |-> p, op |-> op, arg |-> arg, seen |-> {}]
    BY Zenon
  <2>2. /\ e \in OutTask /\ e.pc = pc /\ e.port = p /\ e.op = op /\ e.arg = arg /\ e.seen = {}
    BY <2>1 DEF OutTask, OutPcs
  <2>3. otask' = [otask EXCEPT ![t] = e]
    BY Zenon, <2>1 DEF OutCall
  <2>4. Stepped(t, e.pc, e.port, e.op, e.arg, e.seen)
    BY Zenon, <2>2, <2>3, NewTask DEF OutInv
  <2>. QED
    BY Zenon, <2>2, <2>4 DEF Stepped, Others
<1>3. crossed_out' = IF Meets(t, p) = {} THEN crossed_out
                     ELSE crossed_out \union Meets(t, p) \union {p}
  BY Zenon DEF OutCall
<1>4. \A u \in OutTasks \ {t} : otask[u].pc # "idle" /\ Together(otask[u].port, p)
                                    => otask[u].port \in Meets(t, p)
  BY DEF Meets
<1>5. /\ crossed_out \subseteq crossed_out'
      /\ \A u \in OutTasks \ {t} : otask[u].pc # "idle" /\ Together(otask[u].port, p)
                                       => otask[u].port \in crossed_out' /\ p \in crossed_out'
  BY <1>3, <1>4
<1>6. OutTypeOK'
  <2>1. commands' \in [OutTasks -> 0 .. MaxCommands]
    <3>1. commands[t] + 1 \in 0 .. MaxCommands /\ commands' = [commands EXCEPT ![t] = commands[t] + 1]
      BY <1>1, OldTypes, OutSets DEF OutCall
    <3>. QED
      BY <3>1, OldTypes
  <2>2. crossed_out' \subseteq Ports
    <3>1. \A u \in OutTasks : otask[u].pc # "idle" => otask[u].port \in Ports
      BY Zenon DEF OutInv, CallInv
    <3>2. Meets(t, p) \subseteq Ports
      BY <3>1 DEF Meets
    <3>. QED
      BY <1>3, <3>2, OldTypes
  <2>3. otask' \in [OutTasks -> OutTask]
    BY Zenon, <1>2 DEF Stepped
  <2>. QED
    BY Zenon, <2>1, <2>2, <2>3, OldTypes, OutTypes
<1>7. CallInv'
  <2>1. /\ otask'[t].pc = pc /\ otask'[t].port = p /\ otask'[t].op = op /\ otask'[t].arg = arg
    BY Zenon, <1>2 DEF Stepped
  <2>2. Sound(otask'[t])
    BY <2>1 DEF Sound
  <2>. QED
    BY Zenon, <1>2, <2>2, KeepSound
<1>8. MetInv'
  <2> SUFFICES ASSUME NEW u \in OutTasks, NEW v \in OutTasks, u # v,
                      otask'[u].pc # "idle", otask'[v].pc # "idle",
                      Together(otask'[u].port, otask'[v].port)
               PROVE  otask'[u].port \in crossed_out'
    BY Zenon DEF MetInv
  <2>1. CASE u = t
    <3>1. otask'[u].port = p /\ otask'[v] = otask[v]
      BY Zenon, <1>2, <2>1 DEF Stepped
    <3>2. Together(otask[v].port, p)
      BY <3>1 DEF Together
    <3>. QED
      BY Zenon, <1>5, <2>1, <3>1, <3>2
  <2>2. CASE v = t
    <3>1. otask'[v].port = p /\ otask'[u] = otask[u]
      BY Zenon, <1>2, <2>2 DEF Stepped
    <3>. QED
      BY Zenon, <1>5, <2>2, <3>1
  <2>3. CASE u # t /\ v # t
    <3>1. otask'[u] = otask[u] /\ otask'[v] = otask[v]
      BY Zenon, <1>2, <2>3 DEF Others
    <3>2. otask[u].port \in crossed_out
      BY Zenon, <3>1 DEF OutInv, MetInv
    <3>. QED
      BY Zenon, <1>5, <3>1, <3>2
  <2>. QED
    BY Zenon, <2>1, <2>2, <2>3
<1>9. otask'[t].pc \in {"level", "disable"}
  BY Zenon, <1>2 DEF Stepped
<1>10. PinInv'
  BY <1>1, <1>2, <1>5, <1>9, KeepPins
<1>11. LightInv'
  <2>1. \A l : ~Fading(t, l) /\ ~Fading(t, l)' /\ otask'[t].pc \notin {"fade", "dim"}
    BY <1>1, <1>9 DEF Fading
  <2>2. \A l \in Lights \ crossed_out' : pwm'[l] = pwm[l] /\ wanted'[l] = wanted[l]
    OBVIOUS
  <2>. QED
    BY Zenon, <1>2, <1>5, <2>1, <2>2, KeepLight DEF LightInv
<1>12. \A u \in OutTasks \ {t} : At(u, p) => p \in crossed_out'
  BY Zenon, <1>5 DEF At, Together
<1>. QED
  BY Zenon, <1>1, <1>2, <1>5, <1>6, <1>7, <1>8, <1>10, <1>11, <1>12

\* A call that leaves active and disable alone.
LEMMA CallKeeps ==
  ASSUME OutInv, NEW t \in OutTasks, NEW p \in Ports, NEW arg \in Nat,
         NEW op \in {"set", "toggle", "color"}, OutCall(t, p, op, arg, "level"),
         op = "set" => arg \in {0, 1}, op = "color" => p \in Lights /\ arg \in Colors,
         UNCHANGED <<chip, pwm, wanted>>, port' \in [Ports -> PortState],
         \A q \in Ports : port'[q].active = port[q].active /\ port'[q].disable = port[q].disable
  PROVE  OutInv'
<1>1. /\ op \in {"set", "toggle", "color", "active"} /\ op # "active"
      /\ "level" \in {"level", "disable"}
  OBVIOUS
<1>2. /\ OutTypeOK' /\ CallInv' /\ MetInv' /\ PinInv' /\ LightInv'
      /\ otask[t].pc = "idle" /\ Stepped(t, "level", p, op, arg, {}) /\ Others(t)
      /\ crossed_out \subseteq crossed_out'
  BY <1>1, CallBegins
<1>3. \A q : ~Disabling(t, q) /\ ~Disabling(t, q)'
  BY <1>2 DEF Disabling, Stepped
<1>4. DisableInv'
  BY Zenon, <1>2, <1>3, KeepDisable DEF DisableInv
<1>. QED
  BY Zenon, <1>2, <1>4 DEF OutInv

\* Setting a port's status keeps the invariant of the outputs.
LEMMA SetStatusStep ==
  ASSUME OutInv, NEW t \in OutTasks, NEW p \in Ports, NEW l \in {0, 1}, SetStatus(t, p, l)
  PROVE  OutInv'
<1>1. OutCall(t, p, "set", l, "level") /\ UNCHANGED <<chip, pwm, wanted>>
      /\ port' = [port EXCEPT ![p].status = (l = 1)]
  BY Zenon DEF SetStatus
<1>2. /\ port' \in [Ports -> PortState]
      /\ \A q \in Ports : port'[q].active = port[q].active /\ port'[q].disable = port[q].disable
  BY <1>1, OldTypes DEF PortState
<1>3. l \in Nat /\ "set" \in {"set", "toggle", "color"}
  OBVIOUS
<1>. QED
  BY <1>1, <1>2, <1>3, CallKeeps

\* Toggling a port keeps the invariant of the outputs.
LEMMA SetToggleStep ==
  ASSUME OutInv, NEW t \in OutTasks, NEW p \in Ports, SetToggle(t, p)
  PROVE  OutInv'
<1>1. OutCall(t, p, "toggle", 0, "level") /\ UNCHANGED <<chip, pwm, port, wanted>>
  BY Zenon DEF SetToggle
<1>2. /\ port' \in [Ports -> PortState]
      /\ \A q \in Ports : port'[q].active = port[q].active /\ port'[q].disable = port[q].disable
  BY <1>1, OldTypes
<1>3. 0 \in Nat /\ "toggle" \in {"set", "toggle", "color"}
  OBVIOUS
<1>. QED
  BY <1>1, <1>2, <1>3, CallKeeps

\* Setting a light's colour keeps the invariant of the outputs.
LEMMA SetColorStep ==
  ASSUME OutInv, NEW t \in OutTasks, NEW p \in Ports, NEW c \in Colors, SetColor(t, p, c)
  PROVE  OutInv'
<1>1. p \in Lights /\ OutCall(t, p, "color", c, "level") /\ UNCHANGED <<chip, pwm, port, wanted>>
  BY Zenon DEF SetColor
<1>2. /\ port' \in [Ports -> PortState]
      /\ \A q \in Ports : port'[q].active = port[q].active /\ port'[q].disable = port[q].disable
  BY <1>1, OldTypes
<1>3. c \in Nat /\ "color" \in {"set", "toggle", "color"}
  BY OutSets
<1>. QED
  BY <1>1, <1>2, <1>3, CallKeeps

\* Setting a port active keeps the invariant of the outputs.
LEMMA SetActiveStep ==
  ASSUME OutInv, NEW t \in OutTasks, NEW p \in Ports, NEW b \in BOOLEAN, SetActive(t, p, b)
  PROVE  OutInv'
<1>1. /\ OutCall(t, p, "active", Level01(b), "disable") /\ UNCHANGED <<chip, pwm, wanted>>
      /\ port' = [port EXCEPT ![p].active = b]
  BY Zenon DEF SetActive
<1>2. /\ port' \in [Ports -> PortState] /\ (port'[p].active <=> b)
      /\ \A q \in Ports : /\ q # p => port'[q].active = port[q].active
                          /\ port'[q].disable = port[q].disable
  BY <1>1, OldTypes DEF PortState
<1>3. /\ Level01(b) \in Nat /\ "active" \in {"set", "toggle", "color", "active"}
      /\ "disable" \in {"level", "disable"} /\ "disable" # "level" /\ (Level01(b) = 0 <=> ~b)
  BY DEF Level01
<1>4. /\ OutTypeOK' /\ CallInv' /\ MetInv' /\ PinInv' /\ LightInv'
      /\ otask[t].pc = "idle" /\ Stepped(t, "disable", p, "active", Level01(b), {}) /\ Others(t)
      /\ crossed_out \subseteq crossed_out'
      /\ \A u \in OutTasks \ {t} : At(u, p) => p \in crossed_out'
  BY <1>1, <1>2, <1>3, CallBegins
<1>5. /\ otask'[t].pc = "disable" /\ otask'[t].port = p /\ otask'[t].arg = Level01(b)
  BY Zenon, <1>4 DEF Stepped
<1>6. DisableInv'
  <2> SUFFICES ASSUME NEW q \in Ports \ crossed_out'
               PROVE  /\ \/ port'[q].disable <=> ~port'[q].active
                         \/ \E u \in OutTasks : Disabling(u, q)'
                      /\ \A u \in OutTasks : Disabling(u, q)' => (otask'[u].arg = 0 <=> ~port'[q].active)
    BY Zenon DEF DisableInv
  <2>1. CASE q = p
    <3>1. Disabling(t, q)'
      BY <1>5, <2>1 DEF Disabling, At
    <3>2. ASSUME NEW u \in OutTasks, Disabling(u, q)' PROVE u = t
      BY Zenon, <1>4, <2>1, <3>2 DEF Disabling, At, Others
    <3>. QED
      BY Zenon, <1>2, <1>3, <1>5, <2>1, <3>1, <3>2
  <2>2. CASE q # p
    <3>1. ~Disabling(t, q) /\ ~Disabling(t, q)'
      BY <1>4, <1>5, <2>2 DEF Disabling, At
    <3>. QED
      BY <1>2, <1>4, <2>2, <3>1, KeepDisable
  <2>. QED
    BY Zenon, <2>1, <2>2
<1>. QED
  BY Zenon, <1>4, <1>6 DEF OutInv

\* A step in a call after its start: what is left to show when nothing is noted
\* and the step ends no disabling.
LEMMA CallGoes ==
  ASSUME OutInv, NEW t \in OutTasks, Others(t), otask' \in [OutTasks -> OutTask],
         \/ otask'[t].pc = "idle"
         \/ otask[t].pc # "idle" /\ otask'[t].port = otask[t].port /\ Sound(otask'[t]),
         crossed_out \subseteq crossed_out', crossed_out' \subseteq Ports, UNCHANGED commands
  PROVE  /\ CallInv' /\ MetInv'
         /\ chip' \subseteq Pins /\ pwm' \in [Lights -> LightState] /\ wanted' \in [Ports -> {0, 1}]
            /\ port' \in [Ports -> PortState] => OutTypeOK'
         /\ otask[t].pc # "disable" /\ otask'[t].pc # "disable" /\ port' \in [Ports -> PortState]
            /\ (\A q \in Ports : port'[q].active = port[q].active /\ port'[q].disable = port[q].disable)
               => DisableInv'
<1>1. Sound(otask'[t])
  BY Zenon DEF Sound
<1>2. CallInv'
  BY Zenon, <1>1, KeepSound
<1>3. MetInv'
  BY Zenon, KeepMet
<1>4. ASSUME chip' \subseteq Pins, pwm' \in [Lights -> LightState], wanted' \in [Ports -> {0, 1}],
             port' \in [Ports -> PortState]
      PROVE  OutTypeOK'
  <2>1. commands' \in [OutTasks -> 0 .. MaxCommands]
    BY Zenon, OldTypes
  <2>. QED
    BY Zenon, <1>4, <2>1, OutTypes
<1>5. ASSUME otask[t].pc # "disable", otask'[t].pc # "disable",
             \A q \in Ports : port'[q].active = port[q].active /\ port'[q].disable = port[q].disable
      PROVE  DisableInv'
  <2>1. \A q : ~Disabling(t, q) /\ ~Disabling(t, q)'
    BY <1>5 DEF Disabling
  <2>. QED
    BY Zenon, <1>5, <2>1, KeepDisable DEF DisableInv
<1>. QED
  BY Zenon, <1>2, <1>3, <1>4, <1>5

\* A step that writes no light, outside a fade, keeps LightInv.
LEMMA KeepLights ==
  ASSUME OutInv, NEW t \in OutTasks, Others(t), crossed_out \subseteq crossed_out', UNCHANGED pwm,
         \A l \in Lights : wanted'[l] = wanted[l],
         otask[t].pc \notin {"fade", "check", "dim"}, otask'[t].pc \notin {"fade", "check", "dim"}
  PROVE  LightInv'
<1>1. \A l : ~Fading(t, l) /\ ~Fading(t, l)' /\ otask'[t].pc \notin {"fade", "dim"}
  BY DEF Fading
<1>2. \A l \in Lights \ crossed_out' : pwm'[l] = pwm[l] /\ wanted'[l] = wanted[l]
  BY Zenon
<1>. QED
  BY Zenon, <1>1, <1>2, KeepLight DEF LightInv

\* A return moves one task, to idle.
LEMMA ReturnsIdle ==
  ASSUME OutInv, NEW t \in OutTasks, OutReturn(t)
  PROVE  otask' \in [OutTasks -> OutTask] /\ Others(t) /\ otask'[t].pc = "idle"
BY Zenon, Returns DEF OutInv, Stepped, Others

\* The end of an activation, which sets the disabled flag, keeps the invariant of
\* the outputs.
LEMMA SetDisableStep ==
  ASSUME OutInv, NEW t \in OutTasks, SetDisableOut(t)
  PROVE  OutInv'
<1>1. PICK p : p = otask[t].port
  BY Zenon
<1>2. /\ otask[t].pc = "disable" /\ OutReturn(t) /\ UNCHANGED <<chip, pwm, wanted, crossed_out, commands>>
      /\ port' = [port EXCEPT ![p].disable = (otask[t].arg = 0)]
  BY Zenon, <1>1 DEF SetDisableOut
<1>3. otask' \in [OutTasks -> OutTask] /\ Others(t) /\ otask'[t].pc = "idle"
  BY Zenon, <1>2, ReturnsIdle
<1>4. p \in Ports /\ crossed_out' \subseteq Ports /\ crossed_out \subseteq crossed_out'
  <2>1. p \in Ports
    BY <1>1, <1>2, SoundTask DEF Sound
  <2>. QED
    BY Zenon, <1>2, <2>1, OldTypes
<1>5. /\ port' \in [Ports -> PortState] /\ (port'[p].disable <=> otask[t].arg = 0)
      /\ \A q \in Ports : /\ q # p => port'[q].disable = port[q].disable
                          /\ port'[q].active = port[q].active
  <2>1. PICK v \in BOOLEAN : v = (otask[t].arg = 0)
    BY Zenon
  <2>2. port' = [port EXCEPT ![p].disable = v]
    BY Zenon, <1>2, <2>1
  <2>3. /\ port' \in [Ports -> PortState] /\ (port'[p].disable <=> v)
        /\ \A q \in Ports : /\ q # p => port'[q].disable = port[q].disable
                            /\ port'[q].active = port[q].active
    BY <1>4, <2>2, OldTypes DEF PortState
  <2>. QED
    BY Zenon, <2>1, <2>3
<1>6. CallInv' /\ MetInv' /\ OutTypeOK'
  <2>1. chip' \subseteq Pins /\ pwm' \in [Lights -> LightState] /\ wanted' \in [Ports -> {0, 1}]
    BY Zenon, <1>2, OldTypes
  <2>2. UNCHANGED commands
    BY Zenon, <1>2
  <2>. QED
    BY Zenon, <1>3, <1>4, <1>5, <2>1, <2>2, CallGoes
<1>7. PinInv'
  BY <1>2, <1>3, <1>4, KeepPins
<1>8. LightInv'
  BY <1>2, <1>3, <1>4, KeepLights
<1>9. DisableInv'
  <2> SUFFICES ASSUME NEW q \in Ports \ crossed_out'
               PROVE  /\ \/ port'[q].disable <=> ~port'[q].active
                         \/ \E u \in OutTasks : Disabling(u, q)'
                      /\ \A u \in OutTasks : Disabling(u, q)' => (otask'[u].arg = 0 <=> ~port'[q].active)
    BY Zenon DEF DisableInv
  <2>1. CASE q = p
    <3>1. Disabling(t, p) /\ p \in Ports \ crossed_out
      BY <1>1, <1>2, <2>1 DEF Disabling, At
    <3>2. otask[t].arg = 0 <=> ~port[p].active
      BY Zenon, <3>1 DEF OutInv, DisableInv
    <3>3. ASSUME NEW u \in OutTasks, Disabling(u, q)' PROVE FALSE
      <4>1. u # t /\ otask'[u] = otask[u]
        BY <1>3, <3>3 DEF Disabling, At, Others
      <4>2. otask[u].pc # "idle" /\ otask[u].port = p
        BY Zenon, <2>1, <3>3, <4>1 DEF Disabling, At
      <4>3. Together(otask[t].port, otask[u].port)
        BY Zenon, <1>1, <4>2 DEF Together
      <4>. QED
        BY <1>1, <1>2, <2>1, <4>1, <4>2, <4>3, Noted
    <3>. QED
      BY Zenon, <1>4, <1>5, <2>1, <3>2, <3>3
  <2>2. CASE q # p
    <3>1. ~Disabling(t, q) /\ ~Disabling(t, q)'
      BY <1>1, <1>3, <2>2 DEF Disabling, At
    <3>. QED
      BY <1>3, <1>4, <1>5, <2>2, <3>1, KeepDisable
  <2>. QED
    BY Zenon, <2>1, <2>2
<1>. QED
  BY Zenon, <1>6, <1>7, <1>8, <1>9 DEF OutInv

\* A call on a disabled port keeps the invariant of the outputs.
LEMMA OutDisabledStep ==
  ASSUME OutInv, NEW t \in OutTasks, OutDisabled(t)
  PROVE  OutInv'
<1>1. PICK p : p = otask[t].port
  BY Zenon
<1>2. /\ otask[t].pc = "level" /\ OutReturn(t) /\ UNCHANGED <<chip, pwm, wanted, crossed_out, commands>>
      /\ port' = IF otask[t].op = "color" THEN port ELSE [port EXCEPT ![p].status = TRUE]
  BY Zenon, <1>1 DEF OutDisabled
<1>3. otask' \in [OutTasks -> OutTask] /\ Others(t) /\ otask'[t].pc = "idle"
  BY Zenon, <1>2, ReturnsIdle
<1>4. crossed_out' \subseteq Ports /\ crossed_out \subseteq crossed_out'
  BY Zenon, <1>2, OldTypes
<1>5. /\ port' \in [Ports -> PortState]
      /\ \A q \in Ports : port'[q].active = port[q].active /\ port'[q].disable = port[q].disable
  BY <1>2, OldTypes DEF PortState
<1>6. CallInv' /\ MetInv' /\ OutTypeOK' /\ DisableInv'
  <2>1. chip' \subseteq Pins /\ pwm' \in [Lights -> LightState] /\ wanted' \in [Ports -> {0, 1}]
        /\ UNCHANGED commands
    BY Zenon, <1>2, OldTypes
  <2>2. otask[t].pc # "disable" /\ otask'[t].pc # "disable"
    BY <1>2, <1>3
  <2>. QED
    BY Zenon, <1>3, <1>4, <1>5, <2>1, <2>2, CallGoes
<1>7. PinInv'
  BY <1>2, <1>3, <1>4, KeepPins
<1>8. LightInv'
  BY <1>2, <1>3, <1>4, KeepLights
<1>. QED
  BY Zenon, <1>6, <1>7, <1>8 DEF OutInv

\* Entering a pin's write keeps the invariant of the outputs.
LEMMA PinEnterStep ==
  ASSUME OutInv, NEW t \in OutTasks, PinEnter(t)
  PROVE  OutInv'
<1>1. PICK p : p = otask[t].port
  BY Zenon
<1>2. PICK a : a = IF otask[t].op = "toggle" THEN 1 - OutRead(p, chip) ELSE otask[t].arg
  BY Zenon
<1>3. /\ otask[t].pc = "level" /\ p \in Pins /\ UNCHANGED <<chip, pwm, port, crossed_out, commands>>
      /\ otask' = [otask EXCEPT ![t].pc = "read", ![t].arg = a]
      /\ wanted' = [wanted EXCEPT ![p] = otask'[t].arg]
  BY <1>1, <1>2 DEF PinEnter
<1>4. a \in {0, 1} /\ a \in Nat /\ otask[t].seen \in SUBSET Pins /\ "read" \in OutPcs
  <2>1. otask[t].op = "toggle" \/ otask[t].arg \in {0, 1}
    BY <1>1, <1>3, SoundTask, OutSets DEF Sound
  <2>2. OutRead(p, chip) \in {0, 1}
    BY PinLevels
  <2>. QED
    BY <1>2, <2>1, <2>2, TaskFields DEF OutPcs, OutInv
<1>5. Stepped(t, "read", p, otask[t].op, a, otask[t].seen)
  BY <1>1, <1>3, <1>4, Goes DEF OutInv
<1>6. /\ otask' \in [OutTasks -> OutTask] /\ Others(t)
      /\ otask'[t].pc = "read" /\ otask'[t].port = p /\ otask'[t].arg = a
  BY Zenon, <1>5 DEF Stepped, Others
<1>7. crossed_out' \subseteq Ports /\ crossed_out \subseteq crossed_out' /\ p \in Ports
  BY <1>3, OldTypes, OutSets
<1>8. /\ wanted' \in [Ports -> {0, 1}] /\ wanted'[p] = a
      /\ \A q \in Ports : q # p => wanted'[q] = wanted[q]
  BY <1>3, <1>4, <1>6, <1>7, OldTypes
<1>9. CallInv' /\ MetInv' /\ OutTypeOK' /\ DisableInv'
  <2>1. chip' \subseteq Pins /\ pwm' \in [Lights -> LightState] /\ port' \in [Ports -> PortState]
        /\ UNCHANGED commands
    BY Zenon, <1>3, OldTypes
  <2>2. otask[t].pc # "disable" /\ otask'[t].pc # "disable" /\ otask[t].pc # "idle"
    BY <1>3, <1>6
  <2>3. Sound(otask'[t])
    BY <1>3, <1>4, <1>6, <1>7 DEF Sound
  <2>4. \A q \in Ports : port'[q].active = port[q].active /\ port'[q].disable = port[q].disable
    BY Zenon, <1>3
  <2>. QED
    BY Zenon, <1>1, <1>6, <1>7, <1>8, <2>1, <2>2, <2>3, <2>4, CallGoes
<1>10. PinInv'
  <2> SUFFICES ASSUME NEW q \in Pins \ crossed_out'
               PROVE  /\ PinLevel(q, chip) = wanted'[q] \/ \E u \in OutTasks : Writing(u, q)'
                      /\ \A u \in OutTasks :
                            /\ Writing(u, q)' => otask'[u].arg = wanted'[q]
                            /\ otask'[u].pc = "write" => (q \in otask'[u].seen <=> q \in chip)
    BY Zenon, <1>3 DEF PinInv, PinLevel
  <2>1. q \in Pins \ crossed_out
    BY Zenon, <1>7
  <2>2. /\ PinLevel(q, chip) = wanted[q] \/ \E u \in OutTasks : Writing(u, q)
        /\ \A u \in OutTasks :
              /\ Writing(u, q) => otask[u].arg = wanted[q]
              /\ otask[u].pc = "write" => (q \in otask[u].seen <=> q \in chip)
    BY Zenon, <2>1 DEF OutInv, PinInv
  <2>3. ASSUME NEW u \in OutTasks, otask'[u].pc = "write" PROVE q \in otask'[u].seen <=> q \in chip
    <3>1. otask'[u] = otask[u]
      BY <1>6, <2>3 DEF Others
    <3>. QED
      BY Zenon, <2>2, <2>3, <3>1
  <2>4. CASE q = p
    <3>1. Writing(t, q)'
      BY <1>6, <2>4 DEF Writing, At
    <3>2. ASSUME NEW u \in OutTasks, Writing(u, q)' PROVE u = t
      <4>1. SUFFICES ASSUME u # t PROVE FALSE
        BY Zenon
      <4>2. otask[u].pc # "idle" /\ otask[u].port = p
        BY Zenon, <1>6, <2>4, <3>2, <4>1 DEF Writing, At, Others
      <4>3. Together(otask[t].port, otask[u].port) /\ otask[t].pc # "idle"
        BY <1>1, <1>3, <4>2 DEF Together
      <4>. QED
        BY Zenon, <1>1, <2>1, <2>4, <4>1, <4>2, <4>3, Noted
    <3>. QED
      BY Zenon, <1>6, <1>8, <2>3, <2>4, <3>1, <3>2
  <2>5. CASE q # p
    <3>1. \A u \in OutTasks : /\ Writing(u, q)' <=> Writing(u, q)
                              /\ Writing(u, q)' => otask'[u] = otask[u]
      BY <1>1, <1>3, <1>6, <2>5 DEF Writing, At, Others
    <3>2. wanted'[q] = wanted[q]
      BY <1>8, <2>5, OutSets
    <3>. QED
      BY Zenon, <2>2, <2>3, <3>1, <3>2
  <2>. QED
    BY Zenon, <2>4, <2>5
<1>11. LightInv'
  <2>1. \A l \in Lights : wanted'[l] = wanted[l]
    BY <1>3, <1>8, OutSets
  <2>. QED
    BY <1>3, <1>6, <1>7, <2>1, KeepLights
<1>. QED
  BY Zenon, <1>9, <1>10, <1>11 DEF OutInv

\* The calls at the pins of the expander meet, whatever their pins.
LEMMA PinsMeet ==
  ASSUME OutInv, NEW t \in OutTasks, otask[t].pc # "idle", otask[t].port \in Pins,
         NEW u \in OutTasks, u # t, otask[u].pc # "idle", otask[u].port \in Pins
  PROVE  otask[t].port \in crossed_out /\ otask[u].port \in crossed_out
<1>1. Together(otask[t].port, otask[u].port)
  BY DEF Together
<1>. QED
  BY Zenon, <1>1, Noted

\* Reading the expander's register keeps the invariant of the outputs.
LEMMA PinReadStep ==
  ASSUME OutInv, NEW t \in OutTasks, PinRead(t)
  PROVE  OutInv'
<1>1. PICK p : p = otask[t].port
  BY Zenon
<1>2. /\ otask[t].pc = "read" /\ UNCHANGED <<chip, pwm, port, wanted, crossed_out, commands>>
      /\ otask' = [otask EXCEPT ![t].pc = "write", ![t].seen = chip]
  BY Zenon DEF PinRead
<1>3. p \in Pins /\ p \in Ports /\ otask[t].arg \in {0, 1} /\ otask[t].arg \in Nat /\ chip \in SUBSET Pins
      /\ "write" \in OutPcs
  BY <1>1, <1>2, SoundTask, OldTypes, OutSets DEF Sound, OutPcs
<1>4. Stepped(t, "write", p, otask[t].op, otask[t].arg, chip)
  BY <1>1, <1>2, <1>3, Goes DEF OutInv
<1>5. /\ otask' \in [OutTasks -> OutTask] /\ Others(t)
      /\ otask'[t].pc = "write" /\ otask'[t].port = p /\ otask'[t].arg = otask[t].arg
      /\ otask'[t].seen = chip
  BY Zenon, <1>4 DEF Stepped, Others
<1>6. crossed_out' \subseteq Ports /\ crossed_out \subseteq crossed_out'
  BY Zenon, <1>2, OldTypes
<1>7. CallInv' /\ MetInv' /\ OutTypeOK' /\ DisableInv'
  <2>1. chip' \subseteq Pins /\ pwm' \in [Lights -> LightState] /\ port' \in [Ports -> PortState]
        /\ wanted' \in [Ports -> {0, 1}] /\ UNCHANGED commands
    BY Zenon, <1>2, OldTypes
  <2>2. otask[t].pc # "disable" /\ otask'[t].pc # "disable" /\ otask[t].pc # "idle"
    BY <1>2, <1>5
  <2>3. Sound(otask'[t])
    BY <1>3, <1>5 DEF Sound
  <2>4. \A q \in Ports : port'[q].active = port[q].active /\ port'[q].disable = port[q].disable
    BY Zenon, <1>2
  <2>. QED
    BY Zenon, <1>1, <1>5, <1>6, <2>1, <2>2, <2>3, <2>4, CallGoes
<1>8. PinInv'
  <2> SUFFICES ASSUME NEW q \in Pins \ crossed_out
               PROVE  /\ PinLevel(q, chip) = wanted[q] \/ \E u \in OutTasks : Writing(u, q)'
                      /\ \A u \in OutTasks :
                            /\ Writing(u, q)' => otask'[u].arg = wanted[q]
                            /\ otask'[u].pc = "write" => (q \in otask'[u].seen <=> q \in chip)
    BY Zenon, <1>2 DEF PinInv, PinLevel
  <2>1. /\ PinLevel(q, chip) = wanted[q] \/ \E u \in OutTasks : Writing(u, q)
        /\ \A u \in OutTasks :
              /\ Writing(u, q) => otask[u].arg = wanted[q]
              /\ otask[u].pc = "write" => (q \in otask[u].seen <=> q \in chip)
    BY Zenon DEF OutInv, PinInv
  <2>2. ASSUME NEW u \in OutTasks
        PROVE  (Writing(u, q)' <=> Writing(u, q)) /\ otask'[u].arg = otask[u].arg
    <3>1. CASE u = t
      BY <1>1, <1>2, <1>5, <3>1 DEF Writing, At
    <3>2. CASE u # t
      BY Zenon, <1>5, <3>2 DEF Writing, At, Others
    <3>. QED
      BY Zenon, <3>1, <3>2
  <2>3. ASSUME NEW u \in OutTasks, otask'[u].pc = "write"
        PROVE  q \in otask'[u].seen <=> q \in chip
    BY Zenon, <1>5, <2>1, <2>3 DEF Others
  <2>. QED
    BY Zenon, <2>1, <2>2, <2>3
<1>9. LightInv'
  BY <1>2, <1>5, <1>6, KeepLights
<1>. QED
  BY Zenon, <1>7, <1>8, <1>9 DEF OutInv

\* Writing the register back keeps the invariant of the outputs.
LEMMA PinWriteStep ==
  ASSUME OutInv, NEW t \in OutTasks, PinWrite(t)
  PROVE  OutInv'
<1>1. PICK p : p = otask[t].port
  BY Zenon
<1>2. /\ otask[t].pc = "write" /\ UNCHANGED <<pwm, wanted, crossed_out, commands>>
      /\ chip' = PinWritten(p, otask[t].arg, otask[t].seen)
      /\ \/ OutReturn(t) /\ port' = [port EXCEPT ![p].status = (otask[t].arg = 1)]
         \/ Goto(t, "back") /\ UNCHANGED port
  BY Zenon, <1>1 DEF PinWrite
<1>3. p \in Pins /\ p \in Ports /\ otask[t].arg \in {0, 1} /\ otask[t].arg \in Nat /\ "back" \in OutPcs
      /\ otask[t].seen \in SUBSET Pins
  BY <1>1, <1>2, SoundTask, TaskFields, OutSets DEF Sound, OutPcs, OutInv
<1>4. /\ otask' \in [OutTasks -> OutTask] /\ Others(t)
      /\ \/ otask'[t].pc = "idle"
         \/ otask'[t].pc = "back" /\ otask'[t].port = p /\ otask'[t].arg = otask[t].arg
  <2>1. CASE OutReturn(t)
    BY Zenon, <2>1, ReturnsIdle
  <2>2. CASE Goto(t, "back")
    <3>1. Stepped(t, "back", p, otask[t].op, otask[t].arg, otask[t].seen)
      BY <1>1, <1>3, <2>2, Goes DEF OutInv, Goto
    <3>. QED
      BY Zenon, <3>1 DEF Stepped, Others
  <2>. QED
    BY Zenon, <1>2, <2>1, <2>2
<1>5. crossed_out' \subseteq Ports /\ crossed_out \subseteq crossed_out'
  BY Zenon, <1>2, OldTypes
<1>6. /\ port' \in [Ports -> PortState]
      /\ \A q \in Ports : port'[q].active = port[q].active /\ port'[q].disable = port[q].disable
  <2>1. CASE port' = [port EXCEPT ![p].status = (otask[t].arg = 1)]
    <3>1. PICK v \in BOOLEAN : v = (otask[t].arg = 1)
      BY Zenon
    <3>2. port' = [port EXCEPT ![p].status = v]
      BY Zenon, <2>1, <3>1
    <3>. QED
      BY <3>2, OldTypes DEF PortState
  <2>2. CASE UNCHANGED port
    BY Zenon, <2>2, OldTypes
  <2>. QED
    BY Zenon, <1>2, <2>1, <2>2
<1>7. CallInv' /\ MetInv' /\ OutTypeOK' /\ DisableInv'
  <2>1. chip' \subseteq Pins
    BY <1>2, <1>3 DEF PinWritten
  <2>2. pwm' \in [Lights -> LightState] /\ wanted' \in [Ports -> {0, 1}] /\ UNCHANGED commands
    BY Zenon, <1>2, OldTypes
  <2>3. otask[t].pc # "disable" /\ otask'[t].pc # "disable" /\ otask[t].pc # "idle"
    BY <1>2, <1>4
  <2>4. otask'[t].pc = "idle" \/ (otask'[t].port = otask[t].port /\ Sound(otask'[t]))
    BY <1>1, <1>3, <1>4 DEF Sound
  <2>. QED
    BY Zenon, <1>4, <1>5, <1>6, <2>1, <2>2, <2>3, <2>4, CallGoes
<1>8. PinInv'
  <2> SUFFICES ASSUME NEW q \in Pins \ crossed_out
               PROVE  /\ PinLevel(q, chip') = wanted[q]
                      /\ \A u \in OutTasks :
                            /\ Writing(u, q)' => otask'[u].arg = wanted[q]
                            /\ otask'[u].pc = "write" => (q \in otask'[u].seen <=> q \in chip')
    BY Zenon, <1>2 DEF PinInv, PinLevel
  <2>1. /\ PinLevel(q, chip) = wanted[q] \/ \E u \in OutTasks : Writing(u, q)
        /\ \A u \in OutTasks :
              /\ Writing(u, q) => otask[u].arg = wanted[q]
              /\ otask[u].pc = "write" => (q \in otask[u].seen <=> q \in chip)
    BY Zenon DEF OutInv, PinInv
  <2>2. q # p => (q \in chip' <=> q \in chip)
    BY <1>2, <2>1 DEF PinWritten
  <2>3. \A u \in OutTasks : Writing(u, q) /\ u # t => FALSE
    <3> SUFFICES ASSUME NEW u \in OutTasks, Writing(u, q), u # t PROVE FALSE
      BY Zenon
    <3>1. otask[u].pc # "idle" /\ otask[u].port = q /\ otask[t].pc # "idle"
      BY <1>2 DEF Writing, At
    <3>. QED
      BY Zenon, <1>1, <1>3, <3>1, PinsMeet
  <2>4. PinLevel(q, chip') = wanted[q]
    <3>1. CASE q = p
      <4>1. Writing(t, q)
        BY <1>1, <1>2, <3>1 DEF Writing, At
      <4>2. otask[t].arg = wanted[q]
        BY Zenon, <2>1, <4>1
      <4>. QED
        BY <1>2, <1>3, <3>1, <4>2, WrittenPin
    <3>2. CASE q # p
      <4>1. ~Writing(t, q)
        BY Zenon, <1>1, <3>2 DEF Writing, At
      <4>2. PinLevel(q, chip) = wanted[q]
        BY Zenon, <2>1, <2>3, <4>1
      <4>. QED
        BY <2>2, <3>2, <4>2, PinLevels
    <3>. QED
      BY Zenon, <3>1, <3>2
  <2>5. ASSUME NEW u \in OutTasks, otask'[u].pc = "write"
        PROVE  q \in otask'[u].seen <=> q \in chip'
    <3>1. u # t /\ otask'[u] = otask[u] /\ otask[u].pc = "write"
      BY <1>4, <2>5 DEF Others
    <3>2. otask[u].port \in Pins /\ otask[u].pc # "idle" /\ otask[t].pc # "idle"
      BY <1>2, <3>1, SoundTask DEF Sound
    <3>3. p \in crossed_out
      BY Zenon, <1>1, <1>3, <3>1, <3>2, PinsMeet
    <3>4. q # p
      BY Zenon, <3>3
    <3>. QED
      BY Zenon, <2>1, <2>2, <3>1, <3>4
  <2>6. ASSUME NEW u \in OutTasks, Writing(u, q)' PROVE FALSE
    <3>1. u # t /\ otask'[u] = otask[u]
      BY <1>4, <2>6 DEF Others, Writing
    <3>2. Writing(u, q)
      BY Zenon, <2>6, <3>1 DEF Writing, At
    <3>. QED
      BY Zenon, <2>3, <3>1, <3>2
  <2>. QED
    BY Zenon, <2>4, <2>5, <2>6
<1>9. LightInv'
  <2>1. otask[t].pc \notin {"fade", "check", "dim"} /\ otask'[t].pc \notin {"fade", "check", "dim"}
    BY <1>2, <1>4
  <2>2. UNCHANGED pwm /\ \A l \in Lights : wanted'[l] = wanted[l]
    BY Zenon, <1>2
  <2>. QED
    BY Zenon, <1>4, <1>5, <2>1, <2>2, KeepLights
<1>. QED
  BY Zenon, <1>7, <1>8, <1>9 DEF OutInv

\* Reading the pin back keeps the invariant of the outputs.
LEMMA PinReadBackStep ==
  ASSUME OutInv, NEW t \in OutTasks, PinReadBack(t)
  PROVE  OutInv'
<1>1. PICK p : p = otask[t].port
  BY Zenon
<1>2. PICK high \in {chip, {}} :
        /\ otask[t].pc = "back" /\ OutReturn(t) /\ UNCHANGED <<chip, pwm, wanted, commands>>
        /\ port' = [port EXCEPT ![p].status = (OutRead(p, high) = 1)]
        /\ crossed_out' = IF high = chip THEN crossed_out ELSE crossed_out \union {p}
  BY Zenon, <1>1 DEF PinReadBack
<1>3. otask' \in [OutTasks -> OutTask] /\ Others(t) /\ otask'[t].pc = "idle"
  BY Zenon, <1>2, ReturnsIdle
<1>4. crossed_out' \subseteq Ports /\ crossed_out \subseteq crossed_out'
  <2>1. p \in Ports
    BY <1>1, <1>2, SoundTask DEF Sound
  <2>. QED
    BY <1>2, <2>1, OldTypes
<1>5. /\ port' \in [Ports -> PortState]
      /\ \A q \in Ports : port'[q].active = port[q].active /\ port'[q].disable = port[q].disable
  <2>1. PICK v \in BOOLEAN : v = (OutRead(p, high) = 1)
    BY Zenon
  <2>2. port' = [port EXCEPT ![p].status = v]
    BY Zenon, <1>2, <2>1
  <2>. QED
    BY <2>2, OldTypes DEF PortState
<1>6. CallInv' /\ MetInv' /\ OutTypeOK' /\ DisableInv'
  <2>1. chip' \subseteq Pins /\ pwm' \in [Lights -> LightState] /\ wanted' \in [Ports -> {0, 1}]
        /\ UNCHANGED commands
    BY Zenon, <1>2, OldTypes
  <2>2. otask[t].pc # "disable" /\ otask'[t].pc # "disable"
    BY <1>2, <1>3
  <2>. QED
    BY Zenon, <1>3, <1>4, <1>5, <2>1, <2>2, CallGoes
<1>7. PinInv'
  BY <1>2, <1>3, <1>4, KeepPins
<1>8. LightInv'
  BY <1>2, <1>3, <1>4, KeepLights
<1>. QED
  BY Zenon, <1>6, <1>7, <1>8 DEF OutInv

\* A step of the one call at a light keeps the others; it is enough to look at
\* its light, when no call met with it there.
LEMMA AloneAt ==
  ASSUME OutInv, NEW t \in OutTasks, NEW p, p = otask[t].port, otask[t].pc # "idle",
         p \notin crossed_out, NEW u \in OutTasks, At(u, p)
  PROVE  u = t
<1>1. Together(otask[t].port, otask[u].port)
  BY Zenon DEF At, Together
<1>. QED
  BY Zenon, <1>1, Noted DEF At

\* A call that moves on one light, and leaves it as wanted or fading, keeps
\* LightInv.
LEMMA LightMoves ==
  ASSUME OutInv, NEW t \in OutTasks, NEW p \in Lights, p = otask[t].port, otask[t].pc # "idle",
         Others(t), UNCHANGED crossed_out,
         otask'[t].pc = "idle" \/ otask'[t].port = p,
         \A l \in Lights \ {p} : pwm'[l] = pwm[l] /\ wanted'[l] = wanted[l],
         p \notin crossed_out =>
            /\ pwm'[p].state = wanted'[p]
            /\ Settled(p, pwm[p].duty)' \/ Fading(t, p)'
            /\ otask'[t].pc = "fade" => Settled(p, otask[t].arg)'
            /\ otask'[t].pc = "dim" => wanted'[p] = 1
  PROVE  LightInv'
<1> SUFFICES ASSUME NEW l \in Lights \ crossed_out'
             PROVE  /\ pwm'[l].state = wanted'[l]
                    /\ Settled(l, pwm[l].duty)' \/ \E u \in OutTasks : Fading(u, l)'
                    /\ \A u \in OutTasks : At(u, l)' =>
                          /\ otask'[u].pc = "fade" => Settled(l, otask[u].arg)'
                          /\ otask'[u].pc = "dim" => wanted'[l] = 1
  BY Zenon DEF LightInv
<1>1. CASE l = p
  <2>1. ASSUME NEW u \in OutTasks, At(u, p)' PROVE u = t
    <3>1. u # t => At(u, p)
      BY Zenon, <2>1 DEF At, Others
    <3>. QED
      BY Zenon, <1>1, <3>1, AloneAt
  <2>. QED
    BY Zenon, <1>1, <2>1
<1>2. CASE l # p
  <2>1. ~Fading(t, l) /\ ~Fading(t, l)' /\ ~At(t, l)'
    BY Zenon, <1>2 DEF Fading, At
  <2>2. crossed_out \subseteq crossed_out' /\ pwm'[l] = pwm[l] /\ wanted'[l] = wanted[l]
    BY Zenon, <1>2
  <2>. QED
    BY Zenon, <2>1, <2>2, KeepLight
<1>. QED
  BY Zenon, <1>1, <1>2

\* A light under way with no crossing is as wanted and settled, or fading.
LEMMA LightOld ==
  ASSUME OutInv, NEW t \in OutTasks, NEW p \in Lights, p = otask[t].port, otask[t].pc # "idle",
         p \notin crossed_out
  PROVE  /\ pwm[p].state = wanted[p]
         /\ Settled(p, pwm[p].duty) \/ Fading(t, p)
         /\ otask[t].pc = "fade" => Settled(p, otask[t].arg)
         /\ otask[t].pc = "dim" => wanted[p] = 1
<1>1. /\ pwm[p].state = wanted[p]
      /\ Settled(p, pwm[p].duty) \/ \E u \in OutTasks : Fading(u, p)
      /\ \A u \in OutTasks : At(u, p) =>
            /\ otask[u].pc = "fade" => Settled(p, otask[u].arg)
            /\ otask[u].pc = "dim" => wanted[p] = 1
  BY Zenon DEF OutInv, LightInv
<1>2. \A u \in OutTasks : Fading(u, p) => u = t
  BY Zenon, AloneAt DEF Fading
<1>3. At(t, p)
  BY Zenon DEF At
<1>. QED
  BY Zenon, <1>1, <1>2, <1>3

\* The fields of a light have their types.
LEMMA LightFields ==
  ASSUME OutInv, NEW l \in Lights
  PROVE  /\ pwm[l] \in LightState /\ pwm[l].state \in {0, 1}
         /\ pwm[l].color \in Colors \union {0, MAX_DUTY} /\ pwm[l].color \in Nat /\ pwm[l].duty \in Nat
BY OldTypes, OutSets DEF LightState

\* Dimmed as a record.
LEMMA DimmedFields ==
  ASSUME NEW w \in LightState, NEW l \in {0, 1}, NEW d, d = Dimmed(w, l)
  PROVE  /\ d \in LightState /\ d.state = l /\ d.duty = w.duty
         /\ d.color = IF w.color = 0 THEN MAX_DUTY ELSE w.color
BY OutSets DEF LightState, Dimmed

\* A step that replaces one light changes no other.
LEMMA OneLight ==
  ASSUME OutInv, NEW p \in Lights, NEW d \in LightState, pwm' = [pwm EXCEPT ![p] = d]
  PROVE  /\ pwm' \in [Lights -> LightState] /\ pwm'[p] = d
         /\ \A l \in Lights \ {p} : pwm'[l] = pwm[l]
BY OldTypes

\* A new level up to its fade keeps the invariant of the outputs.
LEMMA LightEnterStep ==
  ASSUME OutInv, NEW t \in OutTasks, LightEnter(t)
  PROVE  OutInv'
<1>1. PICK p : p = otask[t].port
  BY Zenon
<1>2. PICK l : l = IF otask[t].op = "toggle" THEN 1 - pwm[p].state ELSE otask[t].arg
  BY Zenon
<1>3. PICK d : d = Dimmed(pwm[p], l)
  BY Zenon
<1>4. /\ otask[t].pc = "level" /\ p \in Lights /\ otask[t].op # "color"
      /\ UNCHANGED <<chip, port, crossed_out, commands>>
      /\ pwm' = [pwm EXCEPT ![p] = d]
      /\ wanted' = [wanted EXCEPT ![p] = l]
      /\ otask' = [otask EXCEPT ![t].pc = "fade", ![t].arg = IF l = 1 THEN pwm'[p].color ELSE 0]
  BY <1>1, <1>2, <1>3 DEF LightEnter
<1>5. l \in {0, 1} /\ p \in Ports
  BY <1>1, <1>2, <1>4, SoundTask, LightFields, OutSets DEF Sound
<1>6. /\ d \in LightState /\ d.state = l /\ d.color \in Nat
  <2>1. d \in LightState /\ d.state = l
    BY Zenon, <1>3, <1>4, <1>5, LightFields, DimmedFields
  <2>. QED
    BY <2>1, OutSets DEF LightState
<1>7. /\ pwm' \in [Lights -> LightState] /\ pwm'[p] = d
      /\ \A k \in Lights \ {p} : pwm'[k] = pwm[k]
  BY Zenon, <1>4, <1>6, OneLight
<1>8. PICK a : a = IF l = 1 THEN d.color ELSE 0
  BY Zenon
<1>9. a \in Nat /\ otask[t].seen \in SUBSET Pins /\ "fade" \in OutPcs
  BY <1>6, <1>8, TaskFields DEF OutPcs, OutInv
<1>10. otask' = [otask EXCEPT ![t].pc = "fade", ![t].arg = a]
  BY Zenon, <1>4, <1>7, <1>8
<1>11. Stepped(t, "fade", p, otask[t].op, a, otask[t].seen)
  BY <1>1, <1>9, <1>10, Goes DEF OutInv
<1>12. /\ otask' \in [OutTasks -> OutTask] /\ Others(t)
       /\ otask'[t].pc = "fade" /\ otask'[t].port = p /\ otask'[t].arg = a
  BY Zenon, <1>11 DEF Stepped, Others
<1>13. /\ wanted' \in [Ports -> {0, 1}] /\ wanted'[p] = l
       /\ \A q \in Ports : q # p => wanted'[q] = wanted[q]
  BY <1>4, <1>5, OldTypes
<1>14. CallInv' /\ MetInv' /\ OutTypeOK' /\ DisableInv'
  <2>1. chip' \subseteq Pins /\ port' \in [Ports -> PortState] /\ UNCHANGED commands
        /\ crossed_out' \subseteq Ports /\ crossed_out \subseteq crossed_out'
    BY Zenon, <1>4, OldTypes
  <2>2. otask[t].pc # "disable" /\ otask'[t].pc # "disable" /\ otask[t].pc # "idle"
    BY <1>4, <1>12
  <2>3. Sound(otask'[t])
    BY <1>4, <1>5, <1>12 DEF Sound
  <2>4. \A q \in Ports : port'[q].active = port[q].active /\ port'[q].disable = port[q].disable
    BY Zenon, <1>4
  <2>. QED
    BY Zenon, <1>1, <1>7, <1>12, <1>13, <2>1, <2>2, <2>3, <2>4, CallGoes
<1>15. PinInv'
  <2>1. \A q \in Pins : wanted'[q] = wanted[q]
    BY <1>4, <1>13, OutSets
  <2>2. otask[t].pc \notin {"read", "write"} /\ otask'[t].pc \notin {"read", "write"}
    BY <1>4, <1>12
  <2>. QED
    BY Zenon, <1>4, <1>12, <2>1, <2>2, KeepPins
<1>16. LightInv'
  <2>1. pwm'[p].state = wanted'[p] /\ Settled(p, otask[t].arg)' /\ Fading(t, p)'
    BY <1>6, <1>7, <1>8, <1>12, <1>13 DEF Settled, Fading, At
  <2>2. \A k \in Lights \ {p} : pwm'[k] = pwm[k] /\ wanted'[k] = wanted[k]
    BY <1>7, <1>13, OutSets
  <2>3. otask[t].pc # "idle" /\ otask'[t].pc # "dim"
    BY <1>4, <1>12
  <2>. QED
    BY Zenon, <1>1, <1>4, <1>12, <2>1, <2>2, <2>3, LightMoves
<1>. QED
  BY Zenon, <1>14, <1>15, <1>16 DEF OutInv

\* Starting the fade keeps the invariant of the outputs.
LEMMA LightFadeStep ==
  ASSUME OutInv, NEW t \in OutTasks, LightFade(t)
  PROVE  OutInv'
<1>1. PICK p : p = otask[t].port
  BY Zenon
<1>2. /\ otask[t].pc = "fade" /\ OutReturn(t) /\ UNCHANGED <<chip, wanted, crossed_out, commands>>
      /\ pwm' = [pwm EXCEPT ![p].duty = otask[t].arg]
      /\ port' = IF otask[t].op = "color" THEN port ELSE [port EXCEPT ![p].status = (otask[t].arg # 0)]
  BY Zenon, <1>1 DEF LightFade
<1>3. p \in Lights /\ p \in Ports /\ otask[t].arg \in Nat
  BY <1>1, <1>2, SoundTask, TaskFields DEF Sound, OutInv
<1>4. otask' \in [OutTasks -> OutTask] /\ Others(t) /\ otask'[t].pc = "idle"
  BY Zenon, <1>2, ReturnsIdle
<1>5. /\ pwm' \in [Lights -> LightState] /\ pwm'[p].duty = otask[t].arg
      /\ pwm'[p].state = pwm[p].state /\ pwm'[p].color = pwm[p].color
      /\ \A k \in Lights \ {p} : pwm'[k] = pwm[k]
  BY <1>2, <1>3, OldTypes DEF LightState
<1>6. /\ port' \in [Ports -> PortState]
      /\ \A q \in Ports : port'[q].active = port[q].active /\ port'[q].disable = port[q].disable
  <2>1. PICK v \in BOOLEAN : v = (otask[t].arg # 0)
    BY Zenon
  <2>2. port' = port \/ port' = [port EXCEPT ![p].status = v]
    BY Zenon, <1>2, <2>1
  <2>3. CASE port' = port
    BY Zenon, <2>3, OldTypes
  <2>4. CASE port' = [port EXCEPT ![p].status = v]
    BY <2>4, OldTypes DEF PortState
  <2>. QED
    BY Zenon, <2>2, <2>3, <2>4
<1>7. CallInv' /\ MetInv' /\ OutTypeOK' /\ DisableInv'
  <2>1. chip' \subseteq Pins /\ wanted' \in [Ports -> {0, 1}] /\ UNCHANGED commands
        /\ crossed_out' \subseteq Ports /\ crossed_out \subseteq crossed_out'
    BY Zenon, <1>2, OldTypes
  <2>2. otask[t].pc # "disable" /\ otask'[t].pc # "disable"
    BY <1>2, <1>4
  <2>. QED
    BY Zenon, <1>4, <1>5, <1>6, <2>1, <2>2, CallGoes
<1>8. PinInv'
  BY <1>2, <1>4, KeepPins
<1>9. LightInv'
  <2>1. p \notin crossed_out => pwm'[p].state = wanted'[p] /\ Settled(p, pwm[p].duty)'
    <3> SUFFICES ASSUME p \notin crossed_out
                 PROVE  pwm'[p].state = wanted'[p] /\ Settled(p, pwm[p].duty)'
      BY Zenon
    <3>1. pwm[p].state = wanted[p] /\ Settled(p, otask[t].arg)
      BY <1>1, <1>2, <1>3, LightOld
    <3>. QED
      BY <1>2, <1>5, <3>1 DEF Settled
  <2>2. \A k \in Lights \ {p} : pwm'[k] = pwm[k] /\ wanted'[k] = wanted[k]
    BY Zenon, <1>2, <1>5
  <2>3. otask[t].pc # "idle" /\ otask'[t].pc # "dim" /\ otask'[t].pc # "fade"
    BY <1>2, <1>4
  <2>. QED
    BY Zenon, <1>1, <1>2, <1>3, <1>4, <2>1, <2>2, <2>3, LightMoves
<1>. QED
  BY Zenon, <1>7, <1>8, <1>9 DEF OutInv

\* Storing a light's colour keeps the invariant of the outputs.
LEMMA LightColorStep ==
  ASSUME OutInv, NEW t \in OutTasks, LightColor(t)
  PROVE  OutInv'
<1>1. PICK p : p = otask[t].port
  BY Zenon
<1>2. /\ otask[t].pc = "level" /\ otask[t].op = "color" /\ Goto(t, "check")
      /\ UNCHANGED <<chip, port, wanted, crossed_out, commands>>
      /\ pwm' = [pwm EXCEPT ![p].color = otask[t].arg]
  BY Zenon, <1>1 DEF LightColor
<1>3. p \in Lights /\ p \in Ports /\ otask[t].arg \in Colors /\ otask[t].arg \in Nat
      /\ otask[t].seen \in SUBSET Pins /\ "check" \in OutPcs
  BY <1>1, <1>2, SoundTask, TaskFields, OutSets DEF Sound, OutInv, OutPcs
<1>4. /\ pwm' \in [Lights -> LightState] /\ pwm'[p].duty = pwm[p].duty
      /\ pwm'[p].state = pwm[p].state
      /\ \A k \in Lights \ {p} : pwm'[k] = pwm[k]
  BY <1>2, <1>3, OldTypes DEF LightState
<1>5. Stepped(t, "check", p, otask[t].op, otask[t].arg, otask[t].seen)
  BY <1>1, <1>2, <1>3, Goes DEF OutInv, Goto
<1>6. /\ otask' \in [OutTasks -> OutTask] /\ Others(t)
      /\ otask'[t].pc = "check" /\ otask'[t].port = p
  BY Zenon, <1>5 DEF Stepped, Others
<1>7. CallInv' /\ MetInv' /\ OutTypeOK' /\ DisableInv'
  <2>1. chip' \subseteq Pins /\ wanted' \in [Ports -> {0, 1}] /\ UNCHANGED commands
        /\ crossed_out' \subseteq Ports /\ crossed_out \subseteq crossed_out'
        /\ port' \in [Ports -> PortState]
    BY Zenon, <1>2, OldTypes
  <2>2. otask[t].pc # "disable" /\ otask'[t].pc # "disable" /\ otask[t].pc # "idle"
    BY <1>2, <1>6
  <2>3. Sound(otask'[t])
    BY <1>3, <1>6 DEF Sound
  <2>4. \A q \in Ports : port'[q].active = port[q].active /\ port'[q].disable = port[q].disable
    BY Zenon, <1>2
  <2>. QED
    BY Zenon, <1>1, <1>4, <1>6, <2>1, <2>2, <2>3, <2>4, CallGoes
<1>8. PinInv'
  BY <1>2, <1>6, KeepPins
<1>9. LightInv'
  <2>1. ASSUME p \notin crossed_out
        PROVE  pwm'[p].state = wanted'[p] /\ (Settled(p, pwm[p].duty)' \/ Fading(t, p)')
    <3>1. pwm[p].state = wanted[p] /\ (Settled(p, pwm[p].duty) \/ Fading(t, p))
          /\ wanted[p] \in {0, 1}
      BY <1>1, <1>2, <1>3, <2>1, LightOld, OldTypes
    <3>2. Settled(p, pwm[p].duty)
      BY <1>2, <3>1 DEF Fading
    <3>3. CASE wanted[p] = 0
      BY <1>2, <1>4, <3>1, <3>2, <3>3 DEF Settled
    <3>4. CASE wanted[p] = 1
      BY <1>2, <1>4, <1>6, <3>1, <3>4 DEF Fading, At
    <3>. QED
      BY Zenon, <3>1, <3>3, <3>4
  <2>2. \A k \in Lights \ {p} : pwm'[k] = pwm[k] /\ wanted'[k] = wanted[k]
    BY Zenon, <1>2, <1>4
  <2>3. otask[t].pc # "idle" /\ otask'[t].pc # "dim" /\ otask'[t].pc # "fade"
    BY <1>2, <1>6
  <2>. QED
    BY Zenon, <1>1, <1>2, <1>3, <1>6, <2>1, <2>2, <2>3, LightMoves
<1>. QED
  BY Zenon, <1>7, <1>8, <1>9 DEF OutInv

\* The look at the light's state after its colour keeps the invariant of the
\* outputs.
LEMMA LightCheckStep ==
  ASSUME OutInv, NEW t \in OutTasks, LightCheck(t)
  PROVE  OutInv'
<1>1. PICK p : p = otask[t].port
  BY Zenon
<1>2. /\ otask[t].pc = "check" /\ UNCHANGED <<chip, pwm, port, wanted, crossed_out, commands>>
      /\ \/ pwm[p].state = 1 /\ otask' = [otask EXCEPT ![t].pc = "dim"]
         \/ pwm[p].state # 1 /\ OutReturn(t)
  BY Zenon, <1>1 DEF LightCheck, Recolors
<1>3. p \in Lights /\ p \in Ports /\ otask[t].arg \in Nat /\ otask[t].seen \in SUBSET Pins
      /\ "dim" \in OutPcs
  BY <1>1, <1>2, SoundTask, TaskFields DEF Sound, OutInv, OutPcs
<1>4. /\ otask' \in [OutTasks -> OutTask] /\ Others(t)
      /\ \/ otask'[t].pc = "idle" /\ pwm[p].state # 1
         \/ otask'[t].pc = "dim" /\ otask'[t].port = p /\ pwm[p].state = 1
  <2>1. CASE OutReturn(t) /\ pwm[p].state # 1
    BY Zenon, <2>1, ReturnsIdle
  <2>2. CASE otask' = [otask EXCEPT ![t].pc = "dim"] /\ pwm[p].state = 1
    <3>1. Stepped(t, "dim", p, otask[t].op, otask[t].arg, otask[t].seen)
      BY <1>1, <1>3, <2>2, Goes DEF OutInv
    <3>. QED
      BY Zenon, <2>2, <3>1 DEF Stepped, Others
  <2>. QED
    BY Zenon, <1>2, <2>1, <2>2
<1>5. CallInv' /\ MetInv' /\ OutTypeOK' /\ DisableInv'
  <2>1. chip' \subseteq Pins /\ wanted' \in [Ports -> {0, 1}] /\ UNCHANGED commands
        /\ crossed_out' \subseteq Ports /\ crossed_out \subseteq crossed_out'
        /\ port' \in [Ports -> PortState] /\ pwm' \in [Lights -> LightState]
    BY Zenon, <1>2, OldTypes
  <2>2. otask[t].pc # "disable" /\ otask'[t].pc # "disable" /\ otask[t].pc # "idle"
    BY <1>2, <1>4
  <2>3. otask'[t].pc = "idle" \/ (otask'[t].port = otask[t].port /\ Sound(otask'[t]))
    BY <1>1, <1>3, <1>4 DEF Sound
  <2>4. \A q \in Ports : port'[q].active = port[q].active /\ port'[q].disable = port[q].disable
    BY Zenon, <1>2
  <2>. QED
    BY Zenon, <1>4, <2>1, <2>2, <2>3, <2>4, CallGoes
<1>6. PinInv'
  <2>1. otask[t].pc \notin {"read", "write"} /\ otask'[t].pc \notin {"read", "write"}
    BY <1>2, <1>4
  <2>2. UNCHANGED chip /\ crossed_out \subseteq crossed_out' /\ \A q \in Pins : wanted'[q] = wanted[q]
    BY Zenon, <1>2
  <2>. QED
    BY Zenon, <1>4, <2>1, <2>2, KeepPins
<1>7. LightInv'
  <2>1. ASSUME p \notin crossed_out
        PROVE  /\ pwm'[p].state = wanted'[p] /\ (Settled(p, pwm[p].duty)' \/ Fading(t, p)')
               /\ otask'[t].pc = "dim" => wanted'[p] = 1
    <3>1. pwm[p].state = wanted[p] /\ (Settled(p, pwm[p].duty) \/ Fading(t, p))
      BY <1>1, <1>2, <1>3, <2>1, LightOld
    <3>2. Settled(p, pwm[p].duty) => Settled(p, pwm[p].duty)'
      BY <1>2 DEF Settled
    <3>3. Fading(t, p) => Fading(t, p)'
      BY <1>2, <1>4, <3>1 DEF Fading, At
    <3>4. otask'[t].pc = "dim" => wanted'[p] = 1
      BY <1>2, <1>4, <3>1
    <3>. QED
      BY Zenon, <1>2, <3>1, <3>2, <3>3, <3>4
  <2>2. \A k \in Lights \ {p} : pwm'[k] = pwm[k] /\ wanted'[k] = wanted[k]
    BY Zenon, <1>2
  <2>3. otask[t].pc # "idle" /\ otask'[t].pc # "fade" /\ (otask'[t].pc = "idle" \/ otask'[t].port = p)
    BY <1>2, <1>4
  <2>. QED
    BY Zenon, <1>1, <1>2, <1>3, <1>4, <2>1, <2>2, <2>3, LightMoves
<1>. QED
  BY Zenon, <1>5, <1>6, <1>7 DEF OutInv

\* Setting the new colour as the level keeps the invariant of the outputs.
LEMMA LightDimStep ==
  ASSUME OutInv, NEW t \in OutTasks, LightDim(t)
  PROVE  OutInv'
<1>1. PICK p : p = otask[t].port
  BY Zenon
<1>2. PICK d : d = Dimmed(pwm[p], 1)
  BY Zenon
<1>3. /\ otask[t].pc = "dim" /\ UNCHANGED <<chip, port, wanted, crossed_out, commands>>
      /\ pwm' = [pwm EXCEPT ![p] = d]
      /\ otask' = [otask EXCEPT ![t].pc = "fade", ![t].arg = pwm'[p].color]
  BY <1>1, <1>2 DEF LightDim
<1>4. p \in Lights /\ p \in Ports
  BY <1>1, <1>3, SoundTask, OutSets DEF Sound
<1>5. /\ d \in LightState /\ d.state = 1 /\ d.color \in Nat /\ d.duty = pwm[p].duty
  <2>1. 1 \in {0, 1}
    OBVIOUS
  <2>2. d \in LightState /\ d.state = 1 /\ d.duty = pwm[p].duty
    BY Zenon, <1>2, <1>4, <2>1, LightFields, DimmedFields
  <2>. QED
    BY <2>2, OutSets DEF LightState
<1>6. /\ pwm' \in [Lights -> LightState] /\ pwm'[p] = d
      /\ \A k \in Lights \ {p} : pwm'[k] = pwm[k]
  BY Zenon, <1>3, <1>4, <1>5, OneLight
<1>7. d.color \in Nat /\ otask[t].seen \in SUBSET Pins /\ "fade" \in OutPcs
  BY <1>5, TaskFields DEF OutPcs, OutInv
<1>8. otask' = [otask EXCEPT ![t].pc = "fade", ![t].arg = d.color]
  BY Zenon, <1>3, <1>6
<1>9. Stepped(t, "fade", p, otask[t].op, d.color, otask[t].seen)
  BY <1>1, <1>7, <1>8, Goes DEF OutInv
<1>10. /\ otask' \in [OutTasks -> OutTask] /\ Others(t)
       /\ otask'[t].pc = "fade" /\ otask'[t].port = p /\ otask'[t].arg = d.color
  BY Zenon, <1>9 DEF Stepped, Others
<1>11. CallInv' /\ MetInv' /\ OutTypeOK' /\ DisableInv'
  <2>1. chip' \subseteq Pins /\ port' \in [Ports -> PortState] /\ UNCHANGED commands
        /\ crossed_out' \subseteq Ports /\ crossed_out \subseteq crossed_out'
        /\ wanted' \in [Ports -> {0, 1}]
    BY Zenon, <1>3, OldTypes
  <2>2. otask[t].pc # "disable" /\ otask'[t].pc # "disable" /\ otask[t].pc # "idle"
    BY <1>3, <1>10
  <2>3. Sound(otask'[t])
    BY <1>4, <1>10 DEF Sound
  <2>4. \A q \in Ports : port'[q].active = port[q].active /\ port'[q].disable = port[q].disable
    BY Zenon, <1>3
  <2>. QED
    BY Zenon, <1>1, <1>6, <1>10, <2>1, <2>2, <2>3, <2>4, CallGoes
<1>12. PinInv'
  BY <1>3, <1>10, KeepPins
<1>13. LightInv'
  <2>1. ASSUME p \notin crossed_out
        PROVE  pwm'[p].state = wanted'[p] /\ Settled(p, otask[t].arg)' /\ Fading(t, p)'
    <3>1. pwm[p].state = wanted[p] /\ wanted[p] = 1
      BY <1>1, <1>3, <1>4, <2>1, LightOld
    <3>. QED
      BY <1>3, <1>5, <1>6, <1>10, <3>1 DEF Settled, Fading, At
  <2>2. \A k \in Lights \ {p} : pwm'[k] = pwm[k] /\ wanted'[k] = wanted[k]
    BY Zenon, <1>3, <1>6
  <2>3. otask[t].pc # "idle" /\ otask'[t].pc # "dim"
    BY <1>3, <1>10
  <2>. QED
    BY Zenon, <1>1, <1>3, <1>4, <1>10, <2>1, <2>2, <2>3, LightMoves
<1>. QED
  BY Zenon, <1>11, <1>12, <1>13 DEF OutInv

\* Every step of the outputs keeps their invariant.
LEMMA OutStep ==
  ASSUME OutInv, [OutNext]_outVars
  PROVE  OutInv'
<1>1. CASE UNCHANGED outVars
  BY <1>1 DEF outVars, OutInv, OutTypeOK, CallInv, MetInv, PinInv, LightInv, DisableInv,
              Writing, Fading, Disabling, At, Settled
<1>. QED
  BY Zenon, <1>1, SetStatusStep, SetToggleStep, SetColorStep, SetActiveStep, SetDisableStep,
     OutDisabledStep, PinEnterStep, PinReadStep, PinWriteStep, PinReadBackStep, LightEnterStep,
     LightFadeStep, LightColorStep, LightCheckStep, LightDimStep DEF OutNext

\* The invariant of the outputs holds at the start.
LEMMA InitOut == OutInit => OutInv
<1> SUFFICES ASSUME OutInit PROVE OutInv
  OBVIOUS
<1>1. /\ IdleO \in OutTask /\ IdleO.pc = "idle"
      /\ \A t \in OutTasks : otask[t] = IdleO
  BY DEF IdleO, OutTask, OutPcs, OutInit
<1>2. OutTypeOK
  <2>1. otask \in [OutTasks -> OutTask] /\ commands \in [OutTasks -> 0 .. MaxCommands]
    BY <1>1, OutSets DEF OutInit
  <2>2. pwm \in [Lights -> LightState] /\ port \in [Ports -> PortState]
    BY DEF OutInit, LightState, PortState
  <2>3. chip \subseteq Pins /\ wanted \in [Ports -> {0, 1}] /\ crossed_out \subseteq Ports
    BY DEF OutInit
  <2>. QED
    BY Zenon, <2>1, <2>2, <2>3 DEF OutTypeOK, OutTask, OutPcs, LightState, PortState
<1>3. CallInv /\ MetInv
  BY <1>1 DEF CallInv, MetInv
<1>4. PinInv
  BY <1>1, OutSets DEF OutInit, PinInv, PinLevel, Level01, Writing, At
<1>5. LightInv
  BY <1>1, OutSets DEF OutInit, LightInv, Settled, Fading, At
<1>6. DisableInv
  BY <1>1 DEF OutInit, DisableInv, Disabling, At
<1>. QED
  BY Zenon, <1>2, <1>3, <1>4, <1>5, <1>6 DEF OutInv

\* The invariant gives the three properties of the outputs.
LEMMA OutKeeps ==
  OutInv => PinsKeepLevels /\ LightsKeepLevels /\ DisabledTogether
<1> SUFFICES ASSUME OutInv PROVE PinsKeepLevels /\ LightsKeepLevels /\ DisabledTogether
  OBVIOUS
<1>1. \A p : OutResting(p) => \A t \in OutTasks : ~At(t, p)
  BY Zenon DEF OutResting, At, Together
<1>2. PinsKeepLevels
  BY Zenon, <1>1 DEF OutInv, PinInv, PinsKeepLevels, Writing
<1>3. LightsKeepLevels
  BY Zenon, <1>1 DEF OutInv, LightInv, LightsKeepLevels, Fading, Settled
<1>4. DisabledTogether
  <2> SUFFICES ASSUME NEW p \in Ports, OutResting(p), p \notin crossed_out
               PROVE  port[p].disable = ~port[p].active
    BY Zenon DEF DisabledTogether
  <2>1. port[p].disable <=> ~port[p].active
    BY Zenon, <1>1 DEF OutInv, DisableInv, Disabling
  <2>2. port[p].disable \in BOOLEAN
    BY OldTypes DEF PortState
  <2>. QED
    BY Zenon, <2>1, <2>2
<1>. QED
  BY Zenon, <1>2, <1>3, <1>4

-----------------------------------------------------------------------------
(* The clock: what a call reads, writes back and reports.                  *)

\* What each transfer is: a read, a write of a whole register, or the write of an
\* update, to the two control registers only.
TransferOK(x) ==
    \/ x.kind = "read" /\ x.reg \in {"ctl2", "tctl", "alarm", "clkout", "timer", "time"}
    \/ x.kind = "write" /\ x.reg = "time" /\ x.year \in 100 .. 299 /\ x.data = TimeBytes(x.year)
    \/ x.kind = "write" /\ x.reg = "alarm" /\ x.data \in SUBSET {"MIN", "DAY"}
    \/ x.kind = "write" /\ x.reg = "clkout" /\ x.data \in SUBSET {"FE"}
    \/ x.kind = "write" /\ x.reg = "timer" /\ x.data \in SUBSET {"V0"}
    \/ x.kind = "update" /\ x.reg = "ctl2" /\ x.bits \in SUBSET {"TIE", "AIE"}
    \/ x.kind = "update" /\ x.reg = "tctl" /\ x.bits \in SUBSET {"TE", "TD0", "TD1"}

\* And what each function is: an update comes after the read of its register.
Shaped(f) ==
    /\ \E S : f \in Seq(S)
    /\ f # <<>>
    /\ \A i \in 1 .. Len(f) : /\ TransferOK(f[i])
                              /\ f[i].kind = "update" => i > 1 /\ f[i - 1] = Read(f[i].reg)

\* One transfer that is no update is a well-shaped call.
LEMMA ShapedOne ==
  ASSUME NEW x, TransferOK(x), x.kind # "update"
  PROVE  Shaped(<<x>>)
<1>1. <<x>> \in Seq({x}) /\ <<x>> # <<>> /\ Len(<<x>>) = 1 /\ <<x>>[1] = x
  OBVIOUS
<1>2. PICK s : s = <<x>>
  BY Zenon
<1>3. ASSUME NEW i \in 1 .. Len(s) PROVE TransferOK(s[i]) /\ s[i].kind # "update"
  <2>1. s[i] = x
    BY <1>1, <1>2
  <2>. QED
    BY Zenon, <2>1
<1>4. Shaped(s)
  BY Zenon, <1>1, <1>2, <1>3 DEF Shaped
<1>. QED
  BY Zenon, <1>2, <1>4

\* A read of a register followed by its update is a well-shaped call.
LEMMA ShapedUpdate ==
  ASSUME NEW reg, NEW mask, NEW bits,
         \/ reg = "ctl2" /\ bits \in SUBSET {"TIE", "AIE"}
         \/ reg = "tctl" /\ bits \in SUBSET {"TE", "TD0", "TD1"}
  PROVE  Shaped(Update(reg, mask, bits))
<1>1. PICK r : r = Read(reg)
  BY Zenon
<1>2. PICK u : u = [kind |-> "update", reg |-> reg, mask |-> mask, bits |-> bits]
  BY Zenon
<1>3. r.kind = "read" /\ r.reg = reg /\ u.kind = "update" /\ u.reg = reg /\ u.bits = bits
  BY <1>1, <1>2 DEF Read
<1>4. TransferOK(r) /\ TransferOK(u)
  BY <1>3 DEF TransferOK
<1>5. Update(reg, mask, bits) = <<r, u>>
  BY Zenon, <1>1, <1>2 DEF Update
<1>6. <<r, u>> \in Seq({r, u}) /\ <<r, u>> # <<>> /\ Len(<<r, u>>) = 2 /\ <<r, u>>[1] = r /\ <<r, u>>[2] = u
  OBVIOUS
<1>7. ASSUME NEW i \in 1 .. 2
      PROVE  /\ TransferOK(<<r, u>>[i])
             /\ <<r, u>>[i].kind = "update" => i > 1 /\ <<r, u>>[i - 1] = Read(<<r, u>>[i].reg)
  <2>1. CASE i = 1
    BY <1>3, <1>4, <1>6, <2>1
  <2>2. CASE i = 2
    BY <1>1, <1>3, <1>4, <1>6, <2>2
  <2>. QED
    BY <2>1, <2>2
<1>. QED
  BY <1>5, <1>6, <1>7 DEF Shaped

\* Two well-shaped calls one after the other are a well-shaped call.
LEMMA ShapedJoin ==
  ASSUME NEW f, NEW g, Shaped(f), Shaped(g)
  PROVE  Shaped(f \o g)
<1>1. PICK S : f \in Seq(S)
  BY Zenon DEF Shaped
<1>2. PICK T : g \in Seq(T)
  BY Zenon DEF Shaped
<1>3. PICK h : h = f \o g
  BY Zenon
<1>4. f \in Seq(S \union T) /\ g \in Seq(S \union T)
  BY <1>1, <1>2
<1>5. /\ h \in Seq(S \union T) /\ Len(h) = Len(f) + Len(g) /\ Len(f) \in Nat /\ Len(g) \in Nat
      /\ \A i \in 1 .. Len(f) : h[i] = f[i]
      /\ \A i \in 1 .. Len(g) : h[i + Len(f)] = g[i]
  BY <1>3, <1>4
<1>6. f # <<>> /\ h # <<>>
  <2>1. f # <<>> /\ Len(f) # 0
    BY <1>4 DEF Shaped
  <2>. QED
    BY <1>5, <2>1
<1>7. ASSUME NEW i \in 1 .. Len(h)
      PROVE  TransferOK(h[i]) /\ (h[i].kind = "update" => i > 1 /\ h[i - 1] = Read(h[i].reg))
  <2>1. CASE i \in 1 .. Len(f)
    <3>1. h[i] = f[i] /\ (i > 1 => h[i - 1] = f[i - 1])
      BY <1>5, <2>1
    <3>. QED
      BY Zenon, <2>1, <3>1 DEF Shaped
  <2>2. CASE i \notin 1 .. Len(f)
    <3>1. PICK j \in 1 .. Len(g) : i = j + Len(f)
      <4>1. i - Len(f) \in 1 .. Len(g) /\ i = (i - Len(f)) + Len(f)
        BY <1>5, <2>2
      <4>. QED
        BY Zenon, <4>1
    <3>2. h[i] = g[j] /\ (j > 1 => h[i - 1] = g[j - 1]) /\ (j > 1 => i > 1)
      <4>1. h[i] = g[j]
        BY Zenon, <1>5, <3>1
      <4>2. ASSUME j > 1 PROVE i > 1 /\ j - 1 \in 1 .. Len(g) /\ i - 1 = (j - 1) + Len(f)
        BY <1>5, <3>1, <4>2
      <4>3. j > 1 => h[i - 1] = g[j - 1]
        BY <1>5, <4>2
      <4>. QED
        BY Zenon, <4>1, <4>2, <4>3
    <3>3. TransferOK(g[j]) /\ (g[j].kind = "update" => j > 1 /\ g[j - 1] = Read(g[j].reg))
      BY Zenon DEF Shaped
    <3>. QED
      BY Zenon, <3>2, <3>3
  <2>. QED
    BY Zenon, <2>1, <2>2
<1>8. Shaped(h)
  BY Zenon, <1>5, <1>6, <1>7 DEF Shaped
<1>. QED
  BY Zenon, <1>3, <1>8

\* A reading function is well shaped and only reads.
LEMMA ReadingsShaped ==
  ASSUME NEW f \in Readings
  PROVE  /\ Shaped(f)
         /\ \A i \in 1 .. Len(f) : f[i].kind = "read" /\ (f[i].reg = "time" => Len(f) = 1)
<1> DEFINE Regs == {"ctl2", "tctl", "alarm", "clkout", "timer", "time"}
<1>1. \A reg \in Regs : Read(reg).kind = "read" /\ Read(reg).reg = reg /\ TransferOK(Read(reg))
  BY DEF Read, TransferOK
<1>2. \A reg \in Regs : Shaped(<<Read(reg)>>)
  BY <1>1, ShapedOne
<1>3. CASE \E reg \in Regs : f = <<Read(reg)>>
  BY <1>1, <1>2, <1>3
<1>4. CASE \E reg \in {"tctl", "alarm"} : f = <<Read("ctl2"), Read(reg)>>
  <2>1. PICK reg \in {"tctl", "alarm"} : f = <<Read("ctl2"), Read(reg)>>
    BY <1>4
  <2>2. f = <<Read("ctl2")>> \o <<Read(reg)>> /\ Shaped(<<Read("ctl2")>>) /\ Shaped(<<Read(reg)>>)
    BY <1>2, <2>1
  <2>3. Shaped(f)
    BY Zenon, <2>2, ShapedJoin
  <2>. QED
    BY <1>1, <2>1, <2>3
<1>5. \/ \E reg \in Regs : f = <<Read(reg)>>
      \/ \E reg \in {"tctl", "alarm"} : f = <<Read("ctl2"), Read(reg)>>
  BY Zenon DEF Readings, GetTime, GetTimerSettings, GetAlarm, GetClkout, GetTimerValue
<1>. QED
  BY Zenon, <1>3, <1>4, <1>5

\* Every function of the clock driver is well shaped.
LEMMA FunctionsShaped ==
  ASSUME NEW f \in Functions
  PROVE  Shaped(f)
<1>1. CASE f \in Readings
  BY Zenon, <1>1, ReadingsShaped
<1>2. ASSUME NEW y \in Years, f = SetTime(y) PROVE Shaped(f)
  <2>1. PICK x : x = [kind |-> "write", reg |-> "time", data |-> TimeBytes(y), year |-> y]
    BY Zenon
  <2>2. TransferOK(x) /\ x.kind # "update"
    BY <2>1, ClockAssumption DEF TransferOK
  <2>. QED
    BY Zenon, <1>2, <2>1, <2>2, ShapedOne DEF SetTime
<1>3. ASSUME NEW on \in BOOLEAN, NEW clock \in {{}, {"TD0", "TD1"}}, f = SetTimerSettings(on, clock)
      PROVE  Shaped(f)
  <2>1. If(on, {"TIE"}) \in SUBSET {"TIE", "AIE"} /\ clock \in SUBSET {"TE", "TD0", "TD1"}
    BY DEF If
  <2>2. Shaped(Update("ctl2", {"TIE"}, If(on, {"TIE"}))) /\ Shaped(Update("tctl", {"TD0", "TD1"}, clock))
    BY <2>1, ShapedUpdate
  <2>. QED
    BY Zenon, <1>3, <2>2, ShapedJoin DEF SetTimerSettings
<1>4. ASSUME NEW reg \in {"alarm", "clkout", "timer"}, NEW data,
             \/ reg = "alarm" /\ data \in SUBSET {"MIN", "DAY"}
             \/ reg = "clkout" /\ data \in SUBSET {"FE"}
             \/ reg = "timer" /\ data \in SUBSET {"V0"}
      PROVE  Shaped(<<Write(reg, data)>>)
  <2>1. TransferOK(Write(reg, data)) /\ Write(reg, data).kind # "update"
    BY <1>4 DEF TransferOK, Write
  <2>. QED
    BY Zenon, <2>1, ShapedOne
<1>5. ASSUME NEW on \in BOOLEAN, NEW m \in {{}, {"MIN", "DAY"}}, f = SetAlarm(on, m)
      PROVE  Shaped(f)
  <2>1. If(on, {"AIE"}) \in SUBSET {"TIE", "AIE"} /\ m \in SUBSET {"MIN", "DAY"}
    BY DEF If
  <2>2. Shaped(Update("ctl2", {"AIE"}, If(on, {"AIE"}))) /\ Shaped(<<Write("alarm", m)>>)
    BY <1>4, <2>1, ShapedUpdate
  <2>. QED
    BY Zenon, <1>5, <2>2, ShapedJoin DEF SetAlarm
<1>6. CASE f = SetClkout(TRUE)
  <2>1. If(TRUE, {"FE"}) \in SUBSET {"FE"}
    BY DEF If
  <2>. QED
    BY <1>4, <1>6, <2>1 DEF SetClkout
<1>7. CASE f = SetTimerValue({"V0"})
  BY <1>4, <1>7 DEF SetTimerValue
<1>8. CASE f \in {StartTimer, StopTimer}
  <2>1. {"TE"} \in SUBSET {"TE", "TD0", "TD1"} /\ {} \in SUBSET {"TE", "TD0", "TD1"}
    OBVIOUS
  <2>2. Shaped(Update("tctl", {"TE"}, {"TE"})) /\ Shaped(Update("tctl", {"TE"}, {}))
    BY <2>1, ShapedUpdate
  <2>. QED
    BY Zenon, <1>8, <2>2 DEF StartTimer, StopTimer
<1>9. CASE f \in {ClearTimerFlag, ClearAlarmFlag}
  <2>1. {} \in SUBSET {"TIE", "AIE"}
    OBVIOUS
  <2>2. Shaped(Update("ctl2", {"TF"}, {})) /\ Shaped(Update("ctl2", {"AF"}, {}))
    BY <2>1, ShapedUpdate
  <2>. QED
    BY Zenon, <1>9, <2>2 DEF ClearTimerFlag, ClearAlarmFlag
<1>10. \/ f \in Readings \/ f \in TimeSettings \/ f \in TimerSettings
       \/ f \in AlarmSettings \/ f \in OtherCalls
  BY Zenon DEF Functions
<1>11. CASE f \in TimeSettings
  BY Zenon, <1>2, <1>11 DEF TimeSettings
<1>12. CASE f \in TimerSettings
  BY <1>3, <1>12 DEF TimerSettings
<1>13. CASE f \in AlarmSettings
  BY <1>5, <1>13 DEF AlarmSettings
<1>14. CASE f \in OtherCalls
  BY Zenon, <1>6, <1>7, <1>8, <1>9, <1>14 DEF OtherCalls
<1>. QED
  BY Zenon, <1>1, <1>10, <1>11, <1>12, <1>13, <1>14

\* Every function is a sequence of legal transfers.
LEMMA FunctionParts ==
  /\ \A f \in Functions : f \in Seq(Transfers)
  /\ \A x \in Transfers : TransferOK(x)
<1>1. ASSUME NEW f \in Functions PROVE f \in Seq(Transfers)
  <2>1. PICK S : f \in Seq(S)
    BY Zenon, FunctionsShaped DEF Shaped
  <2>2. \A i \in 1 .. Len(f) : f[i] \in Transfers
    BY <2>1 DEF Transfers
  <2>. QED
    BY <2>1, <2>2
<1>2. ASSUME NEW x \in Transfers PROVE TransferOK(x)
  <2>1. PICK f \in Functions : \E i \in DOMAIN f : x = f[i]
    BY DEF Transfers
  <2>2. PICK i \in DOMAIN f : x = f[i]
    BY <2>1
  <2>3. DOMAIN f = 1 .. Len(f)
    BY <1>1
  <2>. QED
    BY Zenon, <2>2, <2>3, FunctionsShaped DEF Shaped
<1>. QED
  BY Zenon, <1>1, <1>2

\* Two digits survive the packing to BCD and back, and the packed byte fits.
LEMMA Bcd ==
  ASSUME NEW v \in 0 .. 99
  PROVE  dec2bcd(v) \in 0 .. 255 /\ bcd2dec(dec2bcd(v)) = v
<1>1. PICK a, b : a = v \div 10 /\ b = v % 10
  OBVIOUS
<1>2. a \in 0 .. 9 /\ b \in 0 .. 9 /\ v = 10 * a + b
  BY <1>1
<1>3. PICK w : w = 16 * a + b
  OBVIOUS
<1>4. w \in 0 .. 153 /\ w \div 16 = a /\ w % 16 = b
  BY <1>2, <1>3
<1>5. dec2bcd(v) = w
  BY <1>1, <1>2, <1>3, <1>4 DEF dec2bcd
<1>6. bcd2dec(w) = v
  BY <1>2, <1>4 DEF bcd2dec
<1>. QED
  BY <1>4, <1>5, <1>6

DatedBytes(y, lost, b) ==
    /\ b \in [VL : BOOLEAN, month : 0 .. 255, year : 0 .. 255]
    /\ b.VL = lost
    /\ b.month = IF y >= 200 THEN 146 ELSE 18
    /\ b.year = IF y >= 200 THEN dec2bcd(y - 200) ELSE dec2bcd(y - 100)

\* The fields of a time's bytes, and the time they stand for.
LEMMA YearBytes ==
  ASSUME NEW y \in 100 .. 299, NEW lost \in BOOLEAN, NEW b,
         b = [TimeBytes(y) EXCEPT !.VL = lost]
  PROVE  /\ DatedBytes(y, lost, b)
         /\ TimeOf(b) = [valid |-> ~lost, month |-> Month, year |-> y]
<1>1. dec2bcd(Month) = 18
  BY DEF dec2bcd, Month
<1>2. PICK m, z : /\ m = dec2bcd(Month) + (IF y >= 200 THEN 128 ELSE 0)
                  /\ z = dec2bcd(y - (IF y >= 200 THEN 200 ELSE 100))
  OBVIOUS
<1>3. TimeBytes(y) = [VL |-> FALSE, month |-> m, year |-> z]
  BY <1>2 DEF TimeBytes
<1>4. /\ b = [VL |-> lost, month |-> m, year |-> z]
      /\ b.VL = lost /\ b.month = m /\ b.year = z
  BY <1>3
<1>5. m = IF y >= 200 THEN 146 ELSE 18
  BY <1>1, <1>2
<1>6. z = IF y >= 200 THEN dec2bcd(y - 200) ELSE dec2bcd(y - 100)
  BY <1>2
<1>7. z \in 0 .. 255 /\ bcd2dec(z) = IF y >= 200 THEN y - 200 ELSE y - 100
  <2>1. CASE y >= 200
    <3>1. y - 200 \in 0 .. 99 /\ z = dec2bcd(y - 200)
      BY <1>6, <2>1
    <3>. QED
      BY <2>1, <3>1, Bcd
  <2>2. CASE ~(y >= 200)
    <3>1. y - 100 \in 0 .. 99 /\ z = dec2bcd(y - 100)
      BY <1>6, <2>2
    <3>. QED
      BY <2>2, <3>1, Bcd
  <2>. QED
    BY <2>1, <2>2
<1>8. bcd2dec(m % 32) = 12 /\ m \in 0 .. 255
  <2>1. m % 32 = 18
    BY <1>5
  <2>2. 18 \div 16 = 1 /\ 18 % 16 = 2
    OBVIOUS
  <2>. QED
    BY <1>5, <2>1, <2>2 DEF bcd2dec
<1>9. b \in [VL : BOOLEAN, month : 0 .. 255, year : 0 .. 255]
  BY <1>4, <1>7, <1>8
<1>10. bcd2dec(b.year) + (IF b.month >= 128 THEN 200 ELSE 100) = y
  BY <1>4, <1>5, <1>7
<1>11. TimeOf(b) = [valid |-> ~lost, month |-> Month, year |-> y]
  <2>1. TimeOf(b) = [valid |-> ~b.VL, month |-> bcd2dec(b.month % 32),
                     year |-> bcd2dec(b.year) + (IF b.month >= 128 THEN 200 ELSE 100)]
    BY Zenon DEF TimeOf
  <2>. QED
    BY <1>4, <1>8, <1>10, <2>1 DEF Month
<1>. QED
  BY <1>4, <1>5, <1>6, <1>9, <1>11 DEF DatedBytes

\* The time registers written from a date have their types.
LEMMA TimeTyped ==
  ASSUME NEW y \in 100 .. 299, NEW lost \in BOOLEAN, NEW b,
         b = [TimeBytes(y) EXCEPT !.VL = lost]
  PROVE  b \in [VL : BOOLEAN, month : 0 .. 255, year : 0 .. 255]
<1>1. DatedBytes(y, lost, b)
  BY Zenon, YearBytes
<1>. QED
  BY Zenon, <1>1 DEF DatedBytes

\* What the registers, the date and the flags have to do with one another.
Ticking(r, a, d, u) ==
    /\ r \in Registers /\ a \in Registers
    /\ d \in [year : 100 .. 299, lost : BOOLEAN] /\ u \subseteq Flags
    /\ r.time = [TimeBytes(d.year) EXCEPT !.VL = d.lost]
    /\ r.ctl2 \ Flags = a.ctl2 \ Flags
    /\ r.tctl = a.tctl
    /\ \A reg \in {"alarm", "clkout", "timer"} : r[reg] = a[reg]
    /\ u \subseteq r.ctl2

\* The types of a call.
CallTypes(c) ==
    /\ DOMAIN c = DOMAIN Idle
    /\ c.at \in {"idle", "take", "transfer", "done", "failed"}
    /\ c.left \in Seq(Transfers)

CallOK(c, r, a, u) == CallTypes(c) /\ Updating(c, r, u) /\ Reading(c, a)

Holding == {"transfer", "done", "failed"}

\* The clock's invariant, split into the chip, the mutex and one part for each
\* task.
LEMMA ClockParts ==
  ClockInv <=> /\ Ticking(regs, asked, date, due)
               /\ DOMAIN call = ClockTasks /\ mutex \in ClockTasks \union {Free}
               /\ \A t \in ClockTasks : CallOK(call[t], regs, asked, due)
               /\ \A t \in ClockTasks : mutex = t <=> call[t].at \in Holding
               /\ chips \in 0 .. MaxChip /\ made \in 0 .. MaxCalls
  BY Zenon DEF ClockInv, ClockTypeOK, MutexInv, TimeInv, UpdateInv, ReadingInv, SettingsKept,
               FlagsKept, Ticking, CallOK, CallTypes, Holding

\* The same split, for the state after a step.
LEMMA ClockPartsNext ==
  ASSUME Ticking(regs', asked', date', due'),
         DOMAIN call' = ClockTasks, mutex' \in ClockTasks \union {Free},
         \A t \in ClockTasks : CallOK(call'[t], regs', asked', due'),
         \A t \in ClockTasks : mutex' = t <=> call'[t].at \in Holding,
         chips' \in 0 .. MaxChip, made' \in 0 .. MaxCalls
  PROVE  ClockInv'
  BY Zenon DEF ClockInv, ClockTypeOK, MutexInv, TimeInv, UpdateInv, ReadingInv, SettingsKept,
               FlagsKept, Ticking, CallOK, CallTypes, Holding

\* A call whose task does not hold the mutex does not depend on the chip.
LEMMA Waiting ==
  ASSUME NEW c, NEW r, NEW a, NEW u, CallOK(c, r, a, u), c.at \notin Holding,
         NEW r2, NEW a2, NEW u2
  PROVE  CallOK(c, r2, a2, u2)
<1>1. CallTypes(c) /\ c.at \in {"idle", "take"}
  BY DEF CallOK, CallTypes, Holding
<1>2. Updating(c, r2, u2)
  <2>1. Updating(c, r, u)
    BY Zenon DEF CallOK
  <2>2. CASE c.at = "take"
    <3>1. ~ReadBefore(c, r, u)
      BY <2>2 DEF ReadBefore
    <3>. QED
      BY <2>1, <2>2, <3>1 DEF Updating
  <2>. QED
    BY <1>1, <2>2 DEF Updating
<1>3. Reading(c, a2)
  <2>1. Reading(c, a)
    BY Zenon DEF CallOK
  <2>. QED
    BY <1>1, <2>1 DEF Reading
<1>. QED
  BY Zenon, <1>1, <1>2, <1>3 DEF CallOK

\* One task's call changes, and the mutex with it.
Replaces(t, n) ==
    /\ DOMAIN call' = ClockTasks /\ call'[t] = n
    /\ \A u \in ClockTasks \ {t} : call'[u] = call[u]

\* A step that replaces one task's call leaves the others' alone.
LEMMA CallSet ==
  ASSUME ClockInv, NEW t \in ClockTasks, NEW n, call' = [call EXCEPT ![t] = n]
  PROVE  Replaces(t, n)
<1>1. DOMAIN call = ClockTasks
  BY Zenon, ClockParts
<1>. QED
  BY <1>1 DEF Replaces

\* What one task's step must establish to keep the clock's invariant.
LEMMA StepOfOne ==
  ASSUME ClockInv, NEW t \in ClockTasks, NEW n, Replaces(t, n),
         call[t].at \in Holding \/ mutex = Free,
         CallOK(n, regs', asked', due'),
         (n.at \in Holding /\ mutex' = t) \/ (n.at \notin Holding /\ mutex' = Free),
         Ticking(regs', asked', date', due'), chips' = chips, made' = made
  PROVE  ClockInv'
<1>1. /\ \A u \in ClockTasks : mutex = u <=> call[u].at \in Holding
      /\ \A u \in ClockTasks : CallOK(call[u], regs, asked, due)
      /\ chips' \in 0 .. MaxChip /\ made' \in 0 .. MaxCalls
  BY Zenon, ClockParts
<1>2. Free \notin ClockTasks
  BY Zenon, ClockAssumption DEF Free
<1>3. \A u \in ClockTasks \ {t} : call[u].at \notin Holding
  BY Zenon, <1>1, <1>2
<1>4. \A u \in ClockTasks : CallOK(call'[u], regs', asked', due')
  BY Zenon, <1>1, <1>3, Waiting DEF Replaces
<1>5. \A u \in ClockTasks : mutex' = u <=> call'[u].at \in Holding
  BY Zenon, <1>2, <1>3 DEF Replaces
<1>6. mutex' \in ClockTasks \union {Free} /\ DOMAIN call' = ClockTasks
  BY Zenon DEF Replaces
<1>. QED
  BY Zenon, <1>1, <1>4, <1>5, <1>6, ClockPartsNext

\* A stutter keeps the clock's invariant.
LEMMA ClockStutters == ClockInv /\ UNCHANGED clockVars => ClockInv'
<1> SUFFICES ASSUME ClockInv, UNCHANGED clockVars PROVE ClockInv'
  OBVIOUS
<1>1. /\ regs' = regs /\ mutex' = mutex /\ call' = call /\ asked' = asked /\ date' = date
      /\ due' = due /\ chips' = chips /\ made' = made
  BY Zenon DEF clockVars
<1>. QED
  BY Zenon, <1>1, ClockParts, ClockPartsNext

\* Starting a call keeps the clock's invariant.
LEMMA CallStep ==
  ASSUME ClockInv, NEW t \in ClockTasks, Call(t)
  PROVE  ClockInv'
<1>1. PICK f \in Functions :
        call' = [call EXCEPT ![t] = [Idle EXCEPT !.of = f, !.left = f, !.at = "take"]]
  BY Zenon DEF Call
<1>2. PICK n : n = [Idle EXCEPT !.of = f, !.left = f, !.at = "take"]
  BY Zenon
<1>3. /\ DOMAIN n = DOMAIN Idle /\ n.of = f /\ n.left = f /\ n.at = "take" /\ n.seen = <<>>
  BY <1>2 DEF Idle
<1>4. Replaces(t, n)
  BY Zenon, <1>1, <1>2, CallSet
<1>5. f \in Seq(Transfers) /\ Shaped(f)
  BY Zenon, FunctionParts, FunctionsShaped
<1>6. CallTypes(n)
  BY Zenon, <1>3, <1>5 DEF CallTypes
<1>7. Updating(n, regs, due)
  BY <1>3, <1>5 DEF Updating, Shaped
<1>8. Reading(n, asked)
  <2>1. DOMAIN n.seen = {}
    BY <1>3
  <2>2. n.of \in Readings => \A i \in 1 .. Len(n.left) :
          n.left[i].kind = "read" /\ (n.left[i].reg = "time" => Len(n.left) = 1)
    BY <1>3, ReadingsShaped
  <2>3. n.at \notin {"transfer", "done"}
    BY <1>3
  <2>. QED
    BY Zenon, <2>1, <2>2, <2>3 DEF Reading
<1>9. CallOK(n, regs, asked, due)
  BY Zenon, <1>6, <1>7, <1>8 DEF CallOK
<1>10. /\ regs' = regs /\ mutex' = mutex /\ asked' = asked /\ date' = date
       /\ due' = due /\ chips' = chips /\ made' = made + 1 /\ made < MaxCalls /\ call[t].at = "idle"
  BY DEF Call
<1>11. made' \in 0 .. MaxCalls
  <2>1. made \in 0 .. MaxCalls
    BY Zenon, ClockParts
  <2>. QED
    BY <1>10, <2>1, ClockAssumption
<1>12. \A u \in ClockTasks : CallOK(call'[u], regs', asked', due')
  BY Zenon, <1>4, <1>9, <1>10, ClockParts DEF Replaces
<1>13. \A u \in ClockTasks : mutex' = u <=> call'[u].at \in Holding
  <2>1. n.at \notin Holding /\ call[t].at \notin Holding
    BY <1>3, <1>10 DEF Holding
  <2>. QED
    BY Zenon, <1>4, <1>10, <2>1, ClockParts DEF Replaces
<1>14. Ticking(regs', asked', date', due')
  BY Zenon, <1>10, ClockParts
<1>15. mutex' \in ClockTasks \union {Free} /\ DOMAIN call' = ClockTasks /\ chips' \in 0 .. MaxChip
  BY Zenon, <1>4, <1>10, ClockParts DEF Replaces
<1>. QED
  BY Zenon, <1>11, <1>12, <1>13, <1>14, <1>15, ClockPartsNext

\* Taking the mutex keeps the clock's invariant.
LEMMA TakeMutexStep ==
  ASSUME ClockInv, NEW t \in ClockTasks, TakeMutex(t)
  PROVE  ClockInv'
<1>1. /\ regs' = regs /\ mutex' = t /\ asked' = asked /\ date' = date /\ due' = due
      /\ chips' = chips /\ made' = made /\ mutex = Free /\ call[t].at = "take"
      /\ call' = [call EXCEPT ![t] = [call[t] EXCEPT !.at = "transfer"]]
  BY DEF TakeMutex, MutexFree
<1>2. PICK c : c = call[t]
  BY Zenon
<1>3. PICK n : n = [c EXCEPT !.at = "transfer"]
  BY Zenon
<1>4. Replaces(t, n)
  BY Zenon, <1>1, <1>2, <1>3, CallSet
<1>5. CallTypes(c) /\ Updating(c, regs, due) /\ Reading(c, asked) /\ c.at = "take"
  BY Zenon, <1>1, <1>2, ClockParts DEF CallOK
<1>6. /\ DOMAIN n = DOMAIN Idle /\ n.at = "transfer"
      /\ n.of = c.of /\ n.left = c.left /\ n.seen = c.seen /\ n.truth = c.truth
  BY <1>3, <1>5 DEF CallTypes, Idle
<1>7. CallTypes(n)
  BY <1>5, <1>6 DEF CallTypes
<1>8. Updating(n, regs, due)
  <2>1. ~ReadBefore(c, regs, due)
    BY <1>5 DEF ReadBefore
  <2>. QED
    BY <1>5, <1>6, <2>1 DEF Updating
<1>9. Reading(n, asked)
  <2>1. c.of \in Readings => /\ DOMAIN c.seen = {}
                             /\ "time" \notin DOMAIN c.seen
                             /\ \A i \in 1 .. Len(c.left) : c.left[i].kind = "read"
                                          /\ (c.left[i].reg = "time" => Len(c.left) = 1)
    <3> SUFFICES ASSUME c.of \in Readings
                 PROVE  /\ DOMAIN c.seen = {} /\ "time" \notin DOMAIN c.seen
                        /\ \A i \in 1 .. Len(c.left) : c.left[i].kind = "read"
                                      /\ (c.left[i].reg = "time" => Len(c.left) = 1)
      OBVIOUS
    <3>1. DOMAIN c.seen = {}
      BY <1>5 DEF Reading
    <3>2. c.at \in {"take", "transfer"}
      BY <1>5
    <3>3. \A i \in 1 .. Len(c.left) : c.left[i].kind = "read"
                                      /\ (c.left[i].reg = "time" => Len(c.left) = 1)
      BY Zenon, <1>5, <3>2 DEF Reading
    <3>. QED
      BY <3>1, <3>3
  <2>2. DOMAIN c.seen = {} => ReportsTrue(n, asked)
    BY Zenon, <1>6 DEF ReportsTrue
  <2>. QED
    BY <1>6, <2>1, <2>2 DEF Reading
<1>10. CallOK(n, regs', asked', due')
  BY Zenon, <1>1, <1>7, <1>8, <1>9 DEF CallOK
<1>11. n.at \in Holding
  BY <1>6 DEF Holding
<1>12. Ticking(regs', asked', date', due')
  BY Zenon, <1>1, ClockParts
<1>. QED
  BY Zenon, <1>1, <1>4, <1>10, <1>11, <1>12, StepOfOne

\* Giving the mutex back keeps the clock's invariant.
LEMMA GiveMutexStep ==
  ASSUME ClockInv, NEW t \in ClockTasks, GiveMutex(t)
  PROVE  ClockInv'
<1>1. /\ regs' = regs /\ mutex' = Free /\ asked' = asked /\ date' = date /\ due' = due
      /\ chips' = chips /\ made' = made /\ call[t].at \in Holding
      /\ call' = [call EXCEPT ![t] = Idle]
  BY DEF GiveMutex, Holding
<1>2. Replaces(t, Idle)
  BY Zenon, <1>1, CallSet
<1>3. Idle.at = "idle" /\ Idle.left = <<>>
  BY DEF Idle
<1>4. CallTypes(Idle)
  BY <1>3 DEF CallTypes
<1>5. Updating(Idle, regs, due) /\ Reading(Idle, asked) /\ Idle.at \notin Holding
  BY <1>3 DEF Updating, Reading, Holding
<1>6. CallOK(Idle, regs', asked', due')
  BY Zenon, <1>1, <1>4, <1>5 DEF CallOK
<1>7. Ticking(regs', asked', date', due')
  BY Zenon, <1>1, ClockParts
<1>. QED
  BY Zenon, <1>1, <1>2, <1>5, <1>6, <1>7, StepOfOne

\* What one transfer leaves of a call: the rest of its transfers.
OneLess(c, n) ==
    /\ DOMAIN n = DOMAIN Idle /\ n.of = c.of /\ n.left = Tail(c.left)
    /\ n.at = IF Len(c.left) = 1 THEN "done" ELSE "transfer"

Rest(c, n) ==
    /\ CallTypes(n) /\ n.at \in Holding
    /\ Len(c.left) \in Nat /\ Len(n.left) = Len(c.left) - 1
    /\ n.at = "transfer" => n.left # <<>>
    /\ n.at = "transfer" => Len(c.left) > 1
    /\ \A i \in 1 .. Len(n.left) : n.left[i] = c.left[i + 1] /\ i + 1 \in 1 .. Len(c.left)

\* The rest of a call after one transfer is still well shaped.
LEMMA RestOfCall ==
  ASSUME NEW c, CallTypes(c), c.left # <<>>, NEW n, OneLess(c, n)
  PROVE  Rest(c, n)
<1>1. PICK s : s = c.left
  BY Zenon
<1>2. s \in Seq(Transfers) /\ s # <<>>
  BY <1>1 DEF CallTypes
<1>3. /\ Tail(s) \in Seq(Transfers) /\ Len(s) \in Nat /\ Len(Tail(s)) = Len(s) - 1
      /\ Len(s) # 0 /\ (Len(s) # 1 => Tail(s) # <<>>)
      /\ \A i \in 1 .. Len(Tail(s)) : Tail(s)[i] = s[i + 1] /\ i + 1 \in 1 .. Len(s)
  <2>1. Tail(s) \in Seq(Transfers) /\ Len(s) \in Nat /\ Len(s) # 0 /\ Len(Tail(s)) = Len(s) - 1
    BY <1>2
  <2>2. Len(s) # 1 => Tail(s) # <<>>
    <3>1. PICK w : w = Tail(s)
      BY Zenon
    <3>. QED
      BY <2>1, <3>1
  <2>3. ASSUME NEW i \in 1 .. Len(Tail(s)) PROVE Tail(s)[i] = s[i + 1] /\ i + 1 \in 1 .. Len(s)
    BY <1>2, <2>1
  <2>. QED
    BY <2>1, <2>2, <2>3
<1>4. CallTypes(n)
  BY <1>1, <1>3 DEF CallTypes, OneLess
<1>. QED
  BY <1>1, <1>3, <1>4 DEF Rest, OneLess, Holding

\* What a task may do next.
LEMMA NextTransfer ==
  ASSUME ClockInv, NEW t \in ClockTasks, call[t].at = "transfer"
  PROVE  /\ CallTypes(call[t]) /\ Updating(call[t], regs, due) /\ Reading(call[t], asked)
         /\ call[t].left # <<>> /\ Len(call[t].left) \in Nat /\ 1 \in 1 .. Len(call[t].left)
         /\ Head(call[t].left) = call[t].left[1] /\ TransferOK(call[t].left[1])
<1>1. CallTypes(call[t]) /\ Updating(call[t], regs, due) /\ Reading(call[t], asked)
  BY Zenon, ClockParts DEF CallOK
<1>2. PICK s : s = call[t].left
  BY Zenon
<1>3. s \in Seq(Transfers) /\ s # <<>>
  BY <1>1, <1>2 DEF CallTypes, Updating
<1>4. Len(s) \in Nat /\ 1 \in 1 .. Len(s) /\ Head(s) = s[1] /\ s[1] \in Transfers
  BY <1>3
<1>. QED
  BY Zenon, <1>1, <1>2, <1>3, <1>4, FunctionParts

\* A read transfer keeps the clock's invariant.
LEMMA ReadTransferStep ==
  ASSUME ClockInv, NEW t \in ClockTasks, ReadTransfer(t)
  PROVE  ClockInv'
<1>1. PICK c : c = call[t]
  BY Zenon
<1>2. PICK reg : reg = c.left[1].reg
  BY Zenon
<1>3. PICK n : n = AlsoRead(c, reg)
  BY Zenon
<1>4. call[t].at = "transfer" /\ Head(call[t].left).kind = "read"
  BY Zenon DEF ReadTransfer
<1>5. /\ CallTypes(c) /\ Updating(c, regs, due) /\ Reading(c, asked)
      /\ c.left # <<>> /\ Len(c.left) \in Nat /\ 1 \in 1 .. Len(c.left)
      /\ Head(c.left) = c.left[1] /\ TransferOK(c.left[1])
  BY <1>1, <1>4, NextTransfer
<1>6. c.at = "transfer" /\ c.left[1].kind = "read"
      /\ reg \in {"ctl2", "tctl", "alarm", "clkout", "timer", "time"}
  BY <1>1, <1>2, <1>4, <1>5 DEF TransferOK
<1>7. PICK seen : seen = [r \in DOMAIN c.seen \union {reg} |-> IF r = reg THEN regs[r] ELSE c.seen[r]]
  BY Zenon
<1>8. /\ regs' = regs /\ mutex' = mutex /\ asked' = asked /\ date' = date /\ due' = due
      /\ chips' = chips /\ made' = made
      /\ call' = [call EXCEPT ![t] = AlsoRead(c, reg)]
  BY <1>1, <1>2, <1>5 DEF ReadTransfer
<1>9. Replaces(t, n)
  BY Zenon, <1>3, <1>8, CallSet
<1>10. OneLess(c, n) /\ n.seen = seen /\ n.truth = date
  <2>1. PICK a : a = Advanced(c)
    BY Zenon
  <2>2. /\ DOMAIN a = DOMAIN Idle /\ a.of = c.of /\ a.left = Tail(c.left)
        /\ a.at = IF Len(c.left) = 1 THEN "done" ELSE "transfer"
    BY <1>5, <1>6, <2>1 DEF Advanced, CallTypes, Idle
  <2>3. n = [a EXCEPT !.seen = seen, !.truth = date]
    BY Zenon, <1>3, <1>7, <2>1 DEF AlsoRead
  <2>. QED
    BY <2>2, <2>3 DEF OneLess, Idle
<1>11. Rest(c, n)
  BY Zenon, <1>5, <1>10, RestOfCall
<1>12. DOMAIN seen = DOMAIN c.seen \union {reg} /\ seen[reg] = regs[reg]
       /\ \A r \in DOMAIN c.seen : r # reg => seen[r] = c.seen[r]
  BY <1>7
<1>13. Ticking(regs, asked, date, due)
  BY Zenon, ClockParts
<1>14. Updating(n, regs, due)
  <2>1. ASSUME n.at \in {"take", "transfer"} PROVE n.at = "transfer" /\ n.left # <<>>
    BY <1>10, <1>11, <2>1 DEF OneLess, Rest
  <2>2. ASSUME NEW i \in 1 .. Len(n.left), n.at = "transfer", n.left[i].kind = "update"
        PROVE  /\ i > 1 => n.left[i - 1] = Read(n.left[i].reg)
               /\ ~(i > 1) => ReadBefore(n, regs, due)
    <3>1. /\ n.left[i] = c.left[i + 1] /\ i + 1 \in 1 .. Len(c.left) /\ i + 1 > 1 /\ i + 1 - 1 = i
          /\ i > 1 => n.left[i - 1] = c.left[i]
      BY <1>5, <1>11, <2>2 DEF Rest
    <3>2. c.left[i] = Read(n.left[i].reg)
      BY <1>5, <1>6, <2>2, <3>1 DEF Updating
    <3>3. ASSUME ~(i > 1) PROVE ReadBefore(n, regs, due)
      <4>1. i = 1 /\ reg = n.left[1].reg
        BY <1>2, <3>2, <3>3 DEF Read
      <4>2. reg \in DOMAIN n.seen /\ n.seen[reg] = regs[reg]
        BY Zenon, <1>10, <1>12
      <4>3. due \subseteq regs.ctl2
        BY Zenon, <1>13 DEF Ticking
      <4>. QED
        BY <2>2, <4>1, <4>2, <4>3 DEF ReadBefore
    <3>. QED
      BY <3>1, <3>2, <3>3
  <2>. QED
    BY <2>1, <2>2 DEF Updating
<1>15. ASSUME c.of \in Readings PROVE Reading(n, asked)
  <2>1. c.at \in {"take", "transfer"} /\ c.at \in {"transfer", "done"}
    BY <1>6
  <2>2. /\ "time" \notin DOMAIN c.seen /\ ReportsTrue(c, asked)
        /\ \A i \in 1 .. Len(c.left) : /\ c.left[i].kind = "read"
                                       /\ c.left[i].reg = "time" => Len(c.left) = 1
    BY Zenon, <1>5, <1>15, <2>1 DEF Reading
  <2>3. ReportsTrue(n, asked)
    <3>1. ASSUME NEW r \in DOMAIN seen, r = "time"
          PROVE  TimeOf(seen.time) = [valid |-> ~date.lost, month |-> Month, year |-> date.year]
      <4>1. reg = "time" /\ seen.time = regs.time
        BY <1>12, <2>2, <3>1
      <4>2. /\ regs.time = [TimeBytes(date.year) EXCEPT !.VL = date.lost]
            /\ date.year \in 100 .. 299 /\ date.lost \in BOOLEAN
        BY <1>13 DEF Ticking
      <4>3. TimeOf(regs.time) = [valid |-> ~date.lost, month |-> Month, year |-> date.year]
        <5>1. PICK y, lost, b : y = date.year /\ lost = date.lost /\ b = regs.time
          BY Zenon
        <5>2. y \in 100 .. 299 /\ lost \in BOOLEAN /\ b = [TimeBytes(y) EXCEPT !.VL = lost]
          BY Zenon, <4>2, <5>1
        <5>3. TimeOf(b) = [valid |-> ~lost, month |-> Month, year |-> y]
          BY Zenon, <5>2, YearBytes
        <5>. QED
          BY Zenon, <5>1, <5>3
      <4>. QED
        BY Zenon, <4>1, <4>3
    <3>2. ASSUME NEW r \in DOMAIN seen, r # "time"
          PROVE  seen[r] \ Flags = asked[r] \ Flags
      <4>1. CASE r = reg
        <5>1. regs[r] \ Flags = asked[r] \ Flags
          BY <1>6, <1>13, <3>2, <4>1 DEF Ticking
        <5>. QED
          BY Zenon, <1>12, <4>1, <5>1
      <4>2. CASE r # reg
        BY <1>12, <2>2, <3>2, <4>2 DEF ReportsTrue
      <4>. QED
        BY Zenon, <4>1, <4>2
    <3>. QED
      BY <1>10, <3>1, <3>2 DEF ReportsTrue
  <2>4. ASSUME n.at = "transfer"
        PROVE  /\ "time" \notin DOMAIN n.seen
               /\ \A i \in 1 .. Len(n.left) : /\ n.left[i].kind = "read"
                                              /\ n.left[i].reg = "time" => Len(n.left) = 1
    <3>1. Len(c.left) > 1 /\ Len(c.left) # 1
      BY <1>11, <2>4 DEF Rest
    <3>2. reg # "time"
      BY <1>2, <1>5, <2>2, <3>1
    <3>3. \A i \in 1 .. Len(c.left) : c.left[i].kind = "read" /\ c.left[i].reg # "time"
      BY <2>2, <3>1
    <3>. QED
      BY <1>10, <1>11, <1>12, <2>2, <3>2, <3>3 DEF Rest
  <2>5. n.at \in {"done", "transfer"}
    BY <1>10 DEF OneLess
  <2>6. n.at \in {"take", "transfer"} => n.at = "transfer"
    BY <2>5
  <2>7. n.at # "take"
    BY <2>5
  <2>. QED
    BY Zenon, <2>3, <2>4, <2>6, <2>7 DEF Reading
<1>16. Reading(n, asked)
  <2>1. n.of = c.of
    BY <1>10 DEF OneLess
  <2>. QED
    BY <1>15, <2>1 DEF Reading
<1>17. CallOK(n, regs', asked', due') /\ n.at \in Holding
  BY Zenon, <1>8, <1>11, <1>14, <1>16 DEF CallOK, Rest
<1>18. call[t].at \in Holding
  BY <1>4 DEF Holding
<1>19. mutex' = t /\ Ticking(regs', asked', date', due')
  BY Zenon, <1>8, <1>13, <1>18, ClockParts
<1>. QED
  BY Zenon, <1>8, <1>9, <1>17, <1>18, <1>19, StepOfOne

\* A register as the writes asked for it, and nothing else written.
LEMMA PlainWrite ==
  ASSUME NEW r, NEW a, NEW d, NEW u, Ticking(r, a, d, u), NEW reg, NEW v,
         \/ reg = "alarm" /\ v \in SUBSET {"MIN", "DAY"}
         \/ reg = "clkout" /\ v \in SUBSET {"FE"}
         \/ reg = "timer" /\ v \in SUBSET {"V0"}
         \/ reg = "tctl" /\ v \in SUBSET {"TE", "TD0", "TD1"}
  PROVE  Ticking([r EXCEPT ![reg] = v], [a EXCEPT ![reg] = v], d, u)
<1>1. r \in Registers /\ a \in Registers
  BY DEF Ticking
<1>2. PICK p, q : p = [r EXCEPT ![reg] = v] /\ q = [a EXCEPT ![reg] = v]
  BY Zenon
<1>3. p \in Registers /\ q \in Registers
  BY <1>1, <1>2 DEF Registers
<1>4. p.time = r.time /\ p.ctl2 = r.ctl2 /\ q.ctl2 = a.ctl2
  BY <1>1, <1>2 DEF Registers
<1>5. p.tctl = q.tctl
  BY <1>1, <1>2 DEF Registers, Ticking
<1>6. ASSUME NEW x \in {"alarm", "clkout", "timer"} PROVE p[x] = q[x]
  BY <1>1, <1>2 DEF Registers, Ticking
<1>7. Ticking(p, q, d, u)
  BY Zenon, <1>3, <1>4, <1>5, <1>6 DEF Ticking
<1>. QED
  BY Zenon, <1>2, <1>7

\* Writing the time registers keeps the chip in step with the date asked for.
LEMMA TimeWrite ==
  ASSUME NEW r, NEW a, NEW d, NEW u, Ticking(r, a, d, u), NEW b, NEW b2, NEW y \in 100 .. 299,
         NEW lost \in BOOLEAN, b = [TimeBytes(y) EXCEPT !.VL = lost],
         b2 \in [VL : BOOLEAN, month : 0 .. 255, year : 0 .. 255]
  PROVE  Ticking([r EXCEPT !.time = b], [a EXCEPT !.time = b2], [year |-> y, lost |-> lost], u)
<1>1. r \in Registers /\ a \in Registers
  BY DEF Ticking
<1>2. b \in [VL : BOOLEAN, month : 0 .. 255, year : 0 .. 255]
  BY Zenon, TimeTyped
<1>3. PICK p, q : p = [r EXCEPT !.time = b] /\ q = [a EXCEPT !.time = b2]
  BY Zenon
<1>4. p \in Registers /\ q \in Registers
  <2>1. p \in Registers
    BY <1>1, <1>2, <1>3 DEF Registers
  <2>2. q \in Registers
    BY <1>1, <1>3 DEF Registers
  <2>. QED
    BY Zenon, <2>1, <2>2
<1>5. p.time = b /\ p.ctl2 = r.ctl2 /\ q.ctl2 = a.ctl2 /\ p.tctl = r.tctl /\ q.tctl = a.tctl
  BY <1>1, <1>3 DEF Registers
<1>6. ASSUME NEW x \in {"alarm", "clkout", "timer"} PROVE p[x] = q[x]
  BY <1>1, <1>3 DEF Registers, Ticking
<1>7. PICK e : e = [year |-> y, lost |-> lost]
  BY Zenon
<1>8. e \in [year : 100 .. 299, lost : BOOLEAN] /\ e.year = y /\ e.lost = lost
  BY <1>7
<1>9. Ticking(p, q, e, u)
  BY Zenon, <1>4, <1>5, <1>6, <1>8 DEF Ticking
<1>. QED
  BY Zenon, <1>3, <1>7, <1>9

\* ctl2 is written back as it was read, but for the bits of mask.
LEMMA FlagWrite ==
  ASSUME NEW r, NEW a, NEW d, NEW u, Ticking(r, a, d, u), NEW seen, NEW mask,
         NEW bits \in SUBSET {"TIE", "AIE"}, NEW data,
         u \subseteq seen, seen \subseteq r.ctl2, seen \ Flags = r.ctl2 \ Flags,
         data = (seen \ mask) \union bits
  PROVE  Ticking([r EXCEPT !.ctl2 = (data \ Flags) \union (data \intersect Flags \intersect r.ctl2)],
                 [a EXCEPT !.ctl2 = (a.ctl2 \ mask) \union bits], d, u \ mask)
<1>1. r \in Registers /\ a \in Registers
  BY DEF Ticking
<1>2. PICK v, w : v = (data \ Flags) \union (data \intersect Flags \intersect r.ctl2)
                  /\ w = (a.ctl2 \ mask) \union bits
  BY Zenon
<1>3. r.ctl2 \in SUBSET ({"TIE", "AIE"} \union Flags) /\ a.ctl2 \in SUBSET ({"TIE", "AIE"} \union Flags)
  BY <1>1 DEF Registers
<1>4. bits \intersect Flags = {}
  BY DEF Flags
<1>5. /\ v \in SUBSET ({"TIE", "AIE"} \union Flags) /\ w \in SUBSET ({"TIE", "AIE"} \union Flags)
      /\ u \ mask \subseteq v /\ u \ mask \subseteq Flags
  <2>1. v \in SUBSET ({"TIE", "AIE"} \union Flags)
    BY <1>2, <1>3
  <2>2. w \in SUBSET ({"TIE", "AIE"} \union Flags)
    BY <1>2, <1>3
  <2>3. u \subseteq Flags
    BY DEF Ticking
  <2>4. u \ mask \subseteq v
    BY <1>2, <2>3
  <2>. QED
    BY Zenon, <2>1, <2>2, <2>3, <2>4
<1>6. v \ Flags = w \ Flags
  <2>1. r.ctl2 \ Flags = a.ctl2 \ Flags
    BY Zenon DEF Ticking
  <2>. QED
    BY <1>2, <1>4, <2>1
<1>7. PICK p, q : p = [r EXCEPT !.ctl2 = v] /\ q = [a EXCEPT !.ctl2 = w]
  BY Zenon
<1>8. p \in Registers /\ q \in Registers
  BY <1>1, <1>5, <1>7 DEF Registers
<1>9. p.time = r.time /\ p.ctl2 = v /\ q.ctl2 = w /\ p.tctl = r.tctl /\ q.tctl = a.tctl
  BY <1>1, <1>7 DEF Registers
<1>10. ASSUME NEW x \in {"alarm", "clkout", "timer"} PROVE p[x] = q[x]
  BY <1>1, <1>7 DEF Registers, Ticking
<1>11. Ticking(p, q, d, u \ mask)
  BY Zenon, <1>5, <1>6, <1>8, <1>9, <1>10 DEF Ticking
<1>. QED
  BY Zenon, <1>2, <1>7, <1>11

\* Clearing flags nobody vouches for changes nothing.
LEMMA FewerDue ==
  ASSUME NEW r, NEW a, NEW d, NEW u, Ticking(r, a, d, u), NEW v \in SUBSET u
  PROVE  Ticking(r, a, d, v)
  BY DEF Ticking

\* A write or an update that lands keeps the chip's part of the invariant.
LEMMA LandsStep ==
  ASSUME ClockInv, NEW t \in ClockTasks, call[t].at = "transfer",
         Head(call[t].left).kind # "read", Lands(t)
  PROVE  Ticking(regs', asked', date', due')
<1>1. PICK c, x : c = call[t] /\ x = c.left[1]
  BY Zenon
<1>2. /\ CallTypes(c) /\ Updating(c, regs, due) /\ c.at = "transfer" /\ 1 \in 1 .. Len(c.left)
      /\ Head(c.left) = x /\ TransferOK(x) /\ x.kind # "read"
  BY <1>1, NextTransfer
<1>3. Ticking(regs, asked, date, due)
  BY Zenon, ClockParts
<1>4. regs \in Registers /\ asked \in Registers
  BY <1>3 DEF Ticking
<1>5. CASE x.kind = "write"
  <2>1. /\ regs' = [regs EXCEPT ![x.reg] = Stored(x.reg, x.data)]
        /\ asked' = [asked EXCEPT ![x.reg] = x.data]
        /\ date' = IF x.reg = "time" THEN [year |-> x.year, lost |-> FALSE] ELSE date
        /\ due' = due
    BY <1>1, <1>2, <1>5 DEF Lands
  <2>2. CASE x.reg = "time"
    <3>1. x.year \in 100 .. 299 /\ x.data = TimeBytes(x.year)
      BY <1>2, <1>5, <2>2 DEF TransferOK
    <3>2. PICK y, b : y = x.year /\ b = x.data
      BY Zenon
    <3>3. b = [TimeBytes(y) EXCEPT !.VL = FALSE] /\ y \in 100 .. 299
      <4>1. PICK m, z : TimeBytes(y) = [VL |-> FALSE, month |-> m, year |-> z]
        BY Zenon DEF TimeBytes
      <4>2. PICK s : s = TimeBytes(y)
        BY Zenon
      <4>3. s = [VL |-> FALSE, month |-> m, year |-> z]
        BY Zenon, <4>1, <4>2
      <4>4. s = [s EXCEPT !.VL = FALSE]
        <5>1. s \in [VL : {FALSE}, month : {m}, year : {z}]
          BY <4>3
        <5>. QED
          BY <5>1
      <4>. QED
        BY Zenon, <3>1, <3>2, <4>2, <4>4
    <3>4. b \in [VL : BOOLEAN, month : 0 .. 255, year : 0 .. 255]
      BY Zenon, <3>3, TimeTyped
    <3>5. Ticking([regs EXCEPT !.time = b], [asked EXCEPT !.time = b], [year |-> y, lost |-> FALSE], due)
      BY Zenon, <1>3, <3>3, <3>4, TimeWrite
    <3>6. /\ regs' = [regs EXCEPT !.time = b] /\ asked' = [asked EXCEPT !.time = b]
          /\ date' = [year |-> y, lost |-> FALSE]
      BY <2>1, <2>2, <3>2 DEF Stored
    <3>. QED
      BY Zenon, <2>1, <3>5, <3>6
  <2>3. CASE x.reg # "time"
    <3>1. PICK reg, v : reg = x.reg /\ v = x.data
      BY Zenon
    <3>2. \/ reg = "alarm" /\ v \in SUBSET {"MIN", "DAY"}
          \/ reg = "clkout" /\ v \in SUBSET {"FE"}
          \/ reg = "timer" /\ v \in SUBSET {"V0"}
      BY <1>2, <1>5, <2>3, <3>1 DEF TransferOK
    <3>3. Ticking([regs EXCEPT ![reg] = v], [asked EXCEPT ![reg] = v], date, due)
      BY Zenon, <1>3, <3>2, PlainWrite
    <3>4. regs' = [regs EXCEPT ![reg] = v] /\ asked' = [asked EXCEPT ![reg] = v] /\ date' = date
      BY <2>1, <2>3, <3>1, <3>2 DEF Stored
    <3>. QED
      BY Zenon, <2>1, <3>3, <3>4
  <2>. QED
    BY Zenon, <2>2, <2>3
<1>6. CASE x.kind = "update"
  <2>1. PICK reg, mask, bits : reg = x.reg /\ mask = x.mask /\ bits = x.bits
    BY Zenon
  <2>2. PICK data : data = (c.seen[reg] \ mask) \union bits
    BY Zenon
  <2>3. /\ regs' = [regs EXCEPT ![reg] = Stored(reg, data)]
        /\ asked' = [asked EXCEPT ![reg] = (asked[reg] \ mask) \union bits]
        /\ date' = IF reg = "time" THEN [year |-> x.year, lost |-> FALSE] ELSE date
        /\ due' = due \ mask
    BY <1>1, <1>2, <1>6, <2>1, <2>2 DEF Lands, Replaced
  <2>4. \/ reg = "ctl2" /\ bits \in SUBSET {"TIE", "AIE"}
        \/ reg = "tctl" /\ bits \in SUBSET {"TE", "TD0", "TD1"}
    BY <1>2, <1>6, <2>1 DEF TransferOK
  <2>5. ReadBefore(c, regs, due)
    BY <1>1, <1>2, <1>6 DEF Updating
  <2>6. date' = date
    BY <2>3, <2>4
  <2>7. CASE reg = "ctl2"
    <3>1. /\ due \subseteq c.seen.ctl2 /\ c.seen.ctl2 \subseteq regs.ctl2
          /\ c.seen.ctl2 \ Flags = regs.ctl2 \ Flags
      BY <1>1, <2>1, <2>5, <2>7 DEF ReadBefore
    <3>2. PICK seen : seen = c.seen.ctl2
      BY Zenon
    <3>3. /\ regs' = [regs EXCEPT !.ctl2 = (data \ Flags) \union (data \intersect Flags \intersect regs.ctl2)]
          /\ asked' = [asked EXCEPT !.ctl2 = (asked.ctl2 \ mask) \union bits]
      BY <2>3, <2>7 DEF Stored
    <3>4. data = (seen \ mask) \union bits /\ bits \in SUBSET {"TIE", "AIE"}
      BY <2>2, <2>4, <2>7, <3>2
    <3>5. Ticking([regs EXCEPT !.ctl2 = (data \ Flags) \union (data \intersect Flags \intersect regs.ctl2)],
                  [asked EXCEPT !.ctl2 = (asked.ctl2 \ mask) \union bits], date, due \ mask)
      BY Zenon, <1>3, <3>1, <3>2, <3>4, FlagWrite
    <3>. QED
      BY Zenon, <2>3, <2>6, <3>3, <3>5
  <2>8. CASE reg = "tctl"
    <3>1. c.seen.tctl = regs.tctl /\ regs.tctl = asked.tctl
      BY <1>1, <1>3, <2>1, <2>5, <2>8 DEF ReadBefore, Ticking
    <3>2. data \in SUBSET {"TE", "TD0", "TD1"} /\ data = (asked.tctl \ mask) \union bits
      <4>1. regs.tctl \in SUBSET {"TE", "TD0", "TD1"}
        BY <1>4 DEF Registers
      <4>2. bits \in SUBSET {"TE", "TD0", "TD1"}
        BY <2>4, <2>8
      <4>3. c.seen[reg] = regs.tctl
        BY <2>8, <3>1
      <4>. QED
        BY <2>2, <3>1, <4>1, <4>2, <4>3
    <3>3. Ticking([regs EXCEPT ![reg] = data], [asked EXCEPT ![reg] = data], date, due)
      BY Zenon, <1>3, <2>8, <3>2, PlainWrite
    <3>4. regs' = [regs EXCEPT ![reg] = data] /\ asked' = [asked EXCEPT ![reg] = data]
      BY <2>3, <2>8, <3>2 DEF Stored
    <3>5. due' \in SUBSET due
      BY <2>3
    <3>. QED
      BY Zenon, <2>6, <3>3, <3>4, <3>5, FewerDue
  <2>. QED
    BY Zenon, <2>4, <2>7, <2>8
<1>7. x.kind \in {"write", "update"}
  BY <1>2 DEF TransferOK
<1>. QED
  BY <1>5, <1>6, <1>7

\* A write transfer keeps the clock's invariant.
LEMMA WriteTransferStep ==
  ASSUME ClockInv, NEW t \in ClockTasks, WriteTransfer(t)
  PROVE  ClockInv'
<1>1. PICK c : c = call[t]
  BY Zenon
<1>2. PICK n : n = Advanced(c)
  BY Zenon
<1>3. /\ mutex' = mutex /\ chips' = chips /\ made' = made /\ Lands(t)
      /\ c.at = "transfer" /\ Head(c.left).kind # "read"
      /\ call' = [call EXCEPT ![t] = Advanced(c)]
  BY <1>1 DEF WriteTransfer
<1>4. /\ CallTypes(c) /\ Updating(c, regs, due) /\ Reading(c, asked)
      /\ c.left # <<>> /\ 1 \in 1 .. Len(c.left) /\ c.left[1].kind # "read"
  BY <1>1, <1>3, NextTransfer
<1>5. Ticking(regs', asked', date', due')
  BY Zenon, <1>1, <1>3, LandsStep
<1>6. Replaces(t, n)
  BY Zenon, <1>2, <1>3, CallSet
<1>7. OneLess(c, n)
  BY <1>2, <1>3, <1>4 DEF Advanced, OneLess, CallTypes, Idle
<1>8. Rest(c, n)
  BY Zenon, <1>4, <1>7, RestOfCall
<1>9. Updating(n, regs', due')
  <2>1. ASSUME n.at \in {"take", "transfer"} PROVE n.at = "transfer" /\ n.left # <<>>
    BY <1>7, <1>8, <2>1 DEF OneLess, Rest
  <2>2. ASSUME NEW i \in 1 .. Len(n.left), n.left[i].kind = "update"
        PROVE  i > 1 /\ n.left[i - 1] = Read(n.left[i].reg)
    <3>1. /\ n.left[i] = c.left[i + 1] /\ i + 1 \in 1 .. Len(c.left) /\ i + 1 > 1 /\ i + 1 - 1 = i
          /\ i > 1 => n.left[i - 1] = c.left[i]
      BY <1>8, <2>2 DEF Rest
    <3>2. c.left[i] = Read(n.left[i].reg)
      BY <1>3, <1>4, <2>2, <3>1 DEF Updating
    <3>3. c.left[i].kind = "read"
      BY <3>2 DEF Read
    <3>4. i > 1
      BY <1>4, <3>3
    <3>. QED
      BY <3>1, <3>2, <3>4
  <2>. QED
    BY <2>1, <2>2 DEF Updating
<1>10. Reading(n, asked')
  <2>1. n.of = c.of /\ c.at \in {"take", "transfer"}
    BY <1>3, <1>7 DEF OneLess
  <2>2. c.of \notin Readings
    BY <1>4, <2>1 DEF Reading
  <2>. QED
    BY <2>1, <2>2 DEF Reading
<1>11. CallOK(n, regs', asked', due') /\ n.at \in Holding
  BY Zenon, <1>8, <1>9, <1>10 DEF CallOK, Rest
<1>12. call[t].at \in Holding
  BY <1>1, <1>3 DEF Holding
<1>13. mutex' = t
  BY Zenon, <1>3, <1>12, ClockParts
<1>. QED
  BY Zenon, <1>3, <1>5, <1>6, <1>11, <1>12, <1>13, StepOfOne

\* A transfer that fails keeps the clock's invariant.
LEMMA TransferFailsStep ==
  ASSUME ClockInv, NEW t \in ClockTasks, TransferFails(t)
  PROVE  ClockInv'
<1>1. PICK c : c = call[t]
  BY Zenon
<1>2. PICK n : n = [c EXCEPT !.at = "failed"]
  BY Zenon
<1>3. /\ mutex' = mutex /\ chips' = chips /\ made' = made /\ c.at = "transfer"
      /\ call' = [call EXCEPT ![t] = [c EXCEPT !.at = "failed"]]
  BY <1>1 DEF TransferFails
<1>4. CallTypes(c)
  BY <1>1, <1>3, NextTransfer
<1>5. Ticking(regs', asked', date', due')
  <2>1. CASE UNCHANGED <<regs, asked, date, due>>
    BY Zenon, <2>1, ClockParts
  <2>2. CASE Head(call[t].left).kind # "read" /\ Lands(t)
    BY Zenon, <1>1, <1>3, <2>2, LandsStep
  <2>. QED
    BY Zenon, <2>1, <2>2 DEF TransferFails
<1>6. Replaces(t, n)
  BY Zenon, <1>2, <1>3, CallSet
<1>7. DOMAIN n = DOMAIN Idle /\ n.at = "failed" /\ n.left = c.left
  BY <1>2, <1>4 DEF CallTypes, Idle
<1>8. CallTypes(n)
  BY <1>4, <1>7 DEF CallTypes
<1>9. Updating(n, regs', due') /\ Reading(n, asked') /\ n.at \in Holding
  BY <1>7 DEF Updating, Reading, Holding
<1>10. CallOK(n, regs', asked', due')
  BY Zenon, <1>8, <1>9 DEF CallOK
<1>11. call[t].at \in Holding
  BY <1>1, <1>3 DEF Holding
<1>12. mutex' = t
  BY Zenon, <1>3, <1>11, ClockParts
<1>. QED
  BY Zenon, <1>3, <1>5, <1>6, <1>9, <1>10, <1>11, <1>12, StepOfOne

\* The chip acts: the calls go on as they are.
LEMMA ChipStep ==
  ASSUME ClockInv, call' = call, mutex' = mutex, made' = made, asked' = asked,
         chips < MaxChip, chips' = chips + 1, Ticking(regs', asked', date', due'),
         \A t \in ClockTasks : Updating(call[t], regs', due')
  PROVE  ClockInv'
<1>1. chips' \in 0 .. MaxChip
  <2>1. chips \in 0 .. MaxChip
    BY Zenon, ClockParts
  <2>. QED
    BY <2>1, ClockAssumption
<1>2. \A t \in ClockTasks : CallOK(call'[t], regs', asked', due')
  BY Zenon, ClockParts DEF CallOK
<1>3. /\ DOMAIN call' = ClockTasks /\ mutex' \in ClockTasks \union {Free}
      /\ \A t \in ClockTasks : mutex' = t <=> call'[t].at \in Holding
      /\ made' \in 0 .. MaxCalls
  BY Zenon, ClockParts
<1>. QED
  BY Zenon, <1>1, <1>2, <1>3, ClockPartsNext

\* The chip raising a flag keeps the clock's invariant.
LEMMA FlagRaisedStep ==
  ASSUME ClockInv, NEW flag \in Flags, FlagRaised(flag)
  PROVE  ClockInv'
<1>1. Ticking(regs, asked, date, due) /\ \A t \in ClockTasks : CallOK(call[t], regs, asked, due)
  BY Zenon, ClockParts
<1>2. /\ regs' = [regs EXCEPT !.ctl2 = regs.ctl2 \union {flag}]
      /\ due' = IF \E t \in ClockTasks : Changing(t) THEN due ELSE due \union {flag}
      /\ call' = call /\ mutex' = mutex /\ made' = made /\ asked' = asked /\ date' = date
      /\ chips < MaxChip /\ chips' = chips + 1
  BY DEF FlagRaised
<1>3. regs \in Registers /\ due \subseteq Flags
  BY <1>1 DEF Ticking
<1>4. /\ regs' \in Registers /\ regs'.ctl2 = regs.ctl2 \union {flag}
      /\ regs'.time = regs.time /\ regs'.tctl = regs.tctl
      /\ \A x \in {"alarm", "clkout", "timer"} : regs'[x] = regs[x]
  BY <1>2, <1>3 DEF Registers
<1>5. due' \subseteq due \union {flag}
  BY <1>2
<1>6. Ticking(regs', asked', date', due')
  <2>1. due' \subseteq Flags /\ due' \subseteq regs'.ctl2
    BY <1>1, <1>4, <1>5 DEF Ticking
  <2>2. regs'.ctl2 \ Flags = asked.ctl2 \ Flags
    <3>1. regs.ctl2 \ Flags = asked.ctl2 \ Flags
      BY Zenon, <1>1 DEF Ticking
    <3>2. regs'.ctl2 \ Flags = regs.ctl2 \ Flags
      BY <1>4
    <3>. QED
      BY Zenon, <3>1, <3>2
  <2>. QED
    BY Zenon, <1>1, <1>2, <1>4, <2>1, <2>2 DEF Ticking
<1>7. ASSUME NEW t \in ClockTasks PROVE Updating(call[t], regs', due')
  <2>1. PICK c : c = call[t]
    BY Zenon
  <2>2. Updating(c, regs, due) /\ CallTypes(c)
    BY Zenon, <1>1, <2>1 DEF CallOK
  <2>3. ASSUME ReadBefore(c, regs, due), c.left # <<>>, c.left[1].kind = "update"
        PROVE  ReadBefore(c, regs', due')
    <3>1. c.left[1].reg = "ctl2" => due' = due
      <4>1. Head(c.left) = c.left[1]
        BY <2>2, <2>3 DEF CallTypes
      <4>. QED
        BY <1>2, <2>1, <2>3, <4>1 DEF ReadBefore, Changing
    <3>2. c.left[1].reg = "ctl2" =>
            c.seen.ctl2 \subseteq regs'.ctl2 /\ c.seen.ctl2 \ Flags = regs'.ctl2 \ Flags
      <4>1. regs'.ctl2 \ Flags = regs.ctl2 \ Flags
        BY <1>4
      <4>. QED
        BY <1>4, <2>3, <4>1 DEF ReadBefore
    <3>. QED
      BY <1>4, <2>3, <3>1, <3>2 DEF ReadBefore
  <2>4. Updating(c, regs', due')
    <3> SUFFICES ASSUME c.at \in {"take", "transfer"} PROVE
                   /\ c.left # <<>>
                   /\ \A i \in 1 .. Len(c.left) : c.left[i].kind = "update" =>
                        IF i > 1 THEN c.left[i - 1] = Read(c.left[i].reg)
                        ELSE ReadBefore(c, regs', due')
      BY Zenon DEF Updating
    <3>1. c.left # <<>>
      BY Zenon, <2>2 DEF Updating
    <3>2. ASSUME NEW i \in 1 .. Len(c.left), c.left[i].kind = "update"
          PROVE  IF i > 1 THEN c.left[i - 1] = Read(c.left[i].reg)
                 ELSE ReadBefore(c, regs', due')
      <4>1. IF i > 1 THEN c.left[i - 1] = Read(c.left[i].reg) ELSE ReadBefore(c, regs, due)
        BY Zenon, <2>2, <3>2 DEF Updating
      <4>2. ~(i > 1) => i = 1
        OBVIOUS
      <4>. QED
        BY <2>3, <3>1, <3>2, <4>1, <4>2
    <3>. QED
      BY Zenon, <3>1, <3>2
  <2>. QED
    BY Zenon, <2>1, <2>4
<1>. QED
  BY Zenon, <1>2, <1>6, <1>7, ChipStep

\* The chip changes the time only.
LEMMA TimeStep ==
  ASSUME ClockInv, call' = call, mutex' = mutex, made' = made, asked' = asked, due' = due,
         chips < MaxChip, chips' = chips + 1, NEW b,
         regs' = [regs EXCEPT !.time = b], NEW y \in 100 .. 299, NEW lost \in BOOLEAN,
         b = [TimeBytes(y) EXCEPT !.VL = lost], date' = [year |-> y, lost |-> lost]
  PROVE  ClockInv'
<1>1. /\ Ticking(regs, asked, date, due)
      /\ \A t \in ClockTasks : CallOK(call[t], regs, asked, due)
  BY Zenon, ClockParts
<1>2. regs \in Registers /\ asked \in Registers
  BY <1>1 DEF Ticking
<1>3. asked = [asked EXCEPT !.time = asked.time]
      /\ asked.time \in [VL : BOOLEAN, month : 0 .. 255, year : 0 .. 255]
  BY <1>2 DEF Registers
<1>4. Ticking(regs', asked', date', due')
  <2>1. Ticking([regs EXCEPT !.time = b], [asked EXCEPT !.time = asked.time],
                [year |-> y, lost |-> lost], due)
    <3>1. PICK b2 : b2 = asked.time
      BY Zenon
    <3>2. Ticking([regs EXCEPT !.time = b], [asked EXCEPT !.time = b2], [year |-> y, lost |-> lost], due)
      BY Zenon, <1>1, <1>3, <3>1, TimeWrite
    <3>. QED
      BY Zenon, <3>1, <3>2
  <2>. QED
    BY Zenon, <1>3, <2>1
<1>5. regs'.ctl2 = regs.ctl2 /\ regs'.tctl = regs.tctl
  BY <1>2 DEF Registers
<1>6. \A t \in ClockTasks : Updating(call[t], regs', due')
  BY Zenon, <1>1, <1>5 DEF CallOK, Updating, ReadBefore
<1>. QED
  BY Zenon, <1>4, <1>6, ChipStep

\* The turn of the year keeps the clock's invariant.
LEMMA YearEndsStep == ASSUME ClockInv, YearEnds PROVE ClockInv'
<1>1. Ticking(regs, asked, date, due)
  BY Zenon, ClockParts
<1>2. /\ regs \in Registers /\ date.year \in 100 .. 299 /\ date.lost \in BOOLEAN
      /\ regs.time = [TimeBytes(date.year) EXCEPT !.VL = date.lost]
      /\ date \in [year : 100 .. 299, lost : BOOLEAN]
  BY <1>1 DEF Ticking
<1>3. PICK y, lost, b : y = date.year /\ lost = date.lost /\ b = regs.time
  BY Zenon
<1>4. y \in 100 .. 299 /\ lost \in BOOLEAN /\ b = [TimeBytes(y) EXCEPT !.VL = lost]
  BY Zenon, <1>2, <1>3
<1>5. DatedBytes(y, lost, b)
  BY Zenon, <1>4, YearBytes
<1>6. PICK n : n = NextYear(b)
  BY Zenon
<1>7. /\ regs' = [regs EXCEPT !.time = n] /\ date' = [year |-> y + 1, lost |-> lost] /\ y < 299
      /\ call' = call /\ mutex' = mutex /\ made' = made /\ asked' = asked /\ due' = due
      /\ chips < MaxChip /\ chips' = chips + 1
  <2>1. regs' = [regs EXCEPT !.time = n]
    BY <1>3, <1>6 DEF YearEnds
  <2>2. date' = [year |-> y + 1, lost |-> lost] /\ y < 299
    BY <1>2, <1>3 DEF YearEnds
  <2>. QED
    BY <2>1, <2>2 DEF YearEnds
<1>8. PICK z : z = y + 1
  BY Zenon
<1>9. z \in 100 .. 299
  BY <1>4, <1>7, <1>8
<1>10. PICK e : e = [TimeBytes(z) EXCEPT !.VL = lost]
  BY Zenon
<1>11. DatedBytes(z, lost, e)
  BY Zenon, <1>4, <1>9, <1>10, YearBytes
<1>12. bcd2dec(b.year) = IF y >= 200 THEN y - 200 ELSE y - 100
  <2>1. CASE y >= 200
    <3>1. y - 200 \in 0 .. 99 /\ b.year = dec2bcd(y - 200)
      BY <1>4, <1>5, <2>1 DEF DatedBytes
    <3>. QED
      BY <2>1, <3>1, Bcd
  <2>2. CASE ~(y >= 200)
    <3>1. y - 100 \in 0 .. 99 /\ b.year = dec2bcd(y - 100)
      BY <1>4, <1>5, <2>2 DEF DatedBytes
    <3>. QED
      BY <2>2, <3>1, Bcd
  <2>. QED
    BY Zenon, <2>1, <2>2
<1>13. /\ dec2bcd((bcd2dec(b.year) + 1) % 100) = e.year
       /\ (IF bcd2dec(b.year) = 99 THEN (b.month + 128) % 256 ELSE b.month) = e.month
  <2>1. CASE y < 199
    <3>1. (bcd2dec(b.year) + 1) % 100 = z - 100 /\ bcd2dec(b.year) # 99 /\ ~(z >= 200) /\ ~(y >= 200)
      BY <1>4, <1>8, <1>12, <2>1
    <3>. QED
      BY <1>5, <1>11, <3>1 DEF DatedBytes
  <2>2. CASE y = 199
    <3>1. (bcd2dec(b.year) + 1) % 100 = 0 /\ z - 200 = 0 /\ bcd2dec(b.year) = 99 /\ z >= 200 /\ ~(y >= 200)
      BY <1>4, <1>8, <1>12, <2>2
    <3>2. b.month = 18 /\ e.month = 146 /\ (18 + 128) % 256 = 146 /\ e.year = dec2bcd(z - 200)
      BY <1>5, <1>11, <3>1 DEF DatedBytes
    <3>. QED
      BY <3>1, <3>2
  <2>3. CASE y >= 200
    <3>1. (bcd2dec(b.year) + 1) % 100 = z - 200 /\ bcd2dec(b.year) # 99 /\ z >= 200
      BY <1>4, <1>7, <1>8, <1>12, <2>3
    <3>. QED
      BY <1>5, <1>11, <2>3, <3>1 DEF DatedBytes
  <2>. QED
    BY <1>4, <2>1, <2>2, <2>3
<1>14. n = e
  <2>1. /\ b \in [VL : BOOLEAN, month : 0 .. 255, year : 0 .. 255]
        /\ e \in [VL : BOOLEAN, month : 0 .. 255, year : 0 .. 255]
        /\ b.VL = lost /\ e.VL = lost
    BY <1>5, <1>11 DEF DatedBytes
  <2>2. n = [b EXCEPT !.year = e.year, !.month = e.month]
    BY Zenon, <1>6, <1>13 DEF NextYear
  <2>. QED
    BY <2>1, <2>2
<1>. QED
  BY Zenon, <1>4, <1>7, <1>8, <1>9, <1>10, <1>14, TimeStep

\* A drop of the chip's supply keeps the clock's invariant.
LEMMA PowerDropsStep == ASSUME ClockInv, PowerDrops PROVE ClockInv'
<1>1. Ticking(regs, asked, date, due)
  BY Zenon, ClockParts
<1>2. /\ regs \in Registers /\ date.year \in 100 .. 299 /\ date.lost \in BOOLEAN
      /\ regs.time = [TimeBytes(date.year) EXCEPT !.VL = date.lost]
      /\ date \in [year : 100 .. 299, lost : BOOLEAN]
  BY <1>1 DEF Ticking
<1>3. PICK y, b : y = date.year /\ b = [regs.time EXCEPT !.VL = TRUE]
  BY Zenon
<1>4. b = [TimeBytes(y) EXCEPT !.VL = TRUE]
  <2>1. \E m, z : TimeBytes(y) = [VL |-> FALSE, month |-> m, year |-> z]
    BY Zenon DEF TimeBytes
  <2>. QED
    BY <1>2, <1>3, <2>1
<1>5. /\ regs' = [regs EXCEPT !.time = b] /\ date' = [year |-> y, lost |-> TRUE]
      /\ call' = call /\ mutex' = mutex /\ made' = made /\ asked' = asked /\ due' = due
      /\ chips < MaxChip /\ chips' = chips + 1
  BY <1>2, <1>3 DEF PowerDrops, Registers
<1>. QED
  BY Zenon, <1>2, <1>3, <1>4, <1>5, TimeStep

\* Every step of the clock keeps its invariant.
LEMMA ClockStep == ASSUME ClockInv, [ClockNext]_clockVars PROVE ClockInv'
<1>1. CASE ChipActs
  BY Zenon, <1>1, FlagRaisedStep, YearEndsStep, PowerDropsStep DEF ChipActs
<1>2. ASSUME NEW t \in ClockTasks,
             Call(t) \/ TakeMutex(t) \/ GiveMutex(t)
             \/ ReadTransfer(t) \/ WriteTransfer(t) \/ TransferFails(t)
      PROVE  ClockInv'
  BY Zenon, <1>2, CallStep, TakeMutexStep, GiveMutexStep, ReadTransferStep, WriteTransferStep,
     TransferFailsStep
<1>. QED
  BY Zenon, <1>1, <1>2, ClockStutters DEF ClockNext

\* The clock's invariant holds at the start.
LEMMA InitClock == ClockInit => ClockInv
<1> SUFFICES ASSUME ClockInit PROVE ClockInv
  OBVIOUS
<1>1. PICK b, d, r : b = [TimeBytes(100) EXCEPT !.VL = TRUE] /\ d = [year |-> 100, lost |-> TRUE] /\ r = FirstRegs
  BY Zenon
<1>2. /\ regs = r /\ asked = r /\ mutex = Free /\ due = {} /\ chips = 0 /\ made = 0 /\ date = d
      /\ call = [t \in ClockTasks |-> Idle]
  BY <1>1 DEF ClockInit
<1>3. b \in [VL : BOOLEAN, month : 0 .. 255, year : 0 .. 255]
  <2>1. PICK y : y = 100
    BY Zenon
  <2>2. y \in 100 .. 299 /\ b = [TimeBytes(y) EXCEPT !.VL = TRUE]
    BY <1>1, <2>1
  <2>. QED
    BY Zenon, <2>2, TimeTyped
<1>4. /\ r = [ctl2 |-> {}, tctl |-> {}, alarm |-> {}, clkout |-> {}, timer |-> {}, time |-> b]
  BY Zenon, <1>1 DEF FirstRegs
<1>5. r \in Registers /\ r.time = b
  BY <1>3, <1>4 DEF Registers
<1>6. d \in [year : 100 .. 299, lost : BOOLEAN] /\ d.year = 100 /\ d.lost = TRUE
  BY <1>1
<1>7. {} \subseteq Flags /\ {} \subseteq r.ctl2
  OBVIOUS
<1>8. Ticking(regs, asked, date, due)
  BY Zenon, <1>1, <1>2, <1>5, <1>6, <1>7 DEF Ticking
<1>9. Idle.at = "idle" /\ Idle.left = <<>>
  BY DEF Idle
<1>10. CallTypes(Idle)
  BY <1>9 DEF CallTypes
<1>11. Updating(Idle, regs, due) /\ Reading(Idle, asked) /\ Idle.at \notin Holding
  BY <1>9 DEF Updating, Reading, Holding
<1>12. CallOK(Idle, regs, asked, due)
  BY Zenon, <1>10, <1>11 DEF CallOK
<1>13. \A t \in ClockTasks : call[t] = Idle /\ mutex # t
  BY Zenon, <1>2, ClockAssumption DEF Free
<1>14. chips \in 0 .. MaxChip /\ made \in 0 .. MaxCalls /\ DOMAIN call = ClockTasks
  BY <1>2, ClockAssumption
<1>15. \A t \in ClockTasks : CallOK(call[t], regs, asked, due) /\ (mutex = t <=> call[t].at \in Holding)
  BY Zenon, <1>11, <1>12, <1>13
<1>16. mutex \in ClockTasks \union {Free}
  BY Zenon, <1>2
<1>. QED
  BY Zenon, <1>8, <1>14, <1>15, <1>16, ClockParts

\* The invariant gives ReadsAreTrue.
LEMMA ReadsTrue == ClockInv => ReadsAreTrue
<1> SUFFICES ASSUME ClockInv, NEW t \in ClockTasks, call[t].at = "done", call[t].of \in Readings
             PROVE  ReportsTrue(call[t], asked)
  BY Zenon DEF ReadsAreTrue
<1>1. Reading(call[t], asked)
  BY Zenon, ClockParts DEF CallOK
<1>. QED
  BY <1>1 DEF Reading

-----------------------------------------------------------------------------
(* The panel.                                                              *)

panelVars == <<part, btnVars, adcVars, outVars, clockVars>>

\* The parts do not disturb one another: what each relies on holds from the start
\* and is kept by every step, its own and the others'.
LEMMA InitPanel == PanelInit => PanelInv
  BY Zenon, InitButton, InitAdc, InitOut, InitClock DEF PanelInit, PanelInv

\* A step of the panel is a step or a stutter of each of its parts.
LEMMA PanelSteps ==
  ASSUME [PanelNext]_panelVars
  PROVE  [ButtonNext]_btnVars /\ [AdcNext]_adcVars /\ [OutNext]_outVars /\ [ClockNext]_clockVars
<1>1. CASE PanelNext
  BY Zenon, <1>1 DEF PanelNext
<1>2. CASE UNCHANGED panelVars
  BY Zenon, <1>2 DEF panelVars
<1>. QED
  BY Zenon, <1>1, <1>2

\* The four invariants together survive every step of the panel.
LEMMA PanelStep == PanelInv /\ [PanelNext]_panelVars => PanelInv'
  BY Zenon, PanelSteps, ButtonStep, AdcStep, OutStep, ClockStep DEF PanelInv

\* From any start, every reachable state of the four parts has what they rely on.
THEOREM PanelInvariant == PanelSpec => []PanelInv
<1>1. PanelInit => PanelInv
  BY InitPanel
<1>2. PanelInv /\ [PanelNext]_<<part, btnVars, adcVars, outVars, clockVars>> => PanelInv'
  BY PanelStep DEF panelVars
<1>. QED
  BY <1>1, <1>2, PTL DEF PanelSpec

\* The types of the button, the keys, the outputs and the clock: every counter of
\* the button stays within its bit field (button.h), every entry of the channel
\* table keeps a channel or the marker of none, and what the clock's calls have
\* left to do are transfers of the driver's functions.
THEOREM PanelTypesHold == PanelSpec => []PanelTypes
<1>1. PanelInv => PanelTypes
  BY Zenon DEF PanelInv, PanelTypes, ButtonInv, AdcInv, OutInv, ClockInv
<1>. QED
  BY <1>1, PanelInvariant, PTL

\* A callback of the button is called only for what was pressed, as often and as
\* long as it says, with any number of callbacks and any bounce of the contact; no
\* channel is taken twice, and a key is judged by a voltage of its own channel or
\* one measured within the same millisecond.
THEOREM InputsHold == PanelSpec => []InputsAreTrue
<1>1. PanelInv => InputsAreTrue
  BY Zenon DEF PanelInv, InputsAreTrue, ButtonInv, AdcInv
<1>. QED
  BY <1>1, PanelInvariant, PTL

\* Pins and lights are as last commanded unless two commands met on them, a port
\* is disabled exactly while it is inactive, and the clock keeps its settings, its
\* flags and its time through any calls, failures and flags.
THEOREM OutputsHold == PanelSpec => []OutputsKept
<1>1. PanelInv => OutputsKept
  <2>1. ClockInv => SettingsKept /\ FlagsKept
    BY Zenon DEF ClockInv
  <2>. QED
    BY Zenon, <2>1, OutKeeps, ReadsTrue DEF PanelInv, OutputsKept
<1>. QED
  BY <1>1, PanelInvariant, PTL

\* If a callback is registered for the press and one for the release, no press is
\* told twice without the release between, nor a release without its press.
THEOREM PressesPaired == BothRegistered => (PanelSpec => PressesArePaired)
<1> SUFFICES ASSUME BothRegistered PROVE PanelSpec => PressesArePaired
  OBVIOUS
<1>1. PanelInit => ToldInv
  BY Zenon, InitButton DEF PanelInit
<1>2. PanelInv /\ ToldInv /\ [PanelNext]_<<part, btnVars, adcVars, outVars, clockVars>>
        => /\ ToldInv'
           /\ [stores = 2 * Len(Registered) =>
                /\ Hears(calls', "PRESS_DOWN") => told # "down"
                /\ Hears(calls', "PRESS_UP") => told # "up"]_btnVars
  <2> SUFFICES ASSUME PanelInv, ToldInv, [PanelNext]_panelVars
               PROVE  /\ ToldInv'
                      /\ [stores = 2 * Len(Registered) =>
                           /\ Hears(calls', "PRESS_DOWN") => told # "down"
                           /\ Hears(calls', "PRESS_UP") => told # "up"]_btnVars
    BY Zenon DEF panelVars
  <2>1. ButtonInv /\ [ButtonNext]_btnVars
    BY Zenon, PanelSteps DEF PanelInv
  <2>. QED
    BY Zenon, <2>1, PairedStep
<1>. QED
  BY <1>1, <1>2, PanelInvariant, PTL DEF PanelSpec, PressesArePaired
=============================================================================
