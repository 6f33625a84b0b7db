------------------------------ MODULE AdcKeys ------------------------------
(***************************************************************************)
(* button_adc.c: several keys hang on one ADC channel, each pressed when   *)
(* the voltage lies between its min and max.  A table of three channels is *)
(* filled and emptied by button_adc_init and button_adc_deinit, and        *)
(* button_adc_get_key_level samples a channel at most once a millisecond.  *)
(* The voltage is one static variable for all channels, its age is kept    *)
(* per channel.  A voltage is modelled by the channel it was measured on,  *)
(* and the age by whether the millisecond has passed.                      *)
(***************************************************************************)
EXTENDS Naturals, FiniteSets

CONSTANTS
    Channels,   \* the ADC1 channels in use; channel 0 is the value of zeroed memory
    MaxEntries, \* ADC_BUTTON_MAX_CHANNEL: 3 in the code
    Keys        \* the indices of the keys of a channel: 0 .. 7 in the code

CHANNEL_MAX == 8    \* ADC1_CHANNEL_MAX, which no key may have

ASSUME AdcAssumption == Channels \subseteq 0 .. CHANNEL_MAX - 1 /\ MaxEntries \in Nat \ {0}

VARIABLES
    g_button,   \* ch: channel, is_init, the keys with max # 0, last_time less than 1 ms ago
    vol,        \* the channel the static voltage was measured on
    judged,     \* ghost: the key level just read: the key's channel and the voltage's
    sampled     \* ghost: pairs <<c, d>>: d was measured after c, within c's millisecond

adcVars == <<g_button, vol, judged, sampled>>

Entries == 1 .. MaxEntries
Zeroed  == [channel |-> 0, is_init |-> FALSE, btns |-> {}, recent |-> FALSE]

NoKey == [key |-> CHANNEL_MAX, by |-> CHANNEL_MAX]

AdcTypeOK ==
    /\ g_button \in [Entries -> [channel : Channels \union {0, CHANNEL_MAX}, is_init : BOOLEAN,
                                 btns : SUBSET Keys, recent : BOOLEAN]]
    /\ vol \in Channels \union {CHANNEL_MAX}
    /\ sampled \subseteq Channels \X Channels

AdcInit ==
    /\ g_button = [e \in Entries |-> Zeroed]
    /\ vol = CHANNEL_MAX
    /\ judged = NoKey
    /\ sampled = {}

-----------------------------------------------------------------------------

FirstOf(S) == CHOOSE e \in S : \A f \in S : e <= f
OfChannel(c) == {e \in Entries : g_button[e].channel = c}

\* find_channel, which also finds a zeroed entry when channel 0 is looked for,
\* or else find_unused_channel.
EntryFor_AnyUnused(c) == {e \in Entries : ~g_button[e].is_init}
EntryFor(c) == IF OfChannel(c) # {} THEN {FirstOf(OfChannel(c))}
               ELSE {e \in Entries : /\ ~g_button[e].is_init
                                     /\ \A f \in 1 .. e - 1 : g_button[f].is_init}

\* A channel taken into use: its last_time is 0, long ago.
TakenInUse_KeepsTime(b, c) == [b EXCEPT !.channel = c, !.is_init = TRUE]
TakenInUse(b, c) ==
    IF b.is_init THEN b
    ELSE [b EXCEPT !.channel = c, !.is_init = TRUE, !.recent = FALSE]
WithKey(b, k) == [b EXCEPT !.btns = @ \union {k}]

AdcKeyInit(c, k) == \E e \in EntryFor(c) :
    /\ k \notin g_button[e].btns
    /\ g_button' = [g_button EXCEPT ![e] = WithKey(TakenInUse(@, c), k)]
    /\ sampled' = IF g_button[e].is_init THEN sampled ELSE {p \in sampled : p[1] # c}
    /\ judged' = NoKey
    /\ UNCHANGED vol

\* The last key of a channel gives up its entry; the last entry clears the
\* table.
AdcKeyDeinit(c, k) == OfChannel(c) # {} /\
    LET e == FirstOf(OfChannel(c))
        left == g_button[e].btns \ {k}
        g == [g_button EXCEPT
                ![e] = IF left = {} /\ @.is_init
                       THEN [@ EXCEPT !.btns = {}, !.is_init = FALSE, !.channel = CHANNEL_MAX]
                       ELSE [@ EXCEPT !.btns = left]]
        unused == \A f \in Entries : ~g[f].is_init
    IN  /\ g_button' = IF unused /\ \E f \in Entries : g_button[f].is_init
                       THEN [f \in Entries |-> Zeroed] ELSE g
        /\ judged' = NoKey
        /\ UNCHANGED <<vol, sampled>>

\* button_adc_get_key_level.
AdcGetKeyLevel(c) == OfChannel(c) # {} /\
    LET e == FirstOf(OfChannel(c))
        measures == ~g_button[e].recent
    IN  /\ g_button' = [g_button EXCEPT ![e].recent = TRUE]
        /\ vol' = IF measures THEN c ELSE vol
        /\ judged' = [key |-> c, by |-> vol']
        /\ sampled' = IF measures
                      THEN {p \in sampled : p[1] # c}
                             \union {<<d, c>> : d \in {p[1] : p \in sampled} \union {c}}
                      ELSE sampled

\* A millisecond has passed since an entry was last measured.
AdcElapse == \E e \in Entries :
    /\ g_button[e].recent
    /\ g_button' = [g_button EXCEPT ![e].recent = FALSE]
    /\ judged' = NoKey
    /\ UNCHANGED <<vol, sampled>>

AdcNext ==
    \/ \E c \in Channels, k \in Keys : AdcKeyInit(c, k) \/ AdcKeyDeinit(c, k)
    \/ \E c \in Channels : AdcGetKeyLevel(c)
    \/ AdcElapse

AdcSpec == AdcInit /\ [][AdcNext]_adcVars

-----------------------------------------------------------------------------
(* Properties.                                                             *)

\* Two entries in use are never of the same channel, although a zeroed entry
\* looks like one of channel 0 and an entry given up is found by nothing: each
\* key has its limits in one place.
ChannelsDistinct == \A e, f \in Entries :
    e # f /\ g_button[e].is_init /\ g_button[f].is_init
        => g_button[e].channel # g_button[f].channel

\* A key is judged by a voltage of its own channel, or by one of a channel
\* that was measured since its own was, within the millisecond in which its
\* own is not measured again: never by what was measured before its channel
\* came into use.
JudgedByMeasured == judged.by = judged.key \/ <<judged.key, judged.by>> \in sampled

-----------------------------------------------------------------------------
(* The inductive strengthening.                                            *)

\* A zeroed entry is behind all that are in use, and of several the first only
\* can have been measured, as channel 0.
Untouched(e) == ~g_button[e].is_init /\ g_button[e].channel # CHANNEL_MAX
UntouchedInv == \A e, f \in Entries :
    Untouched(e) => /\ g_button[e].channel = 0
                    /\ e < f => ~g_button[f].is_init
                    /\ e < f /\ Untouched(f) => ~g_button[f].recent

\* The voltage is younger than any measurement that is not repeated yet.
RecentInv == \A e \in Entries :
    g_button[e].recent /\ g_button[e].channel # CHANNEL_MAX
        => <<g_button[e].channel, vol>> \in sampled

InUseInv == \A e \in Entries : g_button[e].is_init => g_button[e].channel # CHANNEL_MAX

AdcInv == AdcTypeOK /\ InUseInv /\ UntouchedInv /\ RecentInv /\ ChannelsDistinct
          /\ JudgedByMeasured
=============================================================================
