---------------------------- MODULE SkypeProofs -----------------------------
(***************************************************************************)
(* Proofs that permits of audflg run out only after a call that ended in   *)
(* silence, and that every hang-up pays for exactly one incoming call, for *)
(* any number of calls and of rounds.                                      *)
(***************************************************************************)
EXTENDS Skype, FiniteSetTheorems, TLAPS

Ended == { c \in Call : speaker[c] = "done" }
Rounds == { r \in Call \X (1..MaxRounds) : r[2] <= heard[r[1]] }
Incoming == { c \in 1..calls : client[c] = "none" }

Types ==
  /\ svrflg \in Nat /\ audflg \in Nat
  /\ hangups \in Nat
  /\ calls \in 0..MaxCalls
  /\ speaker \in [Call -> {"none", "read", "end", "done", "dead"}]
  /\ client \in [Call -> {"none", "connect", "open", "start", "done", "dead"}]
  /\ heard \in [Call -> 0..MaxRounds]
  /\ current \in Nat

(* The threads of a call are started once: those that are still to be      *)
(* started by the server or a client are of calls that have none.          *)
Fresh ==
  /\ \A c \in Call : c > calls => client[c] = "none" /\ speaker[c] = "none"
  /\ \A c \in Call : client[c] \in {"connect", "open", "start"} => speaker[c] = "none"
  /\ server \in {"open", "gui", "start"}
       => current \in 1..calls /\ client[current] = "none" /\ speaker[current] = "none"

(* Every permit of audflg beyond the first is from a round of a speaker,   *)
(* every speaker that ended has taken one.                                 *)
Sound == audflg + Cardinality(Ended) = 1 + Cardinality(Rounds)

(* The calls the server took or waits to take are paid for by svrflg. *)
Line == Cardinality(Incoming) + svrflg + (IF server = "accept" THEN 1 ELSE 0) = 1 + hangups
-----------------------------------------------------------------------------
(* The sets that are counted are finite. *)
LEMMA Finite ==
  ASSUME Types
  PROVE  /\ IsFiniteSet(Ended) /\ Cardinality(Ended) \in Nat
         /\ IsFiniteSet(Rounds) /\ Cardinality(Rounds) \in Nat
         /\ IsFiniteSet(Incoming) /\ Cardinality(Incoming) \in Nat
<1>1. MaxCalls \in Nat /\ MaxRounds \in Nat /\ calls \in Int
  BY SkypeAssumption DEF Types
<1>2. IsFiniteSet(Call) /\ IsFiniteSet(1..MaxRounds) /\ IsFiniteSet(1..calls)
  BY <1>1, FS_Interval DEF Call
<1>3. IsFiniteSet(Call \X (1..MaxRounds))
  BY <1>2, FS_Product
<1>4. IsFiniteSet(Ended)
  BY <1>2, FS_Subset DEF Ended
<1>5. IsFiniteSet(Rounds)
  BY <1>3, FS_Subset DEF Rounds
<1>6. IsFiniteSet(Incoming)
  BY <1>2, FS_Subset DEF Incoming
<1> QED BY <1>4, <1>5, <1>6, FS_CardinalityType

LEMMA TypesInit == Init => Types
  BY SkypeAssumption DEF Init, Types

LEMMA TypesStep == Types /\ [Next]_vars => Types'
<1> SUFFICES ASSUME Types, [Next]_vars PROVE Types'
  OBVIOUS
<1> USE SkypeAssumption DEF Types, Call, permits, flags, threads
<1>1. CASE PressCall
  BY <1>1 DEF PressCall
<1>2. CASE PressHangup \/ PressCallWrong
  BY <1>2 DEF PressHangup, PressCallWrong
<1>3. CASE Hangup
  BY <1>3 DEF Hangup
<1>4. CASE Accept
  BY <1>4 DEF Accept
<1>5. CASE ServerWait
  BY <1>5 DEF ServerWait
<1>6. CASE ServerOpen \/ ServerGui
  BY <1>6 DEF ServerOpen, ServerGui
<1>7. CASE ServerStart
  BY <1>7 DEF ServerStart, Started
<1>8. ASSUME NEW c \in Call, Connect(c) \/ ClientDies(c) \/ ClientOpen(c) \/ ClientStart(c)
      PROVE  Types'
  BY <1>8 DEF Connect, ClientDies, ClientOpen, ClientStart, Started
<1>9. ASSUME NEW c \in Call, SpeakerEnds(c) \/ SpeakerDies(c)
      PROVE  Types'
  BY <1>9 DEF SpeakerEnds, SpeakerDies
<1>10. ASSUME NEW c \in Call, SpeakerCloses(c)
       PROVE  Types'
  BY <1>10 DEF SpeakerCloses
<1>11. ASSUME NEW c \in Call, MicBreaks(c) \/ MicDies(c) \/ Break(c)
       PROVE  Types'
  BY <1>11 DEF MicBreaks, MicDies, Break
<1>12. ASSUME NEW c \in Call, Play(c)
       PROVE  Types'
  BY <1>12 DEF Play
<1>13. CASE UNCHANGED vars
  BY <1>13 DEF vars
<1> QED BY <1>1, <1>2, <1>3, <1>4, <1>5, <1>6, <1>7, <1>8, <1>9, <1>10, <1>11, <1>12, <1>13
        DEF Next, CallStep, ServerStep

LEMMA FreshInit == Init => Fresh
  BY DEF Init, Fresh

LEMMA FreshStep == Types /\ Fresh /\ [Next]_vars => Fresh'
<1> SUFFICES ASSUME Types, Fresh, [Next]_vars PROVE Fresh'
  OBVIOUS
<1> USE SkypeAssumption DEF Types, Fresh, Call, permits, flags, threads
<1>1. CASE PressCall
  BY <1>1 DEF PressCall
<1>2. CASE PressHangup \/ PressCallWrong \/ Hangup
  BY <1>2 DEF PressHangup, PressCallWrong, Hangup
<1>3. CASE Accept
  BY <1>3 DEF Accept
<1>4. CASE ServerWait \/ ServerOpen \/ ServerGui
  BY <1>4 DEF ServerWait, ServerOpen, ServerGui
<1>5. CASE ServerStart
  BY <1>5 DEF ServerStart, Started
<1>6. ASSUME NEW c \in Call, Connect(c) \/ ClientDies(c) \/ ClientOpen(c)
      PROVE  Fresh'
  BY <1>6, SMTT(30) DEF Connect, ClientDies, ClientOpen
<1>6a. ASSUME NEW c \in Call, ClientStart(c)
       PROVE  Fresh'
  <2>1. client' = [client EXCEPT ![c] = "done"] /\ speaker' = [speaker EXCEPT ![c] = "read"]
    BY <1>6a DEF ClientStart, Started
  <2>2. calls' = calls /\ server' = server /\ current' = current /\ client[c] = "start"
    BY <1>6a DEF ClientStart
  <2> QED BY <2>1, <2>2
<1>7. ASSUME NEW c \in Call,
             SpeakerEnds(c) \/ SpeakerCloses(c) \/ SpeakerDies(c) \/ MicBreaks(c) \/ MicDies(c)
      PROVE  Fresh'
  <2>1. \/ speaker' = speaker
        \/ \E s \in {"end", "done", "dead"} :
             speaker[c] # "none" /\ speaker' = [speaker EXCEPT ![c] = s]
    BY <1>7 DEF SpeakerEnds, SpeakerCloses, SpeakerDies, MicBreaks, MicDies
  <2>2. calls' = calls /\ server' = server /\ current' = current /\ client' = client
    BY <1>7 DEF SpeakerEnds, SpeakerCloses, SpeakerDies, MicBreaks, MicDies
  <2>3. ASSUME NEW d \in Call, speaker[d] = "none"
        PROVE  speaker'[d] = "none"
    BY <2>1, <2>3
  <2>4. server \in {"open", "gui", "start"} => current \in Call
    OBVIOUS
  <2> HIDE DEF Call, Types
  <2> QED BY <2>2, <2>3, <2>4
<1>8. ASSUME NEW c \in Call, Play(c) \/ Break(c)
      PROVE  Fresh'
  BY <1>8 DEF Play, Break
<1>9. CASE UNCHANGED vars
  BY <1>9 DEF vars
<1> QED BY <1>1, <1>2, <1>3, <1>4, <1>5, <1>6, <1>6a, <1>7, <1>8, <1>9
        DEF Next, CallStep, ServerStep
-----------------------------------------------------------------------------
(***************************************************************************)
(* The permits of audflg                                                   *)
(***************************************************************************)
LEMMA SoundInit == Init => Sound
<1> SUFFICES ASSUME Init PROVE Sound
  OBVIOUS
<1>1. Ended = {} /\ Rounds = {}
  BY DEF Init, Ended, Rounds
<1> QED BY <1>1, FS_EmptySet DEF Init, Sound

LEMMA SoundStep == Types /\ Fresh /\ Sound /\ [Next]_vars => Sound'
<1> SUFFICES ASSUME Types, Fresh, Sound, [Next]_vars PROVE Sound'
  OBVIOUS
<1> USE DEF permits, flags, threads
<1>1. ASSUME audflg' = audflg, heard' = heard, Ended' = Ended
      PROVE  Sound'
  BY <1>1 DEF Sound, Rounds
<1>2. CASE \/ PressCall \/ PressCallWrong \/ PressHangup \/ Hangup \/ Accept
           \/ ServerWait \/ ServerOpen \/ ServerGui
  <2>1. audflg' = audflg /\ heard' = heard /\ speaker' = speaker
    BY <1>2 DEF PressCall, PressCallWrong, PressHangup, Hangup, Accept, ServerWait,
                ServerOpen, ServerGui
  <2> QED BY <2>1, <1>1 DEF Ended
<1>3. CASE ServerStart \/ \E c \in Call : ClientStart(c)
  <2>1. audflg' = audflg /\ heard' = heard
    BY <1>3 DEF ServerStart, ClientStart
  <2>2. PICK c \in Call : Started(c) /\ speaker[c] = "none"
    <3>1. CASE ServerStart
      BY <3>1, SkypeAssumption DEF ServerStart, Fresh, Types, Call
    <3>2. CASE \E c \in Call : ClientStart(c)
      BY <3>2 DEF ClientStart, Fresh
    <3> QED BY <1>3, <3>1, <3>2
  <2>3. Ended' = Ended
    BY <2>2 DEF Started, Ended, Types
  <2> QED BY <2>1, <2>3, <1>1
<1>4. ASSUME NEW c \in Call, \/ Connect(c) \/ ClientDies(c) \/ ClientOpen(c)
                            \/ MicBreaks(c) \/ MicDies(c) \/ Break(c)
      PROVE  Sound'
  <2>1. audflg' = audflg /\ heard' = heard /\ speaker' = speaker
    BY <1>4 DEF Connect, ClientDies, ClientOpen, MicBreaks, MicDies, Break
  <2> QED BY <2>1, <1>1 DEF Ended
<1>5. ASSUME NEW c \in Call, SpeakerEnds(c) \/ SpeakerDies(c)
      PROVE  Sound'
  <2>1. audflg' = audflg /\ heard' = heard
    BY <1>5 DEF SpeakerEnds, SpeakerDies
  <2>2. Ended' = Ended
    BY <1>5 DEF SpeakerEnds, SpeakerDies, Ended, Types
  <2> QED BY <2>1, <2>2, <1>1
<1>6. ASSUME NEW c \in Call, SpeakerCloses(c)
      PROVE  Sound'
  <2>1. Ended' = Ended \union {c} /\ c \notin Ended
    BY <1>6 DEF SpeakerCloses, Ended, Types
  <2>2. Cardinality(Ended') = Cardinality(Ended) + 1
    BY <2>1, Finite, FS_AddElement
  <2>3. audflg' = audflg - 1 /\ Rounds' = Rounds
    BY <1>6 DEF SpeakerCloses, Rounds
  <2>4. Cardinality(Rounds') = Cardinality(Rounds)
    BY <2>3
  <2> QED BY <2>2, <2>3, <2>4, Finite DEF Sound, Types
<1>7. ASSUME NEW c \in Call, Play(c)
      PROVE  Sound'
  <2> DEFINE r == <<c, heard[c] + 1>>
  <2>1. heard' = [heard EXCEPT ![c] = @ + 1] /\ heard[c] + 1 \in 1..MaxRounds /\ heard[c] \in Nat
    BY <1>7, SkypeAssumption DEF Play, Types
  <2>2. r \in Call \X (1..MaxRounds) /\ r \notin Rounds
    BY <2>1 DEF Rounds
  <2>3. ASSUME NEW d \in Call, NEW k \in 1..MaxRounds
        PROVE  k <= heard'[d] <=> k <= heard[d] \/ <<d, k>> = r
    BY <2>1 DEF Types
  <2>4. Rounds' = Rounds \union {r}
    BY <2>2, <2>3 DEF Rounds
  <2>5. Cardinality(Rounds') = Cardinality(Rounds) + 1
    BY <2>2, <2>4, Finite, FS_AddElement
  <2>6. audflg' = audflg + 1 /\ Ended' = Ended
    BY <1>7 DEF Play, Ended
  <2>7. Cardinality(Ended') = Cardinality(Ended)
    BY <2>6
  <2> QED BY <2>5, <2>6, <2>7, Finite DEF Sound, Types
<1>8. CASE UNCHANGED vars
  BY <1>8, <1>1 DEF vars, Ended
<1> QED BY <1>2, <1>3, <1>4, <1>5, <1>6, <1>7, <1>8 DEF Next, CallStep, ServerStep

(* With every call that ended heard, its first round pays for it. *)
LEMMA SoundEnough == Types /\ Sound => SoundPays
<1> SUFFICES ASSUME Types, Sound, audflg = 0, \A c \in Call : ~Silent(c) PROVE FALSE
  BY DEF SoundPays
<1> DEFINE first == [c \in Ended |-> <<c, 1>>]
<1>1. first \in [Ended -> Rounds]
  BY SkypeAssumption DEF Ended, Rounds, Silent, Types
<1>2. Cardinality(Rounds) < Cardinality(Ended)
  BY Finite DEF Sound
<1>3. \E c, d \in Ended : c # d /\ first[c] = first[d]
  <2> HIDE DEF first
  <2> QED BY <1>1, <1>2, Finite, FS_PigeonHole
<1> QED BY <1>3

(* SoundPays: a permit of audflg is there as long as no call ended before  *)
(* anything was heard (speaker.java 41-78).                                *)
THEOREM PermitsPaid == Spec => []SoundPays
<1>1. Init => Types /\ Fresh /\ Sound
  BY TypesInit, FreshInit, SoundInit
<1>2. Types /\ Fresh /\ Sound /\ [Next]_vars => (Types /\ Fresh /\ Sound)'
  BY TypesStep, FreshStep, SoundStep
<1> QED BY <1>1, <1>2, SoundEnough, PTL DEF Spec
-----------------------------------------------------------------------------
(***************************************************************************)
(* The calls the server takes                                              *)
(***************************************************************************)
LEMMA LineInit == Init => Line
<1> SUFFICES ASSUME Init PROVE Line
  OBVIOUS
<1>1. Incoming = {}
  BY DEF Init, Incoming
<1> QED BY <1>1, FS_EmptySet DEF Init, Line

LEMMA LineStep == Types /\ Fresh /\ Line /\ [Next]_vars => Line'
<1> SUFFICES ASSUME Types, Fresh, Line, [Next]_vars PROVE Line'
  OBVIOUS
<1> USE DEF permits, flags, threads
<1>0. Cardinality(Incoming) \in Nat
  BY Finite
<1>1. ASSUME Incoming' = Incoming
      PROVE  Cardinality(Incoming)' = Cardinality(Incoming)
  BY <1>1
<1>2. CASE PressCall
  <2>1. Incoming' = Incoming
    BY <1>2, SkypeAssumption DEF PressCall, Incoming, Types, Call
  <2> QED BY <1>2, <2>1, <1>1 DEF PressCall, Line
<1>3. CASE Accept
  <2>1. calls + 1 \in Call /\ client[calls + 1] = "none"
    BY <1>3, SkypeAssumption DEF Accept, Types, Fresh, Call
  <2>2. calls' = calls + 1 /\ client' = client
    BY <1>3 DEF Accept
  <2>3. Incoming' = Incoming \union {calls + 1} /\ calls + 1 \notin Incoming
    BY <2>1, <2>2 DEF Incoming, Types
  <2>4. Cardinality(Incoming') = Cardinality(Incoming) + 1
    BY <2>3, Finite, FS_AddElement
  <2>5. svrflg' = svrflg /\ hangups' = hangups /\ server = "accept" /\ server' # "accept"
    BY <1>3 DEF Accept
  <2> QED BY <2>4, <2>5, <1>0 DEF Line, Types
<1>4. CASE PressHangup \/ PressCallWrong \/ Hangup \/ ServerStep
  <2>1. calls' = calls /\ client' = client
    BY <1>4 DEF PressHangup, PressCallWrong, Hangup, ServerStep, ServerWait, ServerOpen,
                ServerGui, ServerStart
  <2>2. Incoming' = Incoming
    BY <2>1 DEF Incoming
  <2> QED BY <1>4, <2>2, <1>0, <1>1 DEF PressHangup, PressCallWrong, Hangup, ServerStep,
                                       ServerWait, ServerOpen, ServerGui, ServerStart, Line, Types
<1>5. ASSUME NEW c \in Call, CallStep(c) \/ Play(c) \/ Break(c)
      PROVE  Line'
  <2>1. calls' = calls /\ server' = server /\ svrflg' = svrflg /\ hangups' = hangups
    BY <1>5 DEF CallStep, Connect, ClientDies, ClientOpen, ClientStart, SpeakerEnds, SpeakerCloses,
                SpeakerDies, MicBreaks, MicDies, Play, Break
  <2>2. client' = client \/ \E s \in {"open", "start", "done", "dead"} :
                              client[c] # "none" /\ client' = [client EXCEPT ![c] = s]
    BY <1>5 DEF CallStep, Connect, ClientDies, ClientOpen, ClientStart, SpeakerEnds, SpeakerCloses,
                SpeakerDies, MicBreaks, MicDies, Play, Break
  <2>3. Incoming' = Incoming
    BY <2>1, <2>2, SkypeAssumption DEF Incoming, Types, Call
  <2> QED BY <2>1, <2>3, <1>1 DEF Line
<1>6. CASE UNCHANGED vars
  BY <1>6 DEF vars, Line, Incoming
<1> QED BY <1>2, <1>3, <1>4, <1>5, <1>6 DEF Next

(* OnePerHangup: whatever calls are made, taken, broken and hung up, the   *)
(* permits the hang-ups release are the ones the server takes calls with   *)
(* (Server.java 45, Gui.java 180).                                         *)
THEOREM CallsPaid == Spec => []OnePerHangup
<1>1. Init => Types /\ Fresh /\ Line
  BY TypesInit, FreshInit, LineInit
<1>2. Types /\ Fresh /\ Line /\ [Next]_vars => (Types /\ Fresh /\ Line)'
  BY TypesStep, FreshStep, LineStep
<1>3. Line => OnePerHangup
  BY DEF Line, OnePerHangup, Incoming
<1> QED BY <1>1, <1>2, <1>3, PTL DEF Spec
=============================================================================
