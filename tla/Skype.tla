------------------------------- MODULE Skype --------------------------------
(***************************************************************************)
(* The telephone CS2452/Skype: the window, the server that takes calls, a  *)
(* client for every call made, and a speaker and a mic for every call.     *)
(* They share the flag incall, the flag open of the audio, and three       *)
(* semaphores, which MGui creates with one permit each.                    *)
(*                                                                         *)
(* A section that takes a permit, writes one flag and gives the permit     *)
(* back is one step: nobody else writes the flag in between.  The one that *)
(* waits for a second permit, hanging up, is two.  The other computer may  *)
(* call, send or break a connection at any time.  Left out are the volume, *)
(* the clock, and the exceptions other than those of a connection and of   *)
(* the address typed in.                                                   *)
(***************************************************************************)
EXTENDS Naturals, FiniteSets

CONSTANTS
  MaxCalls,   \* bound on the calls
  MaxRounds   \* rounds of a speaker that use up its stream of 2000000 frames

ASSUME SkypeAssumption == MaxCalls \in Nat /\ MaxRounds \in Nat \ {0}

VARIABLES
  svrflg, audflg, guiflg,  \* permits
  incall, open,
  gui,                \* "idle", or "hangup": waiting for audflg with guiflg taken
  server, current,    \* the step of the server, and its latest call
  calls,              \* the calls so far, which are 1..calls
  sock,               \* "up", "broken" by the other side, "closed", or "null"
  client, speaker, mic, \* of every call, the steps of its threads
  heard,              \* of every call, the rounds of its speaker
  hangups             \* ghost: how often the user hung up

permits == <<svrflg, audflg, guiflg>>
flags == <<incall, open>>
threads == <<client, speaker, mic, heard>>
vars == <<permits, flags, gui, server, current, calls, sock, threads, hangups>>

Call == 1..MaxCalls

Init ==
  /\ svrflg = 1 /\ audflg = 1 /\ guiflg = 1
  /\ incall = FALSE /\ open = FALSE
  /\ gui = "idle"
  /\ server = "svrflg" /\ current = 1
  /\ calls = 0
  /\ sock = [c \in Call |-> "none"]
  /\ client = [c \in Call |-> "none"]
  /\ speaker = [c \in Call |-> "none"]
  /\ mic = [c \in Call |-> "none"]
  /\ heard = [c \in Call |-> 0]
  /\ hangups = 0

(* The speaker and the mic of a call are created and started. *)
Started(c) ==
  /\ speaker' = [speaker EXCEPT ![c] = "read"]
  /\ mic' = [mic EXCEPT ![c] = "write"]
-----------------------------------------------------------------------------
(***************************************************************************)
(* The window: actionPerformed, for the button                             *)
(***************************************************************************)
PressCall ==
  /\ gui = "idle" /\ guiflg > 0 /\ ~incall
  /\ calls < MaxCalls
  /\ calls' = calls + 1
  /\ client' = [client EXCEPT ![calls'] = "connect"]
  /\ incall' = TRUE
  /\ UNCHANGED <<permits, open, gui, server, current, sock, speaker, mic, heard, hangups>>

(* A port that is no number: the constructor of Client throws, guiflg is   *)
(* not released and the window is dead.                                    *)
PressCallWrong ==
  /\ gui = "idle" /\ guiflg > 0 /\ ~incall
  /\ guiflg' = guiflg - 1
  /\ UNCHANGED <<svrflg, audflg, flags, gui, server, current, calls, sock, threads, hangups>>

PressHangup ==
  /\ gui = "idle" /\ guiflg > 0 /\ incall
  /\ guiflg' = guiflg - 1
  /\ incall' = FALSE
  /\ gui' = "hangup"
  /\ UNCHANGED <<svrflg, audflg, open, server, current, calls, sock, threads, hangups>>

(* Mutant of Hangup: svrflg is not released. *)
HangupKeeps ==
  /\ gui = "hangup" /\ audflg > 0
  /\ open' = FALSE
  /\ guiflg' = guiflg + 1
  /\ gui' = "idle"
  /\ hangups' = hangups + 1
  /\ UNCHANGED <<svrflg, audflg, incall, server, current, calls, sock, threads>>

(* svrflg is released whether or not the server had taken the call. *)
Hangup ==
  /\ gui = "hangup" /\ audflg > 0
  /\ open' = FALSE
  /\ svrflg' = svrflg + 1
  /\ guiflg' = guiflg + 1
  /\ gui' = "idle"
  /\ hangups' = hangups + 1
  /\ UNCHANGED <<audflg, incall, server, current, calls, sock, threads>>
-----------------------------------------------------------------------------
(***************************************************************************)
(* Server.run and Client.run                                               *)
(***************************************************************************)
ServerWait ==
  /\ server = "svrflg" /\ svrflg > 0
  /\ svrflg' = svrflg - 1
  /\ server' = "accept"
  /\ UNCHANGED <<audflg, guiflg, flags, gui, current, calls, sock, threads, hangups>>

Accept ==
  /\ server = "accept" /\ calls < MaxCalls
  /\ calls' = calls + 1
  /\ current' = calls'
  /\ sock' = [sock EXCEPT ![calls'] = "up"]
  /\ server' = "open"
  /\ UNCHANGED <<permits, flags, gui, threads, hangups>>

ServerOpen ==
  /\ server = "open" /\ audflg > 0
  /\ open' = TRUE
  /\ server' = "gui"
  /\ UNCHANGED <<permits, incall, gui, current, calls, sock, threads, hangups>>

ServerGui ==
  /\ server = "gui" /\ guiflg > 0
  /\ incall' = TRUE
  /\ server' = "start"
  /\ UNCHANGED <<permits, open, gui, current, calls, sock, threads, hangups>>

ServerStart ==
  /\ server = "start"
  /\ Started(current)
  /\ server' = "svrflg"
  /\ UNCHANGED <<permits, flags, gui, current, calls, sock, client, heard, hangups>>

(* A connection that fails is only reported: the socket is null. *)
Connect(c) ==
  /\ client[c] = "connect"
  /\ \E s \in {"up", "null"} : sock' = [sock EXCEPT ![c] = s]
  /\ client' = [client EXCEPT ![c] = "open"]
  /\ UNCHANGED <<permits, flags, gui, server, current, calls, speaker, mic, heard, hangups>>

(* A port out of range: the Socket's constructor throws, the thread ends. *)
ClientDies(c) ==
  /\ client[c] = "connect"
  /\ client' = [client EXCEPT ![c] = "dead"]
  /\ UNCHANGED <<permits, flags, gui, server, current, calls, sock, speaker, mic, heard, hangups>>

ClientOpen(c) ==
  /\ client[c] = "open" /\ audflg > 0
  /\ open' = TRUE
  /\ client' = [client EXCEPT ![c] = "start"]
  /\ UNCHANGED <<permits, incall, gui, server, current, calls, sock, speaker, mic, heard, hangups>>

ClientStart(c) ==
  /\ client[c] = "start"
  /\ Started(c)
  /\ client' = [client EXCEPT ![c] = "done"]
  /\ UNCHANGED <<permits, flags, gui, server, current, calls, sock, heard, hangups>>
-----------------------------------------------------------------------------
(***************************************************************************)
(* speaker.run and mic.run; a null socket ends both threads                *)
(***************************************************************************)

(* Mutant of Play: the permit is taken back. *)
PlayTakes(c) ==
  /\ speaker[c] = "read" /\ sock[c] = "up" /\ open
  /\ heard[c] < MaxRounds
  /\ heard' = [heard EXCEPT ![c] = @ + 1]
  /\ UNCHANGED <<permits, flags, gui, server, current, calls, sock, client, speaker, mic, hangups>>

(* A round of the loop, which leaves one more permit than there was. *)
Play(c) ==
  /\ speaker[c] = "read" /\ sock[c] = "up" /\ open
  /\ heard[c] < MaxRounds
  /\ heard' = [heard EXCEPT ![c] = @ + 1]
  /\ audflg' = audflg + 1
  /\ UNCHANGED <<svrflg, guiflg, flags, gui, server, current, calls, sock, client, speaker, mic,
                 hangups>>

(* The read ends the loop, for the other side or the stream has ended, or  *)
(* gives something and open is false.                                      *)
SpeakerEnds(c) ==
  /\ speaker[c] = "read"
  /\ sock[c] = "broken" \/ (sock[c] = "up" /\ (~open \/ heard[c] = MaxRounds))
  /\ speaker' = [speaker EXCEPT ![c] = "end"]
  /\ UNCHANGED <<permits, flags, gui, server, current, calls, sock, client, mic, heard, hangups>>

(* The permit is not given back. *)
SpeakerCloses(c) ==
  /\ speaker[c] = "end" /\ audflg > 0
  /\ audflg' = audflg - 1
  /\ sock' = [sock EXCEPT ![c] = "closed"]
  /\ speaker' = [speaker EXCEPT ![c] = "done"]
  /\ UNCHANGED <<svrflg, guiflg, flags, gui, server, current, calls, client, mic, heard, hangups>>

SpeakerDies(c) ==
  /\ speaker[c] = "read" /\ sock[c] = "null"
  /\ speaker' = [speaker EXCEPT ![c] = "dead"]
  /\ UNCHANGED <<permits, flags, gui, server, current, calls, sock, client, mic, heard, hangups>>

(* Mutant of MicBreaks: svrflg is released, as when the user hangs up. *)
MicBreaksReleases(c) ==
  /\ mic[c] = "write" /\ sock[c] \in {"broken", "closed"}
  /\ guiflg > 0
  /\ incall' = FALSE
  /\ svrflg' = svrflg + 1
  /\ mic' = [mic EXCEPT ![c] = "done"]
  /\ UNCHANGED <<audflg, guiflg, open, gui, server, current, calls, sock, client, speaker, heard, hangups>>

(* A write to a connection that is gone: whatever call is on, it is reset. *)
MicBreaks(c) ==
  /\ mic[c] = "write" /\ sock[c] \in {"broken", "closed"}
  /\ guiflg > 0
  /\ incall' = FALSE
  /\ mic' = [mic EXCEPT ![c] = "done"]
  /\ UNCHANGED <<permits, open, gui, server, current, calls, sock, client, speaker, heard, hangups>>

MicDies(c) ==
  /\ mic[c] = "write" /\ sock[c] = "null"
  /\ mic' = [mic EXCEPT ![c] = "dead"]
  /\ UNCHANGED <<permits, flags, gui, server, current, calls, sock, client, speaker, heard, hangups>>

(* The other side ends the connection. *)
Break(c) ==
  /\ sock[c] = "up"
  /\ sock' = [sock EXCEPT ![c] = "broken"]
  /\ UNCHANGED <<permits, flags, gui, server, current, calls, threads, hangups>>

ServerStep == ServerWait \/ ServerOpen \/ ServerGui \/ ServerStart
CallStep(c) ==
  \/ Connect(c) \/ ClientDies(c) \/ ClientOpen(c) \/ ClientStart(c)
  \/ SpeakerEnds(c) \/ SpeakerCloses(c) \/ SpeakerDies(c) \/ MicBreaks(c) \/ MicDies(c)

Next ==
  \/ PressCall \/ PressCallWrong \/ PressHangup \/ Hangup
  \/ ServerStep \/ Accept
  \/ \E c \in Call : CallStep(c) \/ Play(c) \/ Break(c)

(* The window's thread and the server run; nothing is assumed of the calls *)
(* and of whoever presses the button.                                      *)
Spec == Init /\ [][Next]_vars /\ WF_vars(Hangup) /\ WF_vars(ServerStep)
-----------------------------------------------------------------------------
Silent(c) == speaker[c] = "done" /\ heard[c] = 0

(* There is a permit of audflg for whoever waits, as every round of a      *)
(* speaker adds one: until a call ends before anything came over it, whose *)
(* speaker takes one that was not its own.                                 *)
SoundPays == audflg = 0 => \E c \in Call : Silent(c)

(* Every hang-up, also of a call that was made and not taken, pays for one *)
(* incoming call, and nothing else does: the incoming calls, the permits   *)
(* of svrflg and the one the server holds are one more than the hang-ups.  *)
(* An incoming call that the other side ended is paid for by no hang-up of *)
(* its own; after a call made and hung up the server takes one while       *)
(* another is on.                                                          *)
OnePerHangup ==
  Cardinality({ c \in 1..calls : client[c] = "none" })
    + svrflg + (IF server = "accept" THEN 1 ELSE 0) = 1 + hangups

(* Hanging up allows the server to accept connections again, unless a call *)
(* ended in silence, so that the window waits for audflg and keeps guiflg, *)
(* or a wrong port took guiflg, for which the server waits.                *)
Reopens == gui = "hangup" ~> \/ server = "accept"
                             \/ \E c \in Call : Silent(c)
                             \/ gui = "idle" /\ guiflg = 0
=============================================================================
