------------------------------ MODULE TextInput ------------------------------
(***************************************************************************)
(* Typing (internal/session/control.go: TypeText, pfimeGate,               *)
(* waitPFIMEBound; internal/adb/ime.go): a session types through a keyboard *)
(* of its own, PFIME, which it selects for its first text and which must    *)
(* run before a broadcast reaches it; when the session closes, the user's   *)
(* keyboard is selected again.  The session's calls come one at a time; the *)
(* keyboard's process, the user and the end of the program do not wait.     *)
(***************************************************************************)
EXTENDS Naturals

CONSTANT MaxIncidents  \* failed commands, crashes, switches by the user

ASSUME TextInputAssumption == MaxIncidents \in Nat

VARIABLES
  typing,       \* the session: "none", "idle", "wait", "send"
  ime,          \* the keyboard the device has selected: "user", "pfime"
  installed,    \* PFIME is
  process,      \* PFIME's: "up"; "no", not since it was selected; "died"
  active,       \* pfimeGate.active
  originalIME,  \* as read by EnsurePFIME, or "unknown"
  pidof,        \* what the session's probe said: "unasked", "found", "missing"
  broadcast,    \* PFIME's process when the last broadcast was sent, or "none"
  taken,        \* the session did not learn, or did not get to restore, the
                \* user's keyboard
  incidents

deviceVars == <<ime, installed, process>>
textVars == <<typing, deviceVars, active, originalIME, pidof, broadcast, taken, incidents>>

TextInit ==
  /\ typing = "none" /\ ime = "user"
  /\ installed \in BOOLEAN /\ process = "no"
  /\ active = FALSE /\ originalIME = "unknown" /\ pidof = "unasked" /\ broadcast = "none"
  /\ taken = FALSE /\ incidents = 0

Incident == incidents < MaxIncidents /\ incidents' = incidents + 1

(* Connect and Close.                                                       *)

\* EnsurePFIME: whatever fails, reading the keyboard, looking for the package,
\* installing or enabling it, Connect goes on, and does not keep the keyboard
\* that was read.
EnsurePFIME ==
  \/ /\ originalIME' = ime /\ installed' = TRUE
     /\ taken' = (taken /\ ime = "pfime") /\ UNCHANGED incidents
  \/ /\ Incident
     /\ originalIME' = "unknown" /\ installed' \in {installed, TRUE} /\ taken' = TRUE

ConnectTextInput ==
  /\ typing = "none" /\ EnsurePFIME
  /\ typing' = "idle" /\ active' = FALSE /\ pidof' = "unasked" /\ broadcast' = "none"
  /\ UNCHANGED <<ime, process>>

\* Mutant: nothing to restore when the gate is not active.
RestoreIME_IfActive ==
  IF originalIME = "user" /\ active
  THEN ime' = "user" /\ UNCHANGED <<taken, incidents>>
  ELSE UNCHANGED <<ime, taken, incidents>>

\* RestoreIME, whose failure nobody sees; nothing to do when it is unknown or PFIME.
RestoreIME ==
  \/ /\ originalIME = "user"
     /\ \/ ime' = "user" /\ UNCHANGED <<taken, incidents>>
        \/ Incident /\ taken' = TRUE /\ UNCHANGED ime
  \/ originalIME # "user" /\ UNCHANGED <<ime, taken, incidents>>

CloseTextInput ==
  /\ typing = "idle" /\ RestoreIME
  /\ typing' = "none"
  /\ active' = (active /\ originalIME = "unknown")
  /\ UNCHANGED <<installed, process, originalIME, pidof, broadcast>>

\* The program ends without Close, wherever the session is.
Killed ==
  /\ typing # "none" /\ Incident
  /\ typing' = "none" /\ taken' = (taken \/ ime = "pfime")
  /\ UNCHANGED <<deviceVars, active, originalIME, pidof, broadcast>>
-----------------------------------------------------------------------------
(* TypeText.                                                                *)

\* A process that is still there from before is as good to pidof.
Selected == /\ ime' = "pfime"
            /\ process' = IF ime = "pfime" \/ process = "up" THEN process ELSE "no"

\* SetPFIME: read the keyboard, then enable, "ime set", and the settings.
\* A command that fails for the program may have worked on the device.
SetPFIME ==
  /\ typing = "idle" /\ ~active
  /\ \/ /\ ime = "pfime" \/ installed
        /\ Selected
        /\ active' = TRUE /\ typing' = "wait" /\ pidof' = "unasked" /\ UNCHANGED incidents
     \/ /\ Incident
        /\ UNCHANGED <<ime, process>> \/ (installed /\ Selected)
        /\ UNCHANGED <<active, typing, pidof>>
     \/ ~installed /\ UNCHANGED <<ime, process, active, typing, pidof, incidents>>
  /\ UNCHANGED <<installed, originalIME, broadcast, taken>>

\* which pidof: a device without it, or an error that is not a timeout, is
\* given a fixed time.
ProbePidof ==
  /\ typing = "wait" /\ pidof = "unasked"
  /\ \/ pidof' = "found" /\ UNCHANGED typing
     \/ pidof' = "missing" /\ typing' = "send"
  /\ UNCHANGED <<deviceVars, active, originalIME, broadcast, taken, incidents>>

SeeProcess ==
  /\ typing = "wait" /\ pidof = "found" /\ process = "up"
  /\ typing' = "send"
  /\ UNCHANGED <<deviceVars, active, originalIME, pidof, broadcast, taken, incidents>>

\* Mutant: the gate stays active.
WaitFails_GateKept ==
  /\ typing = "wait" /\ typing' = "idle"
  /\ UNCHANGED <<deviceVars, active, originalIME, pidof, broadcast, taken, incidents>>

\* A probe hangs, or the process is not seen in time.
WaitFails ==
  /\ typing = "wait" /\ typing' = "idle"
  /\ active' = FALSE
  /\ UNCHANGED <<deviceVars, originalIME, pidof, broadcast, taken, incidents>>

TypeAgain ==
  /\ typing = "idle" /\ active /\ typing' = "send"
  /\ UNCHANGED <<deviceVars, active, originalIME, pidof, broadcast, taken, incidents>>

\* TypeTextB64: sent, whether or not the command ends in time.
TypeTextB64 ==
  /\ typing = "send" /\ typing' = "idle"
  /\ broadcast' = process
  /\ UNCHANGED <<deviceVars, active, originalIME, pidof, taken, incidents>>

(* The device.                                                              *)

ProcessStarts ==
  /\ ime = "pfime" /\ process # "up" /\ process' = "up"
  /\ UNCHANGED <<typing, ime, installed, active, originalIME, pidof, broadcast, taken, incidents>>

ProcessDies ==
  /\ process = "up" /\ process' = "died" /\ Incident
  /\ UNCHANGED <<typing, ime, installed, active, originalIME, pidof, broadcast, taken>>

\* The user selects the keyboard of before.
UserSwitches ==
  /\ ime = "pfime" /\ ime' = "user" /\ Incident
  /\ UNCHANGED <<typing, installed, process, active, originalIME, pidof, broadcast, taken>>

TextNext ==
  \/ ConnectTextInput \/ CloseTextInput \/ Killed
  \/ SetPFIME \/ ProbePidof \/ SeeProcess \/ WaitFails \/ TypeAgain \/ TypeTextB64
  \/ ProcessStarts \/ ProcessDies \/ UserSwitches

TextSpec == TextInit /\ [][TextNext]_textVars
-----------------------------------------------------------------------------
(***************************************************************************)
(* No text goes to a keyboard that has not run since it was selected,      *)
(* however often the wait for it fails and the text is typed again, unless *)
(* the device could not be asked (control.go:286-296).                     *)
(***************************************************************************)
NoBroadcastIntoDropWindow == broadcast = "no" => pidof = "missing"

(***************************************************************************)
(* The keyboard that a session takes from the user is given back when it   *)
(* closes: while there is no session, PFIME is selected only if a session  *)
(* could not read the keyboard, could not restore it, or never closed      *)
(* (session.go:128-134, 447-451).                                          *)
(***************************************************************************)
KeyboardGivenBack ==
  /\ typing = "none" /\ ~taken => ime = "user"
  /\ typing # "none" /\ ~taken => originalIME = "user"
=============================================================================
