----------------------------- MODULE XhciCommand -----------------------------
(***************************************************************************)
(* CXHCICommandManager and CXHCIEventManager.  A task puts a command on    *)
(* the command ring, rings the doorbell and polls for its completion, for  *)
(* three seconds at most; the interrupt handler takes completions from the *)
(* event ring.  The controller runs on its own: it goes through the        *)
(* commands it owns as long as it finds some, and needs the doorbell only  *)
(* after it has found none.  It may take any time for a command.           *)
(*                                                                         *)
(* An interrupt comes between any two stores of the task.  The handler of  *)
(* one event is a step: on this core nothing runs inside it, and the       *)
(* controller leaves the event alone until ERDP is written.                *)
(***************************************************************************)
EXTENDS XhciRing

CONSTANTS
  Serials,      \* (bound) commands are told apart modulo Serials
  MaxSilent     \* (bound) commands that are given up and not yet answered

ASSUME CommandAssumption ==
  /\ {Serials, MaxSilent} \subseteq Nat
  /\ MaxSilent + 2 <= TRBCount - 1     \* the ring is not overrun
  /\ MaxSilent + 2 <= Serials

NoTRB == -1
NoCommand == -1
NoEvent == [slot |-> NoTRB, serial |-> NoCommand]
Timeout == -2      \* XHCI_PRIV_COMPLETION_CODE_TIMEOUT
Overrun == -3      \* XHCI_TRB_COMPLETION_CODE_RING_OVERRUN

VARIABLES
  m_CmdRing, m_EventRing,
  m_pCurrentCommandTRB,    \* an index of the command ring or NoTRB
  m_bCommandCompleted,
  m_uchCompletionCode,     \* and slot: the serial number stands for them
  task,                    \* the task in DoCommand: [at, serial, result]
  hc,                      \* the controller: [running, at, cycle, slot, doing] on the
                           \* command ring, [evAt, evCycle, erdp] on the event ring
  queued, posted,          \* (history) commands not fetched, events not handled
  failed                   \* an assertion has failed, the system halts

driverVars == <<m_CmdRing, m_EventRing, m_pCurrentCommandTRB, m_bCommandCompleted,
                m_uchCompletionCode>>
vars == <<driverVars, task, hc, queued, posted, failed>>

Init ==
  /\ m_CmdRing = NewRing(NoCommand) /\ m_EventRing = NewRing(NoEvent)
  /\ m_pCurrentCommandTRB = NoTRB /\ m_bCommandCompleted = TRUE
  /\ m_uchCompletionCode = NoCommand
  /\ task = [at |-> "idle", serial |-> 0, result |-> NoCommand]
  /\ hc = [running |-> FALSE, at |-> 0, cycle |-> 1, slot |-> NoTRB, doing |-> NoCommand,
           evAt |-> 0, evCycle |-> 1, erdp |-> 0]
  /\ queued = <<>> /\ posted = <<>>
  /\ failed = FALSE

-----------------------------------------------------------------------------
(* DoCommand.                                                               *)

At(label) == ~failed /\ task.at = label
Moves(label) == task' = [task EXCEPT !.at = label]
Returns(result) == task' = [task EXCEPT !.at = "idle", !.result = result]

Unanswered ==
  Len(queued) + (IF hc.doing = NoCommand THEN 0 ELSE 1)
  + Len(posted)

\* The TRB is written; the controller may own it from now on.
Start ==
  /\ At("idle")
  /\ Unanswered <= MaxSilent
  /\ failed' = ~m_bCommandCompleted
  /\ LET serial == (task.serial + 1) % Serials
     IN  IF HasRoom(m_CmdRing)
         THEN /\ m_CmdRing' = WriteTRB(m_CmdRing, serial)
              /\ queued' = Append(queued, serial)
              /\ task' = [at |-> "current", serial |-> serial, result |-> NoCommand]
         ELSE Returns(Overrun) /\ UNCHANGED <<m_CmdRing, queued>>
  /\ UNCHANGED <<m_EventRing, m_pCurrentCommandTRB, m_bCommandCompleted,
                 m_uchCompletionCode, hc, posted>>

SetCurrent ==
  /\ At("current") /\ Moves("pending")
  /\ m_pCurrentCommandTRB' = m_CmdRing.index
  /\ UNCHANGED <<m_CmdRing, m_EventRing, m_bCommandCompleted, m_uchCompletionCode,
                 hc, queued, posted, failed>>

SetPending ==
  /\ At("pending") /\ Moves("enqueue")
  /\ m_bCommandCompleted' = FALSE
  /\ UNCHANGED <<m_CmdRing, m_EventRing, m_pCurrentCommandTRB, m_uchCompletionCode,
                 hc, queued, posted, failed>>

Enqueue ==
  /\ At("enqueue") /\ Moves("doorbell")
  /\ failed' = HasRoom(m_CmdRing)
  /\ m_CmdRing' = IncrementEnqueue(m_CmdRing)
  /\ UNCHANGED <<m_EventRing, m_pCurrentCommandTRB, m_bCommandCompleted,
                 m_uchCompletionCode, hc, queued, posted>>

Doorbell ==
  /\ At("doorbell") /\ Moves("wait")
  /\ hc' = [hc EXCEPT !.running = TRUE]
  /\ UNCHANGED <<driverVars, queued, posted, failed>>

\* The loop ends: the command is completed ...
Done ==
  /\ At("wait") /\ m_bCommandCompleted
  /\ Returns(m_uchCompletionCode)
  /\ UNCHANGED <<driverVars, hc, queued, posted, failed>>

BugExpire ==
  /\ At("wait") /\ ~m_bCommandCompleted
  /\ Moves("doorbell")
  /\ UNCHANGED <<driverVars, hc, queued, posted, failed>>

\* ... or three seconds are over.  It may be completed before that is noted.
Expire ==
  /\ At("wait") /\ ~m_bCommandCompleted
  /\ Moves("expired")
  /\ UNCHANGED <<driverVars, hc, queued, posted, failed>>

GiveUp ==
  /\ At("expired") /\ Moves("forget")
  /\ m_bCommandCompleted' = TRUE
  /\ UNCHANGED <<m_CmdRing, m_EventRing, m_pCurrentCommandTRB, m_uchCompletionCode,
                 hc, queued, posted, failed>>

Forget ==
  /\ At("forget") /\ Returns(Timeout)
  /\ m_pCurrentCommandTRB' = NoTRB
  /\ UNCHANGED <<m_CmdRing, m_EventRing, m_bCommandCompleted, m_uchCompletionCode,
                 hc, queued, posted, failed>>

-----------------------------------------------------------------------------
(* The interrupt handler: HandleEvents.                                     *)

BugAccepts(slot) == ~m_bCommandCompleted

\* CommandCompleted: not given up, and the command that is waited for.
Accepts(slot) == ~m_bCommandCompleted /\ m_pCurrentCommandTRB = slot

CommandCompleted(event) ==
  IF Accepts(event.slot)
  THEN /\ m_pCurrentCommandTRB' = NoTRB
       /\ m_uchCompletionCode' = event.serial
       /\ m_bCommandCompleted' = TRUE
  ELSE UNCHANGED <<m_pCurrentCommandTRB, m_uchCompletionCode, m_bCommandCompleted>>

\* The events of ports, which clear a register, and those of transfers
\* (module XhciEndpoint) do nothing here.
HandleEvent ==
  /\ ~failed
  /\ HasEntry(m_EventRing)
  /\ CommandCompleted(m_EventRing.trb[m_EventRing.index].body)
  /\ m_EventRing' = IncrementDequeue(m_EventRing)
  /\ hc' = [hc EXCEPT !.erdp = m_EventRing'.index]
  /\ posted' = Tail(posted)
  /\ UNCHANGED <<m_CmdRing, task, queued, failed>>

-----------------------------------------------------------------------------
(* The controller.                                                          *)

HcOwns == m_CmdRing.trb[hc.at].c = hc.cycle

\* It fetches the next command, or follows the link and toggles, ...
HcFetch ==
  /\ ~failed
  /\ hc.running /\ hc.doing = NoCommand /\ HcOwns
  /\ IF hc.at = LinkIndex
     THEN hc' = [hc EXCEPT !.at = 0, !.cycle = 1 - @] /\ UNCHANGED queued
     ELSE /\ hc' = [hc EXCEPT !.at = @ + 1, !.slot = hc.at, !.doing = m_CmdRing.trb[hc.at].body]
          /\ queued' = Tail(queued)
  /\ UNCHANGED <<driverVars, task, posted, failed>>

\* or finds none and waits for the doorbell.
HcStop ==
  /\ ~failed
  /\ hc.running /\ hc.doing = NoCommand /\ ~HcOwns
  /\ hc' = [hc EXCEPT !.running = FALSE]
  /\ UNCHANGED <<driverVars, task, queued, posted, failed>>

\* It posts an event while there is room before ERDP.
HcComplete ==
  /\ ~failed
  /\ hc.doing # NoCommand
  /\ (hc.evAt + 1) % TRBCount # hc.erdp
  /\ LET event == [slot |-> hc.slot, serial |-> hc.doing]
     IN  /\ m_EventRing' = [m_EventRing EXCEPT !.trb[hc.evAt] = [body |-> event, c |-> hc.evCycle]]
         /\ posted' = Append(posted, event)
  /\ hc' = [hc EXCEPT !.evAt = (@ + 1) % TRBCount,
                      !.evCycle = IF hc.evAt + 1 = TRBCount THEN 1 - @ ELSE @,
                      !.doing = NoCommand]
  /\ UNCHANGED <<m_CmdRing, m_pCurrentCommandTRB, m_bCommandCompleted, m_uchCompletionCode,
                 task, queued, failed>>

-----------------------------------------------------------------------------
Task ==
  \/ Start \/ SetCurrent \/ SetPending \/ Enqueue \/ Doorbell
  \/ Done \/ GiveUp \/ Forget

Next ==
  \/ Task \/ Expire
  \/ HandleEvent
  \/ HcFetch \/ HcStop \/ HcComplete

Spec == Init /\ [][Next]_vars

\* The task runs, and time passes.  Nothing is assumed of the controller.
FairSpec == Spec /\ WF_vars(Task) /\ WF_vars(Expire)

-----------------------------------------------------------------------------
(* Properties.                                                              *)

\* Across any number of laps, links and late commands, what the controller
\* finds on the command ring are the commands that it has not fetched, in
\* order, each of them once; so are the events that the driver finds.
RingsExact ==
  LET commands == WithoutLink(Finds(m_CmdRing.trb, hc.at, hc.cycle))
      events == Finds(m_EventRing.trb, m_EventRing.index, m_EventRing.cycle)
  IN  /\ queued = [k \in DOMAIN commands |-> m_CmdRing.trb[commands[k]].body]
      /\ posted = [k \in DOMAIN events |-> m_EventRing.trb[events[k]].body]

\* A command returns the result of its own execution, or a timeout: never
\* what the controller answered to a command that was given up before, though
\* that may arrive at any time.  No assertion fails on the way.
OwnResult ==
  /\ ~failed
  /\ task.at = "idle" => task.result \in {NoCommand, Timeout, task.serial}

\* DoCommand returns, also when the controller never answers.
CommandReturns == task.at # "idle" ~> task.at = "idle"
=============================================================================
