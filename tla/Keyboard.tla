------------------------------- MODULE Keyboard -------------------------------
(***************************************************************************)
(* A USB keyboard on the xHCI.  Its reports come through the interrupt     *)
(* endpoint: the completion interrupt compares a report with the last one, *)
(* makes key events of the difference, and posts the next request.  Its    *)
(* lamps are set by the main loop, which compares the locks of the key map *)
(* with what it has sent last and sends a control transfer if they differ; *)
(* the interrupt may change the locks at any point of this.                *)
(*                                                                         *)
(* What the handler of key events does is the subject of modules Login and *)
(* Shell, Ctrl-Alt-Del that of MainLoop.  The device sends any reports.    *)
(* KeyboardInit is the state after Configure.                              *)
(***************************************************************************)
EXTENDS XhciEndpoint, FiniteSets, SequencesExt

CONSTANTS
  Keys,     \* the keys of the keyboard: lock keys and others
  Mods      \* its modifier keys

Locks == {"Caps", "Num", "Scroll"}     \* the lock keys, and the locks
RollOver == "RollOver"                 \* the code 0x01 in place of every key

NoKey == "NoKey"                       \* the code 0x00

ASSUME KeyboardAssumption == IsFiniteSet(Keys) /\ RollOver \notin Keys /\ NoKey \notin Keys

NoReport == [mods |-> {}, keys |-> <<>>]

VARIABLES
  control,       \* endpoint 0, its TDs are lamp settings
  report,        \* the interrupt endpoint
  events,        \* the event ring: [ep, ok, data]
  m_LastReport,
  behaviour,     \* CKeyboardBehaviour and CKeyMap: [modifiers, lastKey, locks]
  m_ucLastLEDStatus,
  main,          \* the main loop: [at, status]
  lit,     \* the device: [mods, keys], and its lamps
  typed,         \* (history) events of a key since it was up last, 2 for more
  faults,        \* (history) a transfer had an "error", or was left in a "timeout"
  failed         \* an assertion has failed, or a stack frame was run as code

driverVars == <<m_LastReport, behaviour, m_ucLastLEDStatus>>
keyboardVars == <<control, report, events, driverVars, main, lit, typed, faults, failed>>

KeyboardInit ==
  /\ control = NewEndpoint
  /\ report = Submit(Enqueue(NewEndpoint, NoReport))
  /\ events = <<>>
  /\ m_LastReport = NoReport
  /\ behaviour = [modifiers |-> {}, lastKey |-> NoKey, locks |-> {"Num"}]
  /\ m_ucLastLEDStatus = {}
  /\ main = [at |-> "loop", status |-> {}]
  /\ lit = {}
  /\ typed = [k \in Keys |-> 0]
  /\ faults = {} /\ failed = FALSE

-----------------------------------------------------------------------------
(* CKeyboardBehaviour: b is the object, and the keys it has made events of. *)

\* Translate: the lock keys, unless with Alt or a Windows key.
Translate(b, key) ==
  IF key \in Locks /\ b.modifiers \intersect {"Alt", "Win"} = {}
  THEN (b.locks \ {key}) \union ({key} \ b.locks)
  ELSE b.locks

KeyPressed(b, key) ==
  IF key = b.lastKey THEN b
  ELSE [b EXCEPT !.lastKey = key, !.locks = Translate(b, key), !.made = Append(@, key)]

KeyReleased(b, key) == IF key = b.lastKey THEN [b EXCEPT !.lastKey = NoKey] ELSE b

BugMemory(new) == [m_LastReport EXCEPT !.mods = new.mods]

\* What is compared with the report that follows.
Memory(new) == new

\* The modifiers, which make no events, the released keys, the pressed keys.
ReportHandler(new) ==
  LET release(b, key) == IF Contains(new.keys, key) THEN b ELSE KeyReleased(b, key)
      press(b, key) == IF Contains(m_LastReport.keys, key) THEN b ELSE KeyPressed(b, key)
      modifiers == (behaviour.modifiers \ (m_LastReport.mods \ new.mods))
                     \union (new.mods \ m_LastReport.mods)
      start == [modifiers |-> modifiers, lastKey |-> behaviour.lastKey,
                locks |-> behaviour.locks, made |-> <<>>]
      after == FoldLeft(press, FoldLeft(release, start, m_LastReport.keys), new.keys)
  IN  /\ behaviour' = [modifiers |-> after.modifiers, lastKey |-> after.lastKey,
                       locks |-> after.locks]
      /\ m_LastReport' = Memory(new)
      /\ typed' = [k \in Keys |->
                     CASE ~Contains(new.keys, k) -> 0
                       [] Contains(after.made, k) -> IF typed[k] = 0 THEN 1 ELSE 2
                       [] OTHER -> typed[k]]

-----------------------------------------------------------------------------
(* The interrupt handler: one event of the controller.                      *)

Take(ep) == events # <<>> /\ Head(events).ep = ep /\ events' = Tail(events)

\* A report, or none after an error; then the next request is posted.
ReportEvent ==
  /\ ~failed
  /\ Take("report")
  /\ IF Head(events).ok THEN ReportHandler(Head(events).data)
     ELSE UNCHANGED <<m_LastReport, behaviour, typed>>
  /\ failed' = ~(MayEnd(report) /\ MaySubmit(Let(report)))
  /\ report' = Submit(Enqueue(Let(report), NoReport))
  /\ UNCHANGED <<control, m_ucLastLEDStatus, main, lit, faults>>

\* The end of a control transfer.  Of a request that went out of scope there
\* may be left anything or everything, the completion routine included.
ControlEvent ==
  /\ ~failed
  /\ Take("control")
  /\ failed' \in { ~(MayEnd(control) /\ MayComplete(control)), failed \/ control.urb = "stale" }
  /\ control' = Complete(Let(control))
  /\ UNCHANGED <<report, driverVars, main, lit, typed, faults>>

-----------------------------------------------------------------------------
(* The main loop: UpdateLEDs, and Transfer for it.                          *)

At(label) == ~failed /\ main.at = label

Has(lock) == behaviour.locks \intersect {lock}

\* UpdateLEDs; GetLEDStatus tests one lock after the other.
UpdateLEDs ==
  /\ At("loop")
  /\ main' = [at |-> "num", status |-> Has("Caps")]
  /\ UNCHANGED <<control, report, events, driverVars, lit, typed, faults, failed>>

GetLEDStatus ==
  /\ At("num")
  /\ main' = [at |-> "scroll", status |-> main.status \union Has("Num")]
  /\ UNCHANGED <<control, report, events, driverVars, lit, typed, faults, failed>>

BugSent(status) == behaviour.locks

\* What is sent is noted as sent whatever becomes of it.
Sent(status) == status

\* The transfer is begun and its TRBs are on the ring.
SetLEDs ==
  /\ At("scroll")
  /\ LET status == main.status \union Has("Scroll")
     IN  IF status = m_ucLastLEDStatus
         THEN /\ main' = [at |-> "loop", status |-> {}]
              /\ UNCHANGED <<control, m_ucLastLEDStatus, failed>>
         ELSE /\ main' = [at |-> "submit", status |-> status]
              /\ m_ucLastLEDStatus' = Sent(status)
              /\ failed' = ~MayTransfer(control)
              /\ control' = Enqueue(Begin(control), status)
  /\ UNCHANGED <<report, events, m_LastReport, behaviour, lit, typed, faults>>

RingDoorbell ==
  /\ At("submit")
  /\ main' = [main EXCEPT !.at = "poll", !.status = {}]
  /\ failed' = ~MaySubmit(control)
  /\ control' = Submit(control)
  /\ UNCHANGED <<report, events, driverVars, lit, typed, faults>>

Completed ==
  /\ At("poll") /\ control.completed
  /\ main' = [at |-> "loop", status |-> {}]
  /\ control' = Leave(control)
  /\ UNCHANGED <<report, events, driverVars, lit, typed, faults, failed>>

\* HZ ticks are over.  The answer may come before that is noted, or later.
Expire ==
  /\ At("poll") /\ ~control.completed
  /\ main' = [main EXCEPT !.at = "expired"]
  /\ UNCHANGED <<control, report, events, driverVars, lit, typed, faults, failed>>

GiveUp ==
  /\ At("expired")
  /\ main' = [at |-> "loop", status |-> {}]
  /\ control' = Leave(control)
  /\ faults' = IF control.urb = "none" THEN faults ELSE faults \union {"timeout"}
  /\ UNCHANGED <<report, events, driverVars, lit, typed, failed>>

-----------------------------------------------------------------------------
(* The device and the controller.                                           *)

\* (bound) After a timeout only what is under way goes on.
Goes == ~failed /\ "timeout" \notin faults

\* What a keyboard can say: which keys are held, or that it cannot tell.
Reports ==
  { [mods |-> mods, keys |-> keys] :
      mods \in SUBSET Mods,
      keys \in (UNION { SetToSeqs(set) : set \in SUBSET Keys }) \union {<<RollOver, RollOver>>} }

\* When something has changed since the last report.
SendReport ==
  /\ Goes
  /\ Works(report)
  /\ \E new \in Reports \ {m_LastReport} :
       events' = Append(events, [ep |-> "report", ok |-> TRUE, data |-> new])
  /\ report' = Done(report)
  /\ UNCHANGED <<control, driverVars, main, lit, typed, faults, failed>>

LoseReport ==
  /\ Goes
  /\ Works(report)
  /\ events' = Append(events, [ep |-> "report", ok |-> FALSE, data |-> NoReport])
  /\ report' = Broken(report)
  /\ faults' = faults \union {"error"}
  /\ UNCHANGED <<control, driverVars, main, lit, typed, failed>>

SetLamps ==
  /\ ~failed
  /\ Works(control)
  /\ lit' = Head(control.tds)
  /\ events' = Append(events, [ep |-> "control", ok |-> TRUE, data |-> NoReport])
  /\ control' = Done(control)
  /\ UNCHANGED <<report, driverVars, main, typed, faults, failed>>

RefuseLamps ==
  /\ Goes
  /\ Works(control)
  /\ events' = Append(events, [ep |-> "control", ok |-> FALSE, data |-> NoReport])
  /\ control' = Broken(control)
  /\ faults' = faults \union {"error"}
  /\ UNCHANGED <<report, driverVars, main, lit, typed, failed>>

-----------------------------------------------------------------------------
MainLoop ==
  \/ UpdateLEDs \/ GetLEDStatus \/ SetLEDs
  \/ RingDoorbell \/ Completed \/ GiveUp

KeyboardNext ==
  \/ MainLoop \/ Expire
  \/ ReportEvent \/ ControlEvent
  \/ SendReport \/ LoseReport \/ SetLamps \/ RefuseLamps

KeyboardSpec == KeyboardInit /\ [][KeyboardNext]_keyboardVars

\* The main loop goes round (MainLoop, LoopTurns), interrupts are delivered,
\* and the controller does what it is told.
FairSpec ==
  /\ KeyboardSpec
  /\ WF_keyboardVars(MainLoop)
  /\ WF_keyboardVars(ReportEvent \/ ControlEvent)
  /\ WF_keyboardVars(SetLamps)

-----------------------------------------------------------------------------
(* Properties.                                                              *)

\* A key has made exactly one event since the first report that has it, until
\* one that has it not, whatever other keys go up and down meanwhile, in any
\* order in the reports.  The key remembered as the last one is a key of the
\* last report, and the modifiers are those of that report.
KeysOnce ==
  /\ \A k \in Keys : typed[k] = IF Contains(m_LastReport.keys, k) THEN 1 ELSE 0
  /\ behaviour.lastKey = NoKey \/ Contains(m_LastReport.keys, behaviour.lastKey)
  /\ behaviour.modifiers = m_LastReport.mods

\* No assertion of the endpoints fails, and no completion routine is taken
\* from a stack frame that is gone, unless a transfer has timed out before.
\* A request that ends with an error does no harm.
RequestsKept == failed => "timeout" \in faults

\* Once no lock changes any more the lamps show the locks: a change that
\* comes during a transfer, or when its lock has just been tested, is not lost.
LampsShowLocks ==
  <>[][UNCHANGED behaviour.locks]_keyboardVars => <>[](lit = behaviour.locks \/ faults # {})
=============================================================================
