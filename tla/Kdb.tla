--------------------------------- MODULE Kdb ---------------------------------
(***************************************************************************)
(* Stopping and resuming under the kernel debugger: kernel/kdb/kdb.c, the  *)
(* part of kernel/kdb/gdb.c and command.c that acts on contexts, and       *)
(* arch/i386/kernel/kdb/{kdb,i16550A}.c.                                   *)
(*                                                                         *)
(* The debugger has no thread.  It runs in interrupt handlers that nest on *)
(* the stack of the program they stop: a handler that stops the machine    *)
(* spins in kdb_suspend() with interrupts enabled, and the next character  *)
(* from the serial port runs a handler on top of it.  Level n of the stack *)
(* is the n-th handler; its trap frame, at "address" n, holds the          *)
(* registers of the code of level n-1, the program being level 0.          *)
(*                                                                         *)
(* One received item is the control character or the last character of a   *)
(* whole packet (module GdbPackets has the characters).                    *)
(***************************************************************************)
EXTENDS Integers, Sequences

CONSTANTS
  Sessions,     \* the debugging sessions considered, records with
                \*   commands  what gdb does to an attached target
                \*   prompt    an interrupt is taken before the next instruction
                \*   traps     bound: breakpoint instructions the program runs into
                \*   lossy     packets whose acknowledgement may be lost
  MaxSends,     \* bound: items gdb sends
  MaxLosses,    \* bound: acknowledgements lost on the line
  MaxLevel      \* bound: nested handlers

ASSUME KdbAssumption ==
  /\ \A s \in Sessions :
       /\ s.commands \subseteq {"continue", "step", "detach", "insert", "remove",
                                "interrupt"}
       /\ s.lossy \subseteq s.commands \cup {"getSignal"}
       /\ s.prompt \in BOOLEAN /\ s.traps \in Nat
  /\ MaxSends \in Nat /\ MaxLosses \in Nat
  /\ MaxLevel \in Nat \ {0}

(***************************************************************************)
(* The sessions whose invariants are claimed.  In a breakpoint session gdb *)
(* does not interrupt a running target.  In an interrupt session it does,  *)
(* and it detaches; an interrupt is taken as soon as it is requested, and  *)
(* the program traps nowhere.  Only the acknowledgements of packets that   *)
(* can be executed twice are lost.                                         *)
(***************************************************************************)
BreakpointSession(s) ==
  /\ s.commands \subseteq {"continue", "step", "insert", "remove"}
  /\ s.lossy \subseteq {"getSignal", "insert", "remove"}

InterruptSession(s) ==
  /\ s.commands \subseteq {"continue", "detach", "interrupt"}
  /\ s.lossy \subseteq {"getSignal"}
  /\ s.prompt /\ s.traps = 0

VARIABLES
  kdb,          \* the processor's stack and the debugger's variables
  eip,          \* where the program is: "run", or "at" or "after" the byte
  stint,        \* how many times the program has been resumed
  trace,        \* the code returned to runs with the trace flag set
  original,     \* the byte there in the kernel image: "int3" or "code"
  host,         \* gdb: "detached", "stopped" or "running"
  outstanding,  \* the packet gdb has sent and seen no '+' for
  session,      \* one of Sessions
  traps, sent, losses

vars == <<kdb, eip, stint, trace, original, host, outstanding, session, traps, sent, losses>>

\* The registers in a trap frame: of which level (and, for the program, of
\* which stint), the program counter, the trace flag.
Image(level, n, pc, tf) == [of |-> level, stint |-> n, eip |-> pc, tf |-> tf]
Garbage == Image(-1, 0, "run", FALSE)

(***************************************************************************)
(* kdb_init(): nothing attached, nothing suspended, no context.            *)
(***************************************************************************)
Init ==
  /\ session \in Sessions
  /\ original \in {"int3", "code"}
  /\ kdb = [stack |-> <<>>,            \* handlers, outermost first
            currentContext |-> 0, savedContext |-> 0, registers |-> Garbage,
            attached |-> FALSE, suspended |-> FALSE, panicked |-> FALSE,
            byte |-> original,         \* the byte in memory now
            rx |-> <<>>,               \* characters in the 16550A
            irr |-> FALSE, inService |-> FALSE,  \* IRQ 4 at the i8259
            interrupts |-> TRUE,       \* IF
            sentToHost |-> <<>>]
  /\ eip = "run" /\ stint = 0 /\ trace = FALSE
  /\ host = "detached" /\ outstanding = "none"
  /\ traps = 0 /\ sent = 0 /\ losses = 0

Level(k) == Len(k.stack)
Top(k) == k.stack[Level(k)]
Goto(k, label) == [k EXCEPT !.stack[Level(k)].at = label]
Reply(k, packet) == [k EXCEPT !.sentToHost = Append(@, packet)]

\* kdb_sendTrapStatus: the packet carries the registers.
SendTrapStatus(k) == Reply(k, "T")

\* kdb_enableStep and kdb_disableStep: the trace flag in the copy.
EnableStep(k) == [k EXCEPT !.registers.tf = TRUE]
DisableStep(k) == [k EXCEPT !.registers.tf = FALSE]

\* kdb_writeByte, to a page that is present.
WriteByte(k, byte) == [k EXCEPT !.byte = byte]

-----------------------------------------------------------------------------
\* The debugger's functions, as functions on its state.

\* A frame of a handler that has returned is dead memory.
FrameAt(k, context) ==
  IF context \in 1 .. Level(k) THEN k.stack[context].frame ELSE Garbage

\* kdb_prepareRegisters
Prepare(k, context) ==
  [k EXCEPT !.currentContext = context,
            !.registers = FrameAt(k, context),
            !.panicked = (context = 0)]

\* kdb_restoreRegisters: panics without a context; may write dead memory.
Restore(k) ==
  IF k.currentContext = 0 THEN [k EXCEPT !.panicked = TRUE] ELSE
  IF k.currentContext > Level(k) THEN k ELSE
  [k EXCEPT !.stack[k.currentContext].frame = k.registers]

(***************************************************************************)
(* kdb_suspend: a second suspension returns at once; the first drains the  *)
(* 16550A, acknowledges the interrupt and spins with interrupts enabled.   *)
(***************************************************************************)
Suspend(k) ==
  IF k.suspended THEN k ELSE
  Goto([k EXCEPT !.rx = <<>>, !.inService = FALSE, !.suspended = TRUE,
                 !.interrupts = TRUE], "spin")

\* Mutant: resuming forgets to clear kdb_suspended.
ResumeOnlyRestores(k) == Restore(k)

\* kdb_resume
Resume(k) ==
  LET r == Restore(k)
  IN IF r.panicked THEN r ELSE [r EXCEPT !.suspended = FALSE]

\* Mutant: a stop is not reported.
ServiceSilent(k) == Suspend(k)

\* kdb_service
Service(k) == Suspend(IF k.attached THEN SendTrapStatus(k) ELSE k)

-----------------------------------------------------------------------------
\* The program and the exceptions it meets.

(***************************************************************************)
(* IRQ 4 is taken when it is requested, not masked and not in service.     *)
(* The way from the 16550A over the i8259 takes some time, unless it is prompt.  *)
(***************************************************************************)
Requested == kdb.irr /\ kdb.interrupts /\ ~kdb.inService /\ ~trace
Interruptible == Requested /\ Level(kdb) < MaxLevel

Running == ~kdb.panicked
Executing == Running /\ ~(session.prompt /\ Requested)

\* The registers of the code that is running now.
Interrupted(pc, tf) ==
  Image(Level(kdb), IF kdb.stack = <<>> THEN stint ELSE 0, pc, tf)

Push(k, kind, label, frame) ==
  [k EXCEPT !.stack = Append(@, [kind |-> kind, at |-> label, frame |-> frame]),
            !.interrupts = FALSE]

\* Mutants: the context is used without kdb_prepareRegisters; eip stays
\* behind the int3.
EnterIsrUnprepared(k, kind, frame) ==
  LET pushed == Push(k, kind, "check", frame)
  IN Service(DisableStep([pushed EXCEPT !.currentContext = Level(pushed)]))

EnterIsrNoDecrement(k, kind, frame) ==
  LET pushed == Push(k, kind, "check", frame)
      prepared == Prepare(pushed, Level(pushed))
  IN Service(DisableStep(prepared))

(***************************************************************************)
(* kdb_softIsr and kdb_hardIsr up to their wait: interrupts are disabled   *)
(* (mal_attachIsr installs interrupt gates), so this part is one step.     *)
(* The int3 handler steps eip back to the instruction.                     *)
(***************************************************************************)
EnterIsr(k, kind, frame) ==
  LET pushed == Push(k, kind, "check", frame)
      prepared == Prepare(pushed, Level(pushed))
      pc == IF kind = "soft" /\ frame.eip = "after" THEN "at" ELSE frame.eip
  IN Service(DisableStep([prepared EXCEPT !.registers.eip = pc]))

\* The program executes the int3 at the byte, whoever put it there.
SoftTrap ==
  /\ Executing /\ kdb.stack = <<>> /\ kdb.byte = "int3"
  /\ \/ eip = "at" /\ UNCHANGED traps
     \/ eip = "run" /\ ~trace /\ traps < session.traps /\ traps' = traps + 1
  /\ kdb' = EnterIsr(kdb, "soft", Image(0, stint, "after", trace))
  /\ eip' = "after" /\ trace' = FALSE
  /\ UNCHANGED <<stint, original, session, host, outstanding, sent, losses>>

\* Any other instruction of the program.
ProgramStep ==
  /\ Executing /\ kdb.stack = <<>> /\ ~trace
  /\ eip = "after" \/ (eip = "at" /\ kdb.byte = "code")
  /\ eip' = "run"
  /\ UNCHANGED <<kdb, stint, trace, original, session, host, outstanding, traps, sent, losses>>

\* With the trace flag one instruction runs, then the debug exception.
DebugTrap ==
  /\ Running /\ trace /\ Level(kdb) < MaxLevel
  /\ ~(kdb.stack = <<>> /\ eip = "at" /\ kdb.byte = "int3")
  /\ kdb' = EnterIsr(kdb, "hard", Interrupted("run", TRUE))
  /\ eip' = IF kdb.stack = <<>> THEN "run" ELSE eip
  /\ trace' = FALSE
  /\ UNCHANGED <<stint, original, session, host, outstanding, traps, sent, losses>>

-----------------------------------------------------------------------------
\* Handlers, while they are on top of the stack.

(***************************************************************************)
(* The iret of a handler: the code below goes on with the registers in the *)
(* frame.  Interrupts are enabled again: it was interrupted with them on.  *)
(***************************************************************************)
Iret(k, frame) ==
  /\ kdb' = [k EXCEPT !.stack = SubSeq(@, 1, Len(@) - 1), !.interrupts = TRUE]
  /\ eip' = IF Level(k) = 1 THEN frame.eip ELSE eip
  /\ stint' = IF Level(k) = 1 THEN stint + 1 ELSE stint
  /\ trace' = frame.tf
  /\ UNCHANGED <<original, session, host, outstanding, traps, sent, losses>>

OnTop(kind, label) ==
  /\ Executing /\ kdb.stack # <<>> /\ ~trace
  /\ Top(kdb).kind \in kind /\ Top(kdb).at = label

Step(k) ==
  /\ kdb' = k
  /\ UNCHANGED <<eip, stint, trace, original, session, host, outstanding, traps, sent, losses>>

\* while(kdb_suspended);  the handler goes on when it reads 0.
LeaveSpin ==
  /\ OnTop({"soft", "hard", "uart"}, "spin")
  /\ ~kdb.suspended
  /\ Step(Goto(kdb, IF Top(kdb).kind = "uart" THEN "poll" ELSE "check"))

\* Mutant: the context is dropped before the registers are restored.
CheckBreakpointWithoutContext ==
  /\ OnTop({"soft"}, "check")
  /\ LET forgotten == [kdb EXCEPT !.currentContext = 0]
         skipped == Restore([forgotten EXCEPT !.registers.eip = "after"])
     IN Step(Goto(IF kdb.registers.eip = "at" /\ kdb.byte = "int3"
                  THEN skipped ELSE forgotten, "leave"))

(***************************************************************************)
(* The end of kdb_softIsr: an int3 that is still there belongs to the      *)
(* kernel and is skipped.  It looks where kdb_registers.eip points now.    *)
(***************************************************************************)
CheckBreakpoint ==
  /\ OnTop({"soft"}, "check")
  /\ LET skipped == Restore([kdb EXCEPT !.registers.eip = "after"])
     IN Step(Goto(IF kdb.registers.eip = "at" /\ kdb.byte = "int3"
                  THEN skipped ELSE kdb, "leave"))

\* The handlers of the two exceptions forget the context and return.
LeaveIsr ==
  /\ \/ OnTop({"soft"}, "leave")
     \/ OnTop({"hard"}, "check")
  /\ Iret([kdb EXCEPT !.currentContext = 0], Top(kdb).frame)

\* Mutant: the test of the 16550A's interrupt identification is inverted.
UartInterruptIgnoresCharacter ==
  /\ Running /\ Interruptible
  /\ LET pc == IF kdb.stack = <<>> THEN eip ELSE "run"
         pushed == Push(kdb, "uart", IF kdb.rx = <<>> THEN "get" ELSE "ack",
                        Interrupted(pc, FALSE))
     IN Step([pushed EXCEPT !.irr = FALSE, !.inService = TRUE,
                            !.savedContext = Level(pushed)])

(***************************************************************************)
(* IRQ 4.  kdb_i16550A_isr saves the address of its frame and asks the     *)
(* 16550A whether a character is there.                                    *)
(***************************************************************************)
UartInterrupt ==
  /\ Running /\ Interruptible
  /\ LET pc == IF kdb.stack = <<>> THEN eip ELSE "run"
         pushed == Push(kdb, "uart", IF kdb.rx = <<>> THEN "ack" ELSE "get",
                        Interrupted(pc, FALSE))
     IN Step([pushed EXCEPT !.irr = FALSE, !.inService = TRUE,
                            !.savedContext = Level(pushed)])

\* kdb_junk_process on CTRL-C.
ControlC(k) == Service(Prepare(k, k.savedContext))

\* Mutants: memory writes are not supported; a step traces the handler
\* instead of the program; detaching does not resume.
CallbackNoWrites(k, command) ==
  IF command = "getSignal" THEN Reply(k, "S") ELSE
  IF command = "continue" THEN Resume(k) ELSE
  IF command = "step" THEN Resume(EnableStep(k)) ELSE
  IF command = "detach" THEN Resume(Reply([k EXCEPT !.attached = FALSE], "OK"))
  ELSE Reply(k, "")

CallbackStepsHandler(k, command) ==
  IF command = "getSignal" THEN Reply(k, "S") ELSE
  IF command = "continue" THEN Resume(k) ELSE
  IF command = "step" THEN Goto([Resume(k) EXCEPT !.stack[Level(k)].frame.tf = TRUE], "poll")
  ELSE Reply(k, "OK")

CallbackDetachStays(k, command) ==
  IF command = "getSignal" THEN Reply(k, "S") ELSE
  IF command = "continue" THEN Resume(k)
  ELSE Reply([k EXCEPT !.attached = FALSE], "OK")

\* kdb_command_writeMemory, for the one byte of a breakpoint.
WriteMemory(k, byte) == Reply(WriteByte(k, byte), "OK")

\* The callbacks of kdb_commands.
Callback(k, command) ==
  IF command = "getSignal" THEN Reply(k, "S") ELSE
  IF command = "continue" THEN Resume(k) ELSE
  IF command = "step" THEN Resume(EnableStep(k)) ELSE
  IF command = "detach" THEN Resume(Reply([k EXCEPT !.attached = FALSE], "OK")) ELSE
  WriteMemory(k, IF command = "insert" THEN "int3" ELSE "code")

(***************************************************************************)
(* kdb_checksum2_process on a good packet.  The first packet attaches the  *)
(* debugger, and stops the kernel if it is not stopped already.            *)
(***************************************************************************)
Execute(k, command) ==
  LET done == Callback(Reply(k, "+"), command)
      attaching == [done EXCEPT !.attached = TRUE]
  IN IF k.attached \/ done.panicked THEN done ELSE
     IF done.suspended THEN attaching
     ELSE Suspend(Prepare(attaching, attaching.savedContext))

\* A character read empties the 16550A, or not; an emptied one may take its
\* request back.
Received(k) == [k EXCEPT !.rx = IF @ = <<>> THEN @ ELSE Tail(@)]
MayDropRequest(k) == {k} \cup (IF k.rx = <<>> THEN {[k EXCEPT !.irr = FALSE]} ELSE {})

\* kdb_i16550A_getchar and kdb_receive; -1 when a nested handler was first.
Receive ==
  /\ OnTop({"uart"}, "get")
  /\ LET k == Goto(Received(kdb), "poll")
         after == IF kdb.rx = <<>> THEN k ELSE
                  IF Head(kdb.rx) = "^C" THEN ControlC(k)
                                         ELSE Execute(k, Head(kdb.rx))
     IN \E next \in MayDropRequest(after) : Step(next)

Poll ==
  /\ OnTop({"uart"}, "poll")
  /\ Step(Goto(kdb, IF kdb.rx = <<>> THEN "ack" ELSE "get"))

\* kdb_i16550A_ack and the return from the interrupt.
LeaveUart ==
  /\ OnTop({"uart"}, "ack")
  /\ Iret([kdb EXCEPT !.inService = FALSE], Top(kdb).frame)

-----------------------------------------------------------------------------
(***************************************************************************)
(* gdb, the environment (external).  It sends one packet at a time, waits  *)
(* for '+', sends it again when none comes, gives commands only to a       *)
(* target it believes stopped, and takes its breakpoint out of a stopped   *)
(* target before the target goes on.                                       *)
(***************************************************************************)
Send(item) ==
  /\ sent < MaxSends /\ sent' = sent + 1
  /\ kdb' = [kdb EXCEPT !.rx = Append(@, item),
                        !.irr = @ \/ kdb.rx = <<>>]
  /\ UNCHANGED <<eip, stint, trace, original, session, traps, losses>>

SendPacket(command) ==
  /\ Running /\ outstanding = "none" /\ kdb.sentToHost = <<>>
  /\ outstanding' = command
  /\ Send(command)
  /\ UNCHANGED host

Attach == host = "detached" /\ SendPacket("getSignal")

PlantedByHost == original = "code" /\ kdb.byte = "int3"

\* gdb knows where the target stopped from the registers in the T packet.
Command(command) ==
  /\ host = "stopped"
  /\ command = "insert" =>
       /\ original = "code" /\ kdb.byte = "code"
       /\ kdb.registers.eip = "run"
  /\ command = "remove" => PlantedByHost
  /\ (command # "remove" /\ PlantedByHost) => kdb.registers.eip = "run"
  /\ SendPacket(command)

\* gdb sends no second ^C before an answer to the first.
Interrupt ==
  /\ "interrupt" \in session.commands
  /\ Running /\ host = "running" /\ outstanding = "none"
  /\ host' = "interrupting"
  /\ Send("^C")
  /\ UNCHANGED outstanding

\* The packet or its '+' got lost: nothing is on its way any more.
Retransmit ==
  /\ Running /\ outstanding # "none"
  /\ kdb.rx = <<>> /\ kdb.sentToHost = <<>>
  /\ kdb.stack # <<>> => Top(kdb).at = "spin"
  /\ Send(outstanding)
  /\ UNCHANGED <<host, outstanding>>

HostReceives ==
  /\ kdb.sentToHost # <<>>
  /\ kdb' = [kdb EXCEPT !.sentToHost = Tail(@)]
  /\ LET packet == Head(kdb.sentToHost)
     IN \/ /\ packet = "+"
           /\ outstanding' = "none"
           /\ host' = IF outstanding \in {"continue", "step"} THEN "running" ELSE
                      IF outstanding = "detach" THEN "detached" ELSE host
        \/ /\ packet # "+"
           /\ host' = IF packet \in {"T", "S"} /\ outstanding = "none"
                      THEN "stopped" ELSE host
           /\ UNCHANGED outstanding
  /\ UNCHANGED <<eip, stint, trace, original, session, traps, sent, losses>>

LoseAck ==
  /\ losses < MaxLosses /\ losses' = losses + 1
  /\ outstanding \in session.lossy
  /\ kdb.sentToHost # <<>> /\ Head(kdb.sentToHost) = "+"
  /\ kdb' = [kdb EXCEPT !.sentToHost = Tail(@)]
  /\ UNCHANGED <<eip, stint, trace, original, session, host, outstanding, traps, sent>>

Host ==
  \/ Attach
  \/ \E command \in session.commands \ {"interrupt"} : Command(command)
  \/ Interrupt
  \/ Retransmit
  \/ HostReceives
  \/ LoseAck

Program == SoftTrap \/ ProgramStep \/ DebugTrap
Handlers == LeaveSpin \/ CheckBreakpoint \/ LeaveIsr \/ Receive \/ Poll \/ LeaveUart

Next == Program \/ UartInterrupt \/ Handlers \/ Host

Spec == Init /\ [][Next]_vars

(***************************************************************************)
(* The processor keeps executing and delivers the interrupts it is asked   *)
(* for; gdb reads what it is sent and repeats what is not answered.  gdb   *)
(* need not give a command, and the program need not meet a breakpoint.    *)
(***************************************************************************)
Fairness ==
  /\ WF_vars(ProgramStep) /\ WF_vars(SoftTrap /\ eip = "at") /\ WF_vars(DebugTrap)
  /\ WF_vars(UartInterrupt) /\ WF_vars(Handlers)
  /\ WF_vars(HostReceives) /\ WF_vars(Retransmit)

FairSpec == Spec /\ Fairness

-----------------------------------------------------------------------------

Items == {"^C", "getSignal", "continue", "step", "detach", "insert", "remove"}
Images == [of : -1 .. MaxLevel, stint : Nat, eip : {"run", "at", "after"}, tf : BOOLEAN]

Activations == [kind : {"uart", "soft", "hard"},
                at : {"get", "poll", "spin", "check", "leave", "ack"},
                frame : Images]

Machines ==
  [stack : Seq(Activations),
   currentContext : 0 .. MaxLevel, savedContext : 0 .. MaxLevel, registers : Images,
   attached : BOOLEAN, suspended : BOOLEAN, panicked : BOOLEAN,
   byte : {"int3", "code"}, rx : Seq(Items),
   irr : BOOLEAN, inService : BOOLEAN, interrupts : BOOLEAN,
   sentToHost : Seq({"+", "T", "S", "OK"})]

TypeOK ==
  /\ kdb \in Machines /\ Level(kdb) <= MaxLevel
  /\ eip \in {"run", "at", "after"} /\ stint \in Nat /\ trace \in BOOLEAN
  /\ original \in {"int3", "code"} /\ session \in Sessions
  /\ host \in {"detached", "stopped", "running", "interrupting"}
  /\ outstanding \in Items \cup {"none"}
  /\ traps \in Nat /\ sent \in Nat /\ losses \in Nat

(***************************************************************************)
(* A handler returns to the code it interrupted: whatever the debugger     *)
(* wrote, each frame on the stack holds registers of the level below, and  *)
(* the lowest one those the program had when it was last stopped           *)
(* (kernel.tex: it continues "as nothing happens because the               *)
(* serial port interrupt or breakpoint interrupt has saved all the state   *)
(* and will restore it upon return").                                      *)
(***************************************************************************)
FramesHoldTheirOwn ==
  \A n \in 1 .. Level(kdb) :
    /\ kdb.stack[n].frame.of = n - 1
    /\ n = 1 => kdb.stack[n].frame.stint = stint

(***************************************************************************)
(* While the machine is stopped, the context the debugger reads and will   *)
(* write is the frame of a handler still on the stack (kdb.h, kdb_service: *)
(* the "interrupt frame beloging to the halted thread"), and               *)
(* kdb_restoreRegisters always finds a context: panic("kdb: invalid        *)
(* context") does not happen.                                              *)
(***************************************************************************)
ContextIsLive ==
  /\ ~kdb.panicked
  /\ kdb.suspended => kdb.currentContext \in 1 .. Level(kdb)

(***************************************************************************)
(* The instruction under a breakpoint of gdb is executed: the program      *)
(* never goes on behind a byte that gdb replaced.                          *)
(***************************************************************************)
NoInstructionSkipped ==
  (original = "code" /\ kdb.stack = <<>>) => eip # "after"

(***************************************************************************)
(* gdb is not left waiting for a target that waits for gdb: when the       *)
(* kernel spins with nothing on its way, gdb knows that it is stopped.     *)
(***************************************************************************)
Quiet == kdb.rx = <<>> /\ kdb.sentToHost = <<>> /\ outstanding = "none"

StopIsKnown ==
  (kdb.attached /\ kdb.suspended /\ Quiet) => host = "stopped"

(***************************************************************************)
(* A target gdb has detached from is not left stopped (command.h,          *)
(* kdb_command_detach: "continues execution and detaches debugger"),       *)
(* unless it stopped by itself at a breakpoint.                            *)
(***************************************************************************)
DetachedTargetRuns ==
  (host = "detached" /\ Quiet /\ kdb.suspended) =>
     \E n \in 1 .. Level(kdb) : kdb.stack[n].kind = "soft"

(***************************************************************************)
(* The trace flag never fires inside the debugger: single stepping steps   *)
(* the program.                                                            *)
(***************************************************************************)
StepsTheProgram == trace => kdb.stack = <<>>

(***************************************************************************)
(* No character is forgotten in the 16550A: while one is there, a request  *)
(* is pending or a handler is about to look for it.                        *)
(***************************************************************************)
CharactersAreFetched ==
  (kdb.rx # <<>> /\ ~kdb.irr) =>
     \E n \in 1 .. Level(kdb) : kdb.stack[n].at \in {"get", "poll"}

(***************************************************************************)
(* A target gdb has told to continue runs again, or reports a stop.        *)
(***************************************************************************)
ContinueTakesEffect ==
  [](host = "running" => <>(kdb.stack = <<>> \/ host # "running"))
=============================================================================
