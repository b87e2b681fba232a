------------------------------ MODULE KdbProofs ------------------------------
(***************************************************************************)
(* The invariants of the debugger, for any depth of handlers, number of    *)
(* traps and of packets, and any addresses.  First what each function does *)
(* to the debugger's state; then Sound, which holds whatever gdb and the   *)
(* line do; then InOrder, the inductive invariant of orderly sessions.     *)
(***************************************************************************)
EXTENDS Kdb, SequenceTheorems, TLAPS

Labels == {"get", "poll", "spin", "check", "leave", "ack"}

Fields == {"stack", "currentContext", "savedContext", "registers", "attached", "suspended",
           "panicked", "byte", "rx", "irr", "inService", "interrupts", "sentToHost"}

\* r and k are states of the debugger that differ in the changed fields at most.
Alike(r, k, changed) ==
  r \in Machines /\ \A field \in Fields \ changed : r[field] = k[field]

-----------------------------------------------------------------------------
(***************************************************************************)
(* What the debugger's functions do to its state.                          *)
(***************************************************************************)

LEMMA StackReplaced ==
  ASSUME NEW k \in Machines, NEW stack \in Seq(Activations)
  PROVE  /\ Alike([k EXCEPT !.stack = stack], k, {"stack"})
         /\ [k EXCEPT !.stack = stack].stack = stack
BY DEF Machines, Alike, Fields

\* Goto moves the handler on top, and nothing else.
LEMMA GotoEffect ==
  ASSUME NEW k \in Machines, Level(k) > 0, NEW label \in Labels
  PROVE  /\ Alike(Goto(k, label), k, {"stack"})
         /\ Level(Goto(k, label)) = Level(k)
         /\ \A n \in 1 .. Level(k) :
              /\ Goto(k, label).stack[n].kind = k.stack[n].kind
              /\ Goto(k, label).stack[n].frame = k.stack[n].frame
              /\ n < Level(k) => Goto(k, label).stack[n].at = k.stack[n].at
         /\ Goto(k, label).stack[Level(k)].at = label
<1> DEFINE handler == [k.stack[Level(k)] EXCEPT !.at = label]
<1>1. k.stack \in Seq(Activations) BY DEF Machines
<1>2. k.stack[Level(k)] \in Activations BY <1>1 DEF Level
<1>3. handler \in Activations BY <1>2 DEF Activations, Labels
<1>4. Goto(k, label) = [k EXCEPT !.stack = [k.stack EXCEPT ![Level(k)] = handler]]
  BY <1>1 DEF Goto, Machines, Level
<1>5. [k.stack EXCEPT ![Level(k)] = handler] \in Seq(Activations)
  BY <1>1, <1>3 DEF Level
<1>6. /\ Alike(Goto(k, label), k, {"stack"})
      /\ Goto(k, label).stack = [k.stack EXCEPT ![Level(k)] = handler]
  BY <1>4, <1>5, StackReplaced
<1> QED BY <1>1, <1>2, <1>3, <1>5, <1>6 DEF Level, Activations

\* Reply sends one packet more.
LEMMA ReplyEffect ==
  ASSUME NEW k \in Machines, NEW packet \in {"+", "T", "S", "OK"}
  PROVE  /\ Alike(Reply(k, packet), k, {"sentToHost"})
         /\ Reply(k, packet).sentToHost = Append(k.sentToHost, packet)
<1>1. Append(k.sentToHost, packet) \in Seq({"+", "T", "S", "OK"}) BY DEF Machines
<1> QED BY <1>1 DEF Reply, Machines, Alike, Fields

\* kdb_enableStep and kdb_disableStep change the trace flag of the copy.
LEMMA StepEffect ==
  ASSUME NEW k \in Machines
  PROVE  /\ Alike(EnableStep(k), k, {"registers"})
         /\ EnableStep(k).registers = [k.registers EXCEPT !.tf = TRUE]
         /\ Alike(DisableStep(k), k, {"registers"})
         /\ DisableStep(k).registers = [k.registers EXCEPT !.tf = FALSE]
BY DEF EnableStep, DisableStep, Machines, Images, Alike, Fields

\* kdb_writeByte changes the byte.
LEMMA WriteEffect ==
  ASSUME NEW k \in Machines, NEW byte \in {"int3", "code"}
  PROVE  /\ Alike(WriteByte(k, byte), k, {"byte"})
         /\ WriteByte(k, byte).byte = byte
BY DEF WriteByte, Machines, Alike, Fields

\* The first suspension leaves the handler on top spinning.
LEMMA SuspendEffect ==
  ASSUME NEW k \in Machines, ~k.suspended, Level(k) > 0
  PROVE  /\ Alike(Suspend(k), k, {"stack", "rx", "inService", "suspended", "interrupts"})
         /\ Level(Suspend(k)) = Level(k)
         /\ \A n \in 1 .. Level(k) :
              /\ Suspend(k).stack[n].kind = k.stack[n].kind
              /\ Suspend(k).stack[n].frame = k.stack[n].frame
              /\ n < Level(k) => Suspend(k).stack[n].at = k.stack[n].at
         /\ Suspend(k).stack[Level(k)].at = "spin"
         /\ Suspend(k).rx = <<>>
         /\ Suspend(k).suspended /\ Suspend(k).interrupts /\ ~Suspend(k).inService
<1> DEFINE drained == [k EXCEPT !.rx = <<>>, !.inService = FALSE, !.suspended = TRUE,
                                !.interrupts = TRUE]
<1>1. <<>> \in Seq(Items) OBVIOUS
<1>2. /\ Alike(drained, k, {"rx", "inService", "suspended", "interrupts"})
      /\ drained.rx = <<>> /\ drained.inService = FALSE /\ drained.suspended = TRUE
      /\ drained.interrupts = TRUE
  BY <1>1 DEF Machines, Alike, Fields
<1>3. Suspend(k) = Goto(drained, "spin") BY DEF Suspend
<1> HIDE DEF drained
<1>4. drained \in Machines /\ drained.stack = k.stack BY <1>2 DEF Alike, Fields
<1>5. Level(drained) = Level(k) /\ "spin" \in Labels BY <1>4 DEF Labels, Level
<1>6. /\ Alike(Suspend(k), drained, {"stack"})
      /\ Level(Suspend(k)) = Level(k)
      /\ \A n \in 1 .. Level(k) :
           /\ Suspend(k).stack[n].kind = k.stack[n].kind
           /\ Suspend(k).stack[n].frame = k.stack[n].frame
           /\ n < Level(k) => Suspend(k).stack[n].at = k.stack[n].at
      /\ Suspend(k).stack[Level(k)].at = "spin"
  BY <1>3, <1>4, <1>5, GotoEffect
<1> QED BY <1>2, <1>6 DEF Alike, Fields

\* kdb_prepareRegisters, for the frame of a handler on the stack.
LEMMA PrepareEffect ==
  ASSUME NEW k \in Machines, NEW context \in 1 .. Level(k), Level(k) <= MaxLevel
  PROVE  /\ Alike(Prepare(k, context), k, {"currentContext", "registers", "panicked"})
         /\ Prepare(k, context).currentContext = context
         /\ Prepare(k, context).registers = k.stack[context].frame
         /\ ~Prepare(k, context).panicked
<1>1. FrameAt(k, context) = k.stack[context].frame BY Zenon DEF FrameAt
<1>2. k.stack \in Seq(Activations) /\ context \in 1 .. Len(k.stack) BY DEF Machines, Level
<1>3. k.stack[context] \in Activations BY <1>2
<1>4. k.stack[context].frame \in Images BY <1>3 DEF Activations
<1>5. context \in 0 .. MaxLevel /\ context # 0 BY KdbAssumption DEF Level, Machines
<1> QED BY <1>1, <1>4, <1>5 DEF Prepare, Machines, Alike, Fields

\* kdb_restoreRegisters, when the context is that of a handler on the stack.
LEMMA RestoreEffect ==
  ASSUME NEW k \in Machines, k.currentContext \in 1 .. Level(k)
  PROVE  /\ Alike(Restore(k), k, {"stack"})
         /\ Level(Restore(k)) = Level(k)
         /\ \A n \in 1 .. Level(k) :
              /\ Restore(k).stack[n].kind = k.stack[n].kind
              /\ Restore(k).stack[n].at = k.stack[n].at
              /\ n # k.currentContext => Restore(k).stack[n].frame = k.stack[n].frame
         /\ Restore(k).stack[k.currentContext].frame = k.registers
<1> DEFINE c == k.currentContext
           written == [k.stack EXCEPT ![c] = [k.stack[c] EXCEPT !.frame = k.registers]]
<1>1. k.stack \in Seq(Activations) /\ k.registers \in Images BY DEF Machines
<1>2. c \in 1 .. Len(k.stack) BY DEF Level
<1>3. k.stack[c] \in Activations BY <1>1, <1>2
<1>4. [k.stack[c] EXCEPT !.frame = k.registers] \in Activations
  BY <1>1, <1>3 DEF Activations
<1>5. written \in Seq(Activations) BY <1>1, <1>2, <1>4
<1>6. Restore(k) = [k EXCEPT !.stack = written]
  BY DEF Restore, Machines, Level
<1> HIDE DEF written
<1>7. Alike(Restore(k), k, {"stack"}) /\ Restore(k).stack = written
  BY <1>5, <1>6, StackReplaced
<1> QED BY <1>1, <1>2, <1>3, <1>4, <1>7 DEF Activations, Level, written

\* kdb_resume, when the context is that of a handler on the stack.
LEMMA ResumeEffect ==
  ASSUME NEW k \in Machines, k.currentContext \in 1 .. Level(k), ~k.panicked
  PROVE  /\ Alike(Resume(k), k, {"stack", "suspended"})
         /\ Level(Resume(k)) = Level(k)
         /\ \A n \in 1 .. Level(k) :
              /\ Resume(k).stack[n].kind = k.stack[n].kind
              /\ Resume(k).stack[n].at = k.stack[n].at
              /\ n # k.currentContext => Resume(k).stack[n].frame = k.stack[n].frame
         /\ Resume(k).stack[k.currentContext].frame = k.registers
         /\ ~Resume(k).suspended
<1>1. Restore(k) \in Machines /\ ~Restore(k).panicked BY RestoreEffect DEF Alike, Fields
<1>2. Resume(k) = [Restore(k) EXCEPT !.suspended = FALSE] BY <1>1 DEF Resume
<1>3. Alike(Resume(k), Restore(k), {"suspended"}) /\ ~Resume(k).suspended
  BY <1>1, <1>2 DEF Alike, Fields, Machines
<1>4. Alike(Resume(k), k, {"stack", "suspended"}) BY <1>3, RestoreEffect DEF Alike, Fields
<1>5. Resume(k).stack = Restore(k).stack BY <1>3 DEF Alike, Fields
<1> QED BY <1>3, <1>4, <1>5, RestoreEffect DEF Level

\* A new handler goes on top of the stack, with interrupts disabled.
IsPushed(r, k, kind, label, frame) ==
  /\ Alike(r, k, {"stack", "interrupts"}) /\ ~r.interrupts
  /\ Level(r) = Level(k) + 1
  /\ \A n \in 1 .. Level(k) : r.stack[n] = k.stack[n]
  /\ r.stack[Level(k) + 1].kind = kind
  /\ r.stack[Level(k) + 1].at = label
  /\ r.stack[Level(k) + 1].frame = frame

LEMMA PushEffect ==
  ASSUME NEW k \in Machines, NEW kind \in {"uart", "soft", "hard"},
         NEW label \in Labels, NEW frame \in Images
  PROVE  IsPushed(Push(k, kind, label, frame), k, kind, label, frame)
<1> DEFINE handler == [kind |-> kind, at |-> label, frame |-> frame]
           pushed == Push(k, kind, label, frame)
<1>1. handler \in Activations BY DEF Activations, Labels
<1>2. k.stack \in Seq(Activations) BY DEF Machines
<1>3. handler.kind = kind /\ handler.at = label /\ handler.frame = frame OBVIOUS
<1>4. pushed = [k EXCEPT !.stack = Append(k.stack, handler), !.interrupts = FALSE]
  BY DEF Push
<1> HIDE DEF handler, pushed
<1>5. /\ Append(k.stack, handler) \in Seq(Activations)
      /\ Len(Append(k.stack, handler)) = Len(k.stack) + 1
      /\ \A n \in 1 .. Len(k.stack) : Append(k.stack, handler)[n] = k.stack[n]
      /\ Append(k.stack, handler)[Len(k.stack) + 1] = handler
  BY <1>1, <1>2
<1>6. pushed \in Machines BY <1>4, <1>5 DEF Machines
<1>7. Alike(pushed, k, {"stack", "interrupts"}) /\ ~pushed.interrupts
  BY <1>4, <1>6 DEF Alike, Fields, Machines
<1>8. pushed.stack = Append(k.stack, handler) BY <1>4 DEF Machines
<1>9. /\ Level(pushed) = Level(k) + 1
      /\ \A n \in 1 .. Level(k) : pushed.stack[n] = k.stack[n]
      /\ pushed.stack[Level(k) + 1] = handler
  BY <1>5, <1>8 DEF Level
<1> QED BY <1>3, <1>7, <1>9 DEF IsPushed, pushed

\* The return of the handler on top.
LEMMA PopEffect ==
  ASSUME NEW k \in Machines, Level(k) > 0
  PROVE  LET popped == [k EXCEPT !.stack = SubSeq(@, 1, Len(@) - 1), !.interrupts = TRUE]
         IN /\ Alike(popped, k, {"stack", "interrupts"}) /\ popped.interrupts
            /\ Level(popped) = Level(k) - 1
            /\ \A n \in 1 .. Level(k) - 1 : popped.stack[n] = k.stack[n]
            /\ Level(k) = 1 => popped.stack = <<>>
<1> DEFINE rest == SubSeq(k.stack, 1, Len(k.stack) - 1)
           popped == [k EXCEPT !.stack = rest, !.interrupts = TRUE]
<1>1. k.stack \in Seq(Activations) BY DEF Machines
<1>2. /\ rest \in Seq(Activations)
      /\ Len(rest) = Len(k.stack) - 1
      /\ \A n \in 1 .. Len(k.stack) - 1 : rest[n] = k.stack[n]
  BY <1>1, SubSeqProperties DEF Level
<1> HIDE DEF rest
<1>3. Level(k) = 1 => rest = <<>> BY <1>2 DEF Level
<1>4. popped \in Machines BY <1>2 DEF Machines
<1>5. popped.stack = rest BY DEF Machines
<1>6. Alike(popped, k, {"stack", "interrupts"}) /\ popped.interrupts
  BY <1>4 DEF Machines, Alike, Fields
<1>7. [k EXCEPT !.stack = SubSeq(@, 1, Len(@) - 1), !.interrupts = TRUE] = popped
  BY DEF rest
<1> HIDE DEF popped
<1>8. /\ Level(popped) = Level(k) - 1
      /\ \A n \in 1 .. Level(k) - 1 : popped.stack[n] = k.stack[n]
      /\ Level(k) = 1 => popped.stack = <<>>
  BY <1>2, <1>3, <1>5 DEF Level
<1> QED BY <1>6, <1>7, <1>8

-----------------------------------------------------------------------------
(***************************************************************************)
(* Whatever a function of the debugger does, it goes on with the same      *)
(* handlers, and looks for a character where it did unless it has taken    *)
(* all that were there.                                                    *)
(***************************************************************************)
KeepsWatch(r, k) ==
  /\ r \in Machines /\ Level(r) = Level(k) /\ r.irr = k.irr
  /\ \A n \in 1 .. Level(k) : n < Level(k) => r.stack[n].at = k.stack[n].at
  /\ \/ r.rx = <<>>
     \/ r.rx = k.rx /\ r.stack[Level(k)].at = k.stack[Level(k)].at

LEMMA WatchIsKept ==
  ASSUME NEW k, NEW q, NEW r, KeepsWatch(q, k), KeepsWatch(r, q)
  PROVE  KeepsWatch(r, k)
BY DEF KeepsWatch

\* Changes of other fields keep it.
LEMMA SameStackKeepsWatch ==
  ASSUME NEW k, NEW r \in Machines, r.stack = k.stack, r.irr = k.irr, r.rx = k.rx
  PROVE  KeepsWatch(r, k)
BY DEF KeepsWatch, Level

LEMMA SuspendKeepsWatch ==
  ASSUME NEW k \in Machines, Level(k) > 0
  PROVE  KeepsWatch(Suspend(k), k)
<1>1. CASE k.suspended BY <1>1 DEF Suspend, KeepsWatch
<1>2. CASE ~k.suspended BY <1>2, SuspendEffect DEF KeepsWatch, Alike, Fields
<1> QED BY <1>1, <1>2

LEMMA ReplyKeepsWatch ==
  ASSUME NEW k \in Machines, NEW packet \in {"+", "T", "S", "OK"}
  PROVE  KeepsWatch(Reply(k, packet), k)
BY ReplyEffect DEF Alike, Fields, KeepsWatch, Level

LEMMA ServiceKeepsWatch ==
  ASSUME NEW k \in Machines, Level(k) > 0
  PROVE  KeepsWatch(Service(k), k)
<1>1. CASE k.attached
  <2>1. Reply(k, "T") \in Machines /\ Level(Reply(k, "T")) > 0
    BY ReplyEffect DEF Alike, Fields, Level
  <2>2. KeepsWatch(Suspend(Reply(k, "T")), k)
    BY <2>1, ReplyKeepsWatch, SuspendKeepsWatch, WatchIsKept
  <2> QED BY <1>1, <2>2 DEF Service, SendTrapStatus
<1>2. CASE ~k.attached BY <1>2, SuspendKeepsWatch DEF Service
<1> QED BY <1>1, <1>2

LEMMA PrepareKeepsWatch ==
  ASSUME NEW k \in Machines, NEW context \in 0 .. MaxLevel
  PROVE  KeepsWatch(Prepare(k, context), k)
<1>1. FrameAt(k, context) \in Images
  <2>1. Garbage \in Images BY KdbAssumption DEF Garbage, Image, Images
  <2>2. ASSUME context \in 1 .. Level(k) PROVE k.stack[context].frame \in Images
    <3>1. k.stack \in Seq(Activations) /\ context \in 1 .. Len(k.stack)
      BY <2>2 DEF Machines, Level
    <3>2. k.stack[context] \in Activations BY <3>1
    <3> QED BY <3>2 DEF Activations
  <2> QED BY <2>1, <2>2 DEF FrameAt
<1>2. /\ Prepare(k, context) \in Machines
      /\ Prepare(k, context).stack = k.stack
      /\ Prepare(k, context).irr = k.irr
      /\ Prepare(k, context).rx = k.rx
  BY <1>1 DEF Prepare, Machines
<1> QED BY <1>2, SameStackKeepsWatch

LEMMA RestoreKeepsWatch ==
  ASSUME NEW k \in Machines
  PROVE  KeepsWatch(Restore(k), k)
<1>1. CASE k.currentContext = 0
  <2>1. Restore(k) = [k EXCEPT !.panicked = TRUE] BY <1>1 DEF Restore
  <2> QED BY <2>1, SameStackKeepsWatch DEF Machines
<1>2. CASE k.currentContext > Level(k) /\ k.currentContext # 0
  <2>1. Restore(k) = k BY <1>2 DEF Restore
  <2> QED BY <2>1, SameStackKeepsWatch
<1>3. CASE k.currentContext \in 1 .. Level(k)
  <2>1. Level(k) \in 1 .. Level(k) BY <1>3 DEF Level, Machines
  <2> QED BY <1>3, <2>1, RestoreEffect DEF KeepsWatch, Alike, Fields
<1> QED BY <1>1, <1>2, <1>3, KdbAssumption DEF Machines, Level

LEMMA ResumeKeepsWatch ==
  ASSUME NEW k \in Machines
  PROVE  KeepsWatch(Resume(k), k)
<1>1. Restore(k) \in Machines BY RestoreKeepsWatch DEF KeepsWatch
<1>2. \A r \in Machines : KeepsWatch([r EXCEPT !.suspended = FALSE], r)
  <2> TAKE r \in Machines
  <2> DEFINE e == [r EXCEPT !.suspended = FALSE]
  <2>1. e \in Machines /\ e.stack = r.stack /\ e.irr = r.irr /\ e.rx = r.rx BY DEF Machines
  <2> HIDE DEF e
  <2>2. KeepsWatch(e, r) BY <2>1, SameStackKeepsWatch
  <2> QED BY <2>2 DEF e
<1>3. KeepsWatch([Restore(k) EXCEPT !.suspended = FALSE], k)
  BY <1>1, <1>2, RestoreKeepsWatch, WatchIsKept
<1> QED BY <1>3, RestoreKeepsWatch DEF Resume

LEMMA CallbackKeepsWatch ==
  ASSUME NEW k \in Machines, NEW command
  PROVE  KeepsWatch(Callback(k, command), k)
<1>1. KeepsWatch(Reply(k, "S"), k) /\ KeepsWatch(Resume(k), k)
  BY ReplyKeepsWatch, ResumeKeepsWatch
<1>2. KeepsWatch(Resume(EnableStep(k)), k)
  <2>1. EnableStep(k) \in Machines BY StepEffect DEF Alike
  <2> DEFINE e == EnableStep(k)
  <2>2. e.stack = k.stack /\ e.irr = k.irr /\ e.rx = k.rx BY StepEffect DEF Alike, Fields
  <2>3. e \in Machines BY <2>1
  <2> HIDE DEF e
  <2>4. KeepsWatch(e, k) BY <2>2, <2>3, SameStackKeepsWatch
  <2>5. KeepsWatch(EnableStep(k), k) BY <2>4 DEF e
  <2> QED BY <2>1, <2>5, ResumeKeepsWatch, WatchIsKept
<1>3. KeepsWatch(Resume(Reply([k EXCEPT !.attached = FALSE], "OK")), k)
  <2> DEFINE d == [k EXCEPT !.attached = FALSE]
  <2>1. d \in Machines /\ d.stack = k.stack /\ d.irr = k.irr /\ d.rx = k.rx
    BY DEF Machines
  <2> HIDE DEF d
  <2>2. KeepsWatch(d, k) BY <2>1, SameStackKeepsWatch
  <2>3. KeepsWatch(Reply(d, "OK"), d) /\ Reply(d, "OK") \in Machines
    BY <2>1, ReplyKeepsWatch, ReplyEffect DEF Alike
  <2>4. KeepsWatch(Resume(Reply(d, "OK")), Reply(d, "OK")) BY <2>3, ResumeKeepsWatch
  <2>5. KeepsWatch(Resume(Reply(d, "OK")), k) BY <2>2, <2>3, <2>4, WatchIsKept
  <2> QED BY <2>5 DEF d
<1>4. ASSUME NEW byte \in {"int3", "code"}
      PROVE  KeepsWatch(Reply(WriteByte(k, byte), "OK"), k)
  <2>1. KeepsWatch(WriteByte(k, byte), k) BY WriteEffect DEF Alike, Fields, KeepsWatch, Level
  <2>2. WriteByte(k, byte) \in Machines BY WriteEffect DEF Alike
  <2> QED BY <2>1, <2>2, ReplyKeepsWatch, WatchIsKept
<1>5. KeepsWatch(WriteMemory(k, IF command = "insert" THEN "int3" ELSE "code"), k)
  BY <1>4 DEF WriteMemory
<1> QED BY <1>1, <1>2, <1>3, <1>5 DEF Callback

LEMMA ExecuteKeepsWatch ==
  ASSUME NEW k \in Machines, NEW command, Level(k) > 0
  PROVE  KeepsWatch(Execute(k, command), k)
<1> DEFINE done == Callback(Reply(k, "+"), command)
           attaching == [done EXCEPT !.attached = TRUE]
<1>1. Reply(k, "+") \in Machines /\ KeepsWatch(Reply(k, "+"), k)
  BY ReplyEffect, ReplyKeepsWatch DEF Alike
<1>2. KeepsWatch(done, k) BY <1>1, CallbackKeepsWatch, WatchIsKept
<1>3. done \in Machines BY <1>2 DEF KeepsWatch
<1> HIDE DEF done
<1>4. attaching \in Machines /\ KeepsWatch(attaching, done)
  <2>1. attaching \in Machines /\ attaching.stack = done.stack
        /\ attaching.irr = done.irr /\ attaching.rx = done.rx
    BY <1>3 DEF Machines
  <2> HIDE DEF attaching
  <2> QED BY <1>3, <2>1, SameStackKeepsWatch
<1> HIDE DEF attaching
<1> DEFINE prepared == Prepare(attaching, attaching.savedContext)
<1>5. KeepsWatch(prepared, attaching)
  <2>1. attaching.savedContext \in 0 .. MaxLevel BY <1>4 DEF Machines
  <2> QED BY <1>4, <2>1, PrepareKeepsWatch
<1>6. prepared \in Machines /\ Level(prepared) > 0
  BY <1>2, <1>4, <1>5 DEF KeepsWatch
<1> HIDE DEF prepared
<1>7. KeepsWatch(Suspend(prepared), prepared) BY <1>6, SuspendKeepsWatch
<1>8. KeepsWatch(attaching, k) /\ KeepsWatch(Suspend(prepared), k)
  BY <1>2, <1>4, <1>5, <1>7, WatchIsKept
<1> QED BY <1>2, <1>8 DEF Execute, done, attaching, prepared

LEMMA ControlCKeepsWatch ==
  ASSUME NEW k \in Machines, Level(k) > 0
  PROVE  KeepsWatch(ControlC(k), k)
<1> DEFINE prepared == Prepare(k, k.savedContext)
<1>1. k.savedContext \in 0 .. MaxLevel BY DEF Machines
<1>2. KeepsWatch(prepared, k) BY <1>1, PrepareKeepsWatch
<1>3. prepared \in Machines /\ Level(prepared) > 0 BY <1>2 DEF KeepsWatch
<1> HIDE DEF prepared
<1>4. KeepsWatch(Service(prepared), k) BY <1>2, <1>3, ServiceKeepsWatch, WatchIsKept
<1> QED BY <1>4 DEF ControlC, prepared

\* The handler of an exception comes on top; it waits, or another one does.
LEMMA EnterIsrKeepsWatch ==
  ASSUME NEW k \in Machines, NEW kind \in {"soft", "hard"}, NEW frame \in Images,
         Level(k) < MaxLevel
  PROVE  /\ EnterIsr(k, kind, frame) \in Machines
         /\ Level(EnterIsr(k, kind, frame)) = Level(k) + 1
         /\ EnterIsr(k, kind, frame).irr = k.irr
         /\ EnterIsr(k, kind, frame).rx \in {<<>>, k.rx}
         /\ \A n \in 1 .. Level(k) : EnterIsr(k, kind, frame).stack[n].at = k.stack[n].at
<1> DEFINE pushed == Push(k, kind, "check", frame)
           prepared == Prepare(pushed, Level(pushed))
           pc == IF kind = "soft" /\ frame.eip = "after" THEN "at" ELSE frame.eip
           stepped == [prepared EXCEPT !.registers.eip = pc]
<1>1. /\ pushed \in Machines /\ Level(pushed) = Level(k) + 1
      /\ pushed.irr = k.irr /\ pushed.rx = k.rx
      /\ \A n \in 1 .. Level(k) : pushed.stack[n] = k.stack[n]
  <2>1. "check" \in Labels /\ kind \in {"uart", "soft", "hard"} BY DEF Labels
  <2>2. IsPushed(pushed, k, kind, "check", frame) BY <2>1, PushEffect
  <2> QED BY <2>2 DEF IsPushed, Alike, Fields
<1>2. Level(k) \in Nat BY DEF Level, Machines
<1>3. Level(pushed) \in 0 .. MaxLevel BY <1>1, <1>2, KdbAssumption
<1> HIDE DEF pushed
<1>4. KeepsWatch(prepared, pushed) BY <1>1, <1>3, PrepareKeepsWatch
<1>5. prepared \in Machines BY <1>4 DEF KeepsWatch
<1> HIDE DEF prepared
<1>6. pc \in {"run", "at", "after"} BY DEF Images
<1> HIDE DEF pc
<1>7. /\ stepped \in Machines /\ stepped.stack = prepared.stack
      /\ stepped.irr = prepared.irr /\ stepped.rx = prepared.rx
  BY <1>5, <1>6 DEF Machines, Images
<1> HIDE DEF stepped
<1>8. KeepsWatch(stepped, pushed) BY <1>4, <1>5, <1>7, SameStackKeepsWatch, WatchIsKept
<1>9. DisableStep(stepped) \in Machines /\ KeepsWatch(DisableStep(stepped), pushed)
  <2>1. Alike(DisableStep(stepped), stepped, {"registers"}) BY <1>7, StepEffect
  <2>2. KeepsWatch(DisableStep(stepped), stepped)
    BY <2>1 DEF Alike, Fields, KeepsWatch, Level
  <2> QED BY <1>8, <2>1, <2>2, WatchIsKept DEF Alike
<1>10. Level(DisableStep(stepped)) > 0 BY <1>1, <1>2, <1>9 DEF KeepsWatch
<1>11. KeepsWatch(Service(DisableStep(stepped)), pushed)
  BY <1>9, <1>10, ServiceKeepsWatch, WatchIsKept
<1>12. EnterIsr(k, kind, frame) = Service(DisableStep(stepped))
  BY DEF EnterIsr, pushed, prepared, pc, stepped
<1> QED BY <1>1, <1>2, <1>11, <1>12 DEF KeepsWatch

-----------------------------------------------------------------------------
(***************************************************************************)
(* The types, and the characters in the 16550A, whatever the session.      *)
(***************************************************************************)

Fetched(k) ==
  (k.rx # <<>> /\ ~k.irr) =>
     \E n \in 1 .. Level(k) : k.stack[n].at \in {"get", "poll"}

LEMMA FetchedWhileWatched ==
  ASSUME NEW k \in Machines, NEW r, KeepsWatch(r, k), Fetched(k)
  PROVE  Fetched(r)
<1>1. SUFFICES ASSUME r.rx # <<>>, ~r.irr
               PROVE  \E n \in 1 .. Level(r) : r.stack[n].at \in {"get", "poll"}
  BY DEF Fetched
<1>2. k.rx # <<>> /\ ~k.irr BY <1>1 DEF KeepsWatch
<1>3. PICK n \in 1 .. Level(k) : k.stack[n].at \in {"get", "poll"} BY <1>2 DEF Fetched
<1>4. Level(k) \in Nat BY DEF Level, Machines
<1>5. r.stack[n].at = k.stack[n].at BY <1>1, <1>4 DEF KeepsWatch
<1> QED BY <1>3, <1>5 DEF KeepsWatch

\* A received character is taken out of the 16550A.
LEMMA ReceivedEffect ==
  ASSUME NEW k \in Machines
  PROVE  /\ Alike(Received(k), k, {"rx"})
         /\ k.rx = <<>> => Received(k).rx = <<>>
         /\ k.rx # <<>> => Received(k).rx = Tail(k.rx)
<1>1. k.rx \in Seq(Items) BY DEF Machines
<1>2. k.rx # <<>> => Tail(k.rx) \in Seq(Items) BY <1>1
<1> QED BY <1>1, <1>2 DEF Received, Machines, Alike, Fields

\* An emptied 16550A may take its request back.
LEMMA DropEffect ==
  ASSUME NEW k \in Machines, NEW r \in MayDropRequest(k)
  PROVE  Alike(r, k, {"irr"}) /\ (r.irr = k.irr \/ r.rx = <<>>)
<1>1. \A irr \in BOOLEAN : Alike([k EXCEPT !.irr = irr], k, {"irr"})
  BY DEF Machines, Alike, Fields
<1>2. r = k \/ (r = [k EXCEPT !.irr = FALSE] /\ k.rx = <<>>) BY DEF MayDropRequest
<1>3. CASE r = k BY <1>3 DEF Alike, Fields
<1>4. CASE r = [k EXCEPT !.irr = FALSE] /\ k.rx = <<>> BY <1>1, <1>4 DEF Alike, Fields
<1> QED BY <1>2, <1>3, <1>4

\* The serial handler on top of what it interrupted.
IsInterrupted(r, k, frame) ==
  /\ Alike(r, k, {"stack", "interrupts", "irr", "inService", "savedContext"})
  /\ ~r.interrupts /\ ~r.irr /\ r.inService /\ r.savedContext = Level(r)
  /\ Level(r) = Level(k) + 1
  /\ \A n \in 1 .. Level(k) : r.stack[n] = k.stack[n]
  /\ r.stack[Level(r)].kind = "uart"
  /\ r.stack[Level(r)].at = IF k.rx = <<>> THEN "ack" ELSE "get"
  /\ r.stack[Level(r)].frame = frame

LEMMA UartEffect ==
  ASSUME TypeOK, UartInterrupt
  PROVE  LET pc == IF kdb.stack = <<>> THEN eip ELSE "run"
         IN Interrupted(pc, FALSE) \in Images /\ IsInterrupted(kdb', kdb, Interrupted(pc, FALSE))
<1> DEFINE label == IF kdb.rx = <<>> THEN "ack" ELSE "get"
           pc == IF kdb.stack = <<>> THEN eip ELSE "run"
           frame == Interrupted(pc, FALSE)
           pushed == Push(kdb, "uart", label, frame)
<1>1. kdb \in Machines BY DEF TypeOK
<1>2. Level(kdb) \in Nat /\ Level(kdb) < MaxLevel /\ MaxLevel \in Nat
  BY <1>1, KdbAssumption DEF Machines, Level, UartInterrupt, Interruptible
<1>3. frame \in Images BY <1>2 DEF TypeOK, Interrupted, Image, Images
<1>4. "uart" \in {"uart", "soft", "hard"} /\ label \in Labels BY DEF Labels
<1>5. kdb' = [pushed EXCEPT !.irr = FALSE, !.inService = TRUE, !.savedContext = Level(pushed)]
  BY DEF UartInterrupt, Step
<1>6. label = IF kdb.rx = <<>> THEN "ack" ELSE "get" OBVIOUS
<1> HIDE DEF label, frame
<1>7. IsPushed(pushed, kdb, "uart", label, frame) BY <1>1, <1>3, <1>4, PushEffect
<1> HIDE DEF pushed
<1>8. pushed \in Machines /\ Level(pushed) = Level(kdb) + 1 BY <1>7 DEF IsPushed, Alike
<1>9. Level(pushed) \in 0 .. MaxLevel BY <1>2, <1>8
<1>10. /\ Alike(kdb', pushed, {"irr", "inService", "savedContext"})
       /\ ~kdb'.irr /\ kdb'.inService /\ kdb'.savedContext = Level(pushed)
  BY <1>5, <1>8, <1>9 DEF Alike, Fields, Machines
<1>11. kdb'.stack = pushed.stack BY <1>10 DEF Alike, Fields
<1>12. Alike(kdb', kdb, {"stack", "interrupts", "irr", "inService", "savedContext"})
       /\ ~kdb'.interrupts
  BY <1>7, <1>10 DEF IsPushed, Alike, Fields
<1>13. Level(kdb') = Level(kdb) + 1 BY <1>8, <1>11 DEF Level
<1>14. IsInterrupted(kdb', kdb, frame)
  BY <1>6, <1>7, <1>8, <1>10, <1>11, <1>12, <1>13 DEF IsInterrupted, IsPushed
<1> QED BY <1>3, <1>14 DEF frame

\* A handler that returns.
IsReturned(r, k, changed) ==
  /\ Alike(r, k, {"stack", "interrupts"} \cup changed) /\ r.interrupts
  /\ Level(r) = Level(k) - 1
  /\ \A n \in 1 .. Level(k) - 1 : r.stack[n] = k.stack[n]
  /\ Level(k) = 1 => r.stack = <<>>

LEMMA LeaveUartEffect ==
  ASSUME TypeOK, LeaveUart
  PROVE  IsReturned(kdb', kdb, {"inService"}) /\ ~kdb'.inService /\ Level(kdb) > 0
<1> DEFINE acked == [kdb EXCEPT !.inService = FALSE]
<1>1. kdb \in Machines /\ Level(kdb) > 0
  BY DEF TypeOK, LeaveUart, OnTop, Machines, Level
<1>2. Alike(acked, kdb, {"inService"}) /\ ~acked.inService
  BY <1>1 DEF Machines, Alike, Fields
<1>3. kdb' = [acked EXCEPT !.stack = SubSeq(@, 1, Len(@) - 1), !.interrupts = TRUE]
  BY DEF LeaveUart, Iret
<1> HIDE DEF acked
<1>4. acked \in Machines /\ acked.stack = kdb.stack /\ Level(acked) = Level(kdb)
  BY <1>2 DEF Alike, Fields, Level
<1>5. /\ Alike(kdb', acked, {"stack", "interrupts"}) /\ kdb'.interrupts
      /\ Level(kdb') = Level(kdb) - 1
      /\ \A n \in 1 .. Level(kdb) - 1 : kdb'.stack[n] = kdb.stack[n]
      /\ Level(kdb) = 1 => kdb'.stack = <<>>
  BY <1>1, <1>3, <1>4, PopEffect
<1> QED BY <1>1, <1>2, <1>5 DEF IsReturned, Alike, Fields

LEMMA LeaveIsrEffect ==
  ASSUME TypeOK, LeaveIsr
  PROVE  IsReturned(kdb', kdb, {"currentContext"}) /\ kdb'.currentContext = 0 /\ Level(kdb) > 0
<1> DEFINE forgotten == [kdb EXCEPT !.currentContext = 0]
<1>1. kdb \in Machines /\ Level(kdb) > 0 /\ 0 \in 0 .. MaxLevel
  BY KdbAssumption DEF TypeOK, LeaveIsr, OnTop, Machines, Level
<1>2. Alike(forgotten, kdb, {"currentContext"}) /\ forgotten.currentContext = 0
  BY <1>1 DEF Machines, Alike, Fields
<1>3. kdb' = [forgotten EXCEPT !.stack = SubSeq(@, 1, Len(@) - 1), !.interrupts = TRUE]
  BY DEF LeaveIsr, Iret
<1> HIDE DEF forgotten
<1>4. forgotten \in Machines /\ forgotten.stack = kdb.stack /\ Level(forgotten) = Level(kdb)
  BY <1>2 DEF Alike, Fields, Level
<1>5. /\ Alike(kdb', forgotten, {"stack", "interrupts"}) /\ kdb'.interrupts
      /\ Level(kdb') = Level(kdb) - 1
      /\ \A n \in 1 .. Level(kdb) - 1 : kdb'.stack[n] = kdb.stack[n]
      /\ Level(kdb) = 1 => kdb'.stack = <<>>
  BY <1>1, <1>3, <1>4, PopEffect
<1> QED BY <1>1, <1>2, <1>5 DEF IsReturned, Alike, Fields

\* gdb sends, and receives.
LEMMA SendEffect ==
  ASSUME TypeOK, NEW item \in Items, Send(item)
  PROVE  /\ Alike(kdb', kdb, {"rx", "irr"})
         /\ kdb'.rx = Append(kdb.rx, item)
         /\ kdb'.irr <=> (kdb.irr \/ kdb.rx = <<>>)
<1>1. kdb \in Machines /\ kdb.rx \in Seq(Items) BY DEF TypeOK, Machines
<1>2. Append(kdb.rx, item) \in Seq(Items) BY <1>1
<1>3. (kdb.irr \/ kdb.rx = <<>>) \in BOOLEAN OBVIOUS
<1> QED BY <1>1, <1>2, <1>3 DEF Send, Machines, Alike, Fields

LEMMA ReadEffect ==
  ASSUME TypeOK, kdb.sentToHost # <<>>, kdb' = [kdb EXCEPT !.sentToHost = Tail(@)]
  PROVE  Alike(kdb', kdb, {"sentToHost"}) /\ kdb'.sentToHost = Tail(kdb.sentToHost)
<1>1. kdb \in Machines /\ kdb.sentToHost \in Seq({"+", "T", "S", "OK"}) BY DEF TypeOK, Machines
<1>2. Tail(kdb.sentToHost) \in Seq({"+", "T", "S", "OK"}) BY <1>1
<1> QED BY <1>1, <1>2 DEF Machines, Alike, Fields

-----------------------------------------------------------------------------
(***************************************************************************)
(* Every step keeps the types and leaves no character behind.              *)
(***************************************************************************)
Sound == TypeOK /\ CharactersAreFetched

\* The other variables.
OthersTyped ==
  /\ eip \in {"run", "at", "after"} /\ stint \in Nat /\ trace \in BOOLEAN
  /\ original \in {"int3", "code"} /\ session \in Sessions
  /\ host \in {"detached", "stopped", "running", "interrupting"}
  /\ outstanding \in Items \cup {"none"}
  /\ traps \in Nat /\ sent \in Nat /\ losses \in Nat

LEMMA SoundNow ==
  Sound <=> kdb \in Machines /\ Level(kdb) <= MaxLevel /\ Fetched(kdb) /\ OthersTyped
BY DEF Sound, TypeOK, OthersTyped, CharactersAreFetched, Fetched

LEMMA SoundAfter ==
  Sound' <=> kdb' \in Machines /\ Level(kdb') <= MaxLevel /\ Fetched(kdb') /\ OthersTyped'
BY DEF Sound, TypeOK, OthersTyped, CharactersAreFetched, Fetched

LEMMA LevelIsNatural ==
  ASSUME NEW k \in Machines
  PROVE  Level(k) \in Nat
BY DEF Machines, Level

LEMMA EmptyStack ==
  ASSUME NEW k \in Machines
  PROVE  k.stack = <<>> <=> Level(k) = 0
<1>1. k.stack \in Seq(Activations) BY DEF Machines
<1> QED BY <1>1 DEF Level

LEMMA SoundInit == Init => Sound
<1> SUFFICES ASSUME Init PROVE Sound OBVIOUS
<1>1. Garbage \in Images BY KdbAssumption DEF Garbage, Image, Images
<1>2. kdb \in Machines
  <2>1. <<>> \in Seq(Activations) /\ <<>> \in Seq(Items) /\ <<>> \in Seq({"+", "T", "S", "OK"})
    OBVIOUS
  <2>2. 0 \in 0 .. MaxLevel BY KdbAssumption
  <2> QED BY <1>1, <2>1, <2>2 DEF Init, Machines
<1>3. kdb.stack = <<>> /\ kdb.rx = <<>> BY DEF Init
<1>4. Level(kdb) = 0 BY <1>3 DEF Level
<1>5. Level(kdb) <= MaxLevel BY <1>4, KdbAssumption
<1>6. Fetched(kdb) BY <1>3 DEF Fetched
<1>7. OthersTyped BY DEF Init, OthersTyped
<1> QED BY <1>2, <1>5, <1>6, <1>7, SoundNow

\* Where a handler comes on top, those below go on looking.
LEMMA FetchedBelow ==
  ASSUME NEW k \in Machines, NEW r \in Machines, Fetched(k),
         Level(r) = Level(k) + 1, r.irr = k.irr, r.rx \in {<<>>, k.rx},
         \A n \in 1 .. Level(k) : r.stack[n].at = k.stack[n].at
  PROVE  Fetched(r)
<1>1. Level(k) \in Nat BY LevelIsNatural
<1> QED BY <1>1 DEF Fetched

LEMMA SoundTrap ==
  ASSUME Sound, NEW kind \in {"soft", "hard"}, NEW frame \in Images,
         Level(kdb) < MaxLevel, kdb' = EnterIsr(kdb, kind, frame), OthersTyped'
  PROVE  Sound'
<1>1. kdb \in Machines /\ Fetched(kdb) BY SoundNow
<1>2. Level(kdb) \in Nat /\ MaxLevel \in Nat BY <1>1, LevelIsNatural, KdbAssumption
<1>3. /\ kdb' \in Machines /\ Level(kdb') = Level(kdb) + 1
      /\ kdb'.irr = kdb.irr /\ kdb'.rx \in {<<>>, kdb.rx}
      /\ \A n \in 1 .. Level(kdb) : kdb'.stack[n].at = kdb.stack[n].at
  BY <1>1, EnterIsrKeepsWatch
<1>4. Fetched(kdb') BY <1>1, <1>3, FetchedBelow
<1>5. Level(kdb') <= MaxLevel BY <1>2, <1>3
<1> QED BY <1>3, <1>4, <1>5, SoundAfter

LEMMA SoundProgram ==
  ASSUME Sound, Program
  PROVE  Sound'
<1>1. kdb \in Machines /\ Level(kdb) <= MaxLevel /\ OthersTyped BY SoundNow
<1>2. Level(kdb) \in Nat /\ MaxLevel \in Nat \ {0} BY <1>1, LevelIsNatural, KdbAssumption
<1>3. CASE SoftTrap
  <2>1. Level(kdb) = 0 BY <1>3 DEF SoftTrap, Level
  <2>2. Image(0, stint, "after", trace) \in Images
    BY <1>1, <1>2 DEF OthersTyped, Image, Images
  <2>3. OthersTyped'
    <3>1. traps' \in Nat BY <1>1, <1>3 DEF SoftTrap, OthersTyped
    <3>2. eip' = "after" /\ trace' = FALSE
          /\ UNCHANGED <<stint, original, session, host, outstanding, sent, losses>>
      BY <1>3 DEF SoftTrap
    <3> QED BY <1>1, <3>1, <3>2 DEF OthersTyped
  <2>4. kdb' = EnterIsr(kdb, "soft", Image(0, stint, "after", trace)) BY <1>3 DEF SoftTrap
  <2> QED BY <1>2, <2>1, <2>2, <2>3, <2>4, SoundTrap
<1>4. CASE ProgramStep
  <2>1. OthersTyped' BY <1>1, <1>4 DEF ProgramStep, OthersTyped
  <2>2. kdb' = kdb BY <1>4 DEF ProgramStep
  <2> QED BY <2>1, <2>2, SoundNow, SoundAfter DEF Level, Fetched
<1>5. CASE DebugTrap
  <2>1. Interrupted("run", TRUE) \in Images
    BY <1>1, <1>2 DEF OthersTyped, Interrupted, Image, Images
  <2>2. OthersTyped' BY <1>1, <1>5 DEF DebugTrap, OthersTyped
  <2>3. kdb' = EnterIsr(kdb, "hard", Interrupted("run", TRUE)) /\ Level(kdb) < MaxLevel
    BY <1>5 DEF DebugTrap
  <2> QED BY <2>1, <2>2, <2>3, SoundTrap
<1> QED BY <1>3, <1>4, <1>5 DEF Program

LEMMA SoundInterrupt ==
  ASSUME Sound, UartInterrupt
  PROVE  Sound'
<1> DEFINE pc == IF kdb.stack = <<>> THEN eip ELSE "run"
<1>1. kdb \in Machines /\ Level(kdb) <= MaxLevel /\ OthersTyped /\ TypeOK
  BY SoundNow DEF Sound
<1>2. Level(kdb) \in Nat /\ MaxLevel \in Nat BY <1>1, LevelIsNatural, KdbAssumption
<1>3. IsInterrupted(kdb', kdb, Interrupted(pc, FALSE)) BY <1>1, UartEffect
<1>4. kdb' \in Machines /\ kdb'.rx = kdb.rx /\ Level(kdb') = Level(kdb) + 1
  BY <1>3 DEF IsInterrupted, Alike, Fields
<1>5. Level(kdb') <= MaxLevel BY <1>2, <1>4 DEF UartInterrupt, Interruptible
<1>6. Fetched(kdb')
  <2>1. Level(kdb') \in 1 .. Level(kdb') BY <1>2, <1>4
  <2>2. kdb.rx # <<>> => kdb'.stack[Level(kdb')].at = "get" BY <1>3 DEF IsInterrupted
  <2> QED BY <1>4, <2>1, <2>2 DEF Fetched
<1>7. OthersTyped' BY <1>1 DEF UartInterrupt, Step, OthersTyped
<1> QED BY <1>4, <1>5, <1>6, <1>7, SoundAfter

\* A handler that is on top moves on.
LEMMA FetchedGoto ==
  ASSUME NEW k \in Machines, NEW r, NEW label \in Labels, Level(k) > 0, Fetched(k),
         KeepsWatch(r, k),
         r.rx = <<>> \/ r.stack[Level(k)].at \notin {"get", "poll"} \/ label \in {"get", "poll"}
  PROVE  Goto(r, label) \in Machines /\ Level(Goto(r, label)) = Level(k) /\ Fetched(Goto(r, label))
<1>1. r \in Machines /\ Level(r) = Level(k) BY DEF KeepsWatch
<1>2. Fetched(r) BY FetchedWhileWatched
<1>3. /\ Alike(Goto(r, label), r, {"stack"})
      /\ Level(Goto(r, label)) = Level(r)
      /\ \A n \in 1 .. Level(r) : n < Level(r) => Goto(r, label).stack[n].at = r.stack[n].at
      /\ Goto(r, label).stack[Level(r)].at = label
  BY <1>1, GotoEffect
<1>4. Goto(r, label) \in Machines /\ Goto(r, label).rx = r.rx /\ Goto(r, label).irr = r.irr
  BY <1>3 DEF Alike, Fields
<1>5. Level(r) \in Nat BY <1>1, LevelIsNatural
<1>6. Fetched(Goto(r, label))
  <2>1. SUFFICES ASSUME r.rx # <<>>, ~r.irr
                 PROVE  \E n \in 1 .. Level(r) : Goto(r, label).stack[n].at \in {"get", "poll"}
    BY <1>3, <1>4 DEF Fetched
  <2>2. PICK n \in 1 .. Level(r) : r.stack[n].at \in {"get", "poll"} BY <1>2, <2>1 DEF Fetched
  <2>3. CASE n = Level(r)
    <3>1. label \in {"get", "poll"} BY <1>1, <2>1, <2>2, <2>3
    <3> QED BY <1>1, <1>3, <1>5, <3>1
  <2>4. CASE n < Level(r) BY <1>3, <2>2, <2>4
  <2> QED BY <1>5, <2>3, <2>4
<1> QED BY <1>1, <1>3, <1>4, <1>6

LEMMA SelfKeepsWatch ==
  ASSUME NEW k \in Machines PROVE KeepsWatch(k, k)
BY DEF KeepsWatch

\* The frame on top holds registers.
LEMMA FrameIsTyped ==
  ASSUME kdb \in Machines, Level(kdb) > 0
  PROVE  Top(kdb).frame.eip \in {"run", "at", "after"} /\ Top(kdb).frame.tf \in BOOLEAN
<1>1. kdb.stack \in Seq(Activations) /\ Level(kdb) \in 1 .. Len(kdb.stack)
  BY DEF Machines, Level
<1>2. kdb.stack[Level(kdb)] \in Activations BY <1>1
<1>3. Top(kdb).frame \in Images BY <1>2 DEF Top, Activations
<1> QED BY <1>3 DEF Images

LEMMA SoundLeave ==
  ASSUME Sound, NEW changed \in SUBSET {"inService", "currentContext"},
         IsReturned(kdb', kdb, changed), Level(kdb) > 0,
         Top(kdb).at \notin {"get", "poll"}, OthersTyped'
  PROVE  Sound'
<1>1. kdb \in Machines /\ Level(kdb) <= MaxLevel /\ Fetched(kdb) BY SoundNow
<1>2. Level(kdb) \in Nat /\ MaxLevel \in Nat BY <1>1, LevelIsNatural, KdbAssumption
<1>3. kdb' \in Machines /\ kdb'.rx = kdb.rx /\ kdb'.irr = kdb.irr
  BY DEF IsReturned, Alike, Fields
<1>4. Level(kdb') = Level(kdb) - 1 /\ \A n \in 1 .. Level(kdb) - 1 : kdb'.stack[n] = kdb.stack[n]
  BY DEF IsReturned
<1>5. Fetched(kdb')
  <2>1. SUFFICES ASSUME kdb.rx # <<>>, ~kdb.irr
                 PROVE  \E n \in 1 .. Level(kdb') : kdb'.stack[n].at \in {"get", "poll"}
    BY <1>3 DEF Fetched
  <2>2. PICK n \in 1 .. Level(kdb) : kdb.stack[n].at \in {"get", "poll"}
    BY <1>1, <2>1 DEF Fetched
  <2>3. n # Level(kdb) BY <2>2 DEF Top
  <2> QED BY <1>2, <1>4, <2>2, <2>3
<1>6. Level(kdb') <= MaxLevel BY <1>1, <1>2, <1>4
<1> QED BY <1>3, <1>5, <1>6, SoundAfter

LEMMA SoundHandlers ==
  ASSUME Sound, Handlers
  PROVE  Sound'
<1>1. kdb \in Machines /\ Level(kdb) <= MaxLevel /\ OthersTyped /\ Fetched(kdb) /\ TypeOK
  BY SoundNow DEF Sound
<1>2. Level(kdb) > 0 BY <1>1, LevelIsNatural, EmptyStack DEF Handlers, LeaveSpin, CheckBreakpoint,
        LeaveIsr, Receive, Poll, LeaveUart, OnTop
<1>3. KeepsWatch(kdb, kdb) BY <1>1, SelfKeepsWatch
<1>4. CASE LeaveSpin
  <2> DEFINE label == IF Top(kdb).kind = "uart" THEN "poll" ELSE "check"
  <2>1. kdb' = Goto(kdb, label) /\ kdb.stack[Level(kdb)].at = "spin"
    BY <1>4 DEF LeaveSpin, Step, OnTop, Top
  <2>2. label \in Labels BY DEF Labels
  <2> HIDE DEF label
  <2>3. kdb' \in Machines /\ Level(kdb') = Level(kdb) /\ Fetched(kdb')
    BY <1>1, <1>2, <1>3, <2>1, <2>2, FetchedGoto
  <2>4. OthersTyped' BY <1>1, <1>4 DEF LeaveSpin, Step, OthersTyped
  <2> QED BY <1>1, <2>3, <2>4, SoundAfter
<1>5. CASE CheckBreakpoint
  <2> DEFINE behind == [kdb EXCEPT !.registers.eip = "after"]
             r == IF kdb.registers.eip = "at" /\ kdb.byte = "int3" THEN Restore(behind) ELSE kdb
  <2>1. kdb' = Goto(r, "leave") /\ kdb.stack[Level(kdb)].at = "check"
    BY <1>5 DEF CheckBreakpoint, Step, OnTop, Top
  <2>2. behind \in Machines /\ behind.stack = kdb.stack /\ behind.irr = kdb.irr /\ behind.rx = kdb.rx
    BY <1>1 DEF Machines, Images
  <2> HIDE DEF behind
  <2>3. KeepsWatch(Restore(behind), kdb)
    BY <1>1, <2>2, SameStackKeepsWatch, RestoreKeepsWatch, WatchIsKept
  <2>4. KeepsWatch(r, kdb) BY <1>3, <2>3
  <2> HIDE DEF r
  <2>5. r.rx = <<>> \/ r.stack[Level(kdb)].at = "check" BY <2>1, <2>4 DEF KeepsWatch
  <2>6. "leave" \in Labels BY DEF Labels
  <2>7. kdb' \in Machines /\ Level(kdb') = Level(kdb) /\ Fetched(kdb')
    BY <1>1, <1>2, <2>1, <2>4, <2>5, <2>6, FetchedGoto
  <2>8. OthersTyped' BY <1>1, <1>5 DEF CheckBreakpoint, Step, OthersTyped
  <2> QED BY <1>1, <2>7, <2>8, SoundAfter
<1>6. CASE LeaveIsr
  <2>1. IsReturned(kdb', kdb, {"currentContext"}) BY <1>1, <1>6, LeaveIsrEffect
  <2>2. Top(kdb).at \notin {"get", "poll"} BY <1>6 DEF LeaveIsr, OnTop
  <2>3. OthersTyped' BY <1>1, <1>2, <1>6, FrameIsTyped DEF LeaveIsr, Iret, OthersTyped
  <2> QED BY <1>2, <2>1, <2>2, <2>3, SoundLeave
<1>7. CASE Receive
  <2> DEFINE k == Goto(Received(kdb), "poll")
             after == IF kdb.rx = <<>> THEN k ELSE
                      IF Head(kdb.rx) = "^C" THEN ControlC(k) ELSE Execute(k, Head(kdb.rx))
  <2>1. PICK next \in MayDropRequest(after) : Step(next) BY <1>7 DEF Receive
  <2>2. /\ k \in Machines /\ Level(k) = Level(kdb) /\ k.stack[Level(k)].at = "poll"
    <3>1. Received(kdb) \in Machines /\ Received(kdb).stack = kdb.stack
      BY <1>1, ReceivedEffect DEF Alike, Fields
    <3>2. Level(Received(kdb)) = Level(kdb) /\ "poll" \in Labels
      BY <3>1 DEF Level, Labels
    <3> QED BY <1>2, <3>1, <3>2, GotoEffect DEF Alike
  <2> HIDE DEF k
  <2>3. KeepsWatch(after, k)
    BY <1>2, <2>2, SelfKeepsWatch, ControlCKeepsWatch, ExecuteKeepsWatch
  <2> HIDE DEF after
  <2>4. after \in Machines /\ Level(after) = Level(kdb) BY <2>2, <2>3 DEF KeepsWatch
  <2>5. Alike(kdb', after, {"irr"}) /\ (kdb'.irr = after.irr \/ kdb'.rx = <<>>)
    BY <2>1, <2>4, DropEffect DEF Step
  <2>6. kdb' \in Machines /\ kdb'.stack = after.stack /\ kdb'.rx = after.rx
    BY <2>5 DEF Alike, Fields
  <2>7. Level(kdb') = Level(kdb) /\ Level(kdb) \in 1 .. Level(kdb)
    BY <1>1, <1>2, <2>4, <2>6, LevelIsNatural DEF Level
  <2>8. kdb'.rx = <<>> \/ kdb'.stack[Level(kdb)].at = "poll"
    BY <2>2, <2>3, <2>6 DEF KeepsWatch
  <2>9. Fetched(kdb') BY <2>7, <2>8 DEF Fetched
  <2>10. OthersTyped' BY <1>1, <2>1 DEF Step, OthersTyped
  <2> QED BY <1>1, <2>6, <2>7, <2>9, <2>10, SoundAfter
<1>8. CASE Poll
  <2> DEFINE label == IF kdb.rx = <<>> THEN "ack" ELSE "get"
  <2>1. kdb' = Goto(kdb, label) BY <1>8 DEF Poll, Step
  <2>2. label \in Labels /\ (kdb.rx = <<>> \/ label \in {"get", "poll"}) BY DEF Labels
  <2> HIDE DEF label
  <2>3. kdb' \in Machines /\ Level(kdb') = Level(kdb) /\ Fetched(kdb')
    BY <1>1, <1>2, <1>3, <2>1, <2>2, FetchedGoto
  <2>4. OthersTyped' BY <1>1, <1>8 DEF Poll, Step, OthersTyped
  <2> QED BY <1>1, <2>3, <2>4, SoundAfter
<1>9. CASE LeaveUart
  <2>1. IsReturned(kdb', kdb, {"inService"}) BY <1>1, <1>9, LeaveUartEffect
  <2>2. Top(kdb).at \notin {"get", "poll"} BY <1>9 DEF LeaveUart, OnTop
  <2>3. OthersTyped' BY <1>1, <1>2, <1>9, FrameIsTyped DEF LeaveUart, Iret, OthersTyped
  <2> QED BY <1>2, <2>1, <2>2, <2>3, SoundLeave
<1> QED BY <1>4, <1>5, <1>6, <1>7, <1>8, <1>9 DEF Handlers

LEMMA SoundHost ==
  ASSUME Sound, Host
  PROVE  Sound'
<1>1. kdb \in Machines /\ Level(kdb) <= MaxLevel /\ OthersTyped /\ Fetched(kdb) /\ TypeOK
  BY SoundNow DEF Sound
<1>2. ASSUME NEW item \in Items, Send(item), OthersTyped' PROVE Sound'
  <2>1. Alike(kdb', kdb, {"rx", "irr"}) /\ (kdb'.irr <=> (kdb.irr \/ kdb.rx = <<>>))
    BY <1>1, <1>2, SendEffect
  <2>2. kdb' \in Machines /\ kdb'.stack = kdb.stack BY <2>1 DEF Alike, Fields
  <2>3. Fetched(kdb') BY <1>1, <2>1, <2>2 DEF Fetched, Level
  <2>4. Level(kdb') = Level(kdb) BY <2>2 DEF Level
  <2>5. Level(kdb') <= MaxLevel BY <1>1, <2>4
  <2>6. OthersTyped' BY <1>2
  <2> QED BY <2>2, <2>3, <2>5, <2>6, SoundAfter
<1>3. session.commands \ {"interrupt"} \subseteq Items
  <2>1. session \in Sessions BY <1>1 DEF OthersTyped
  <2>2. session.commands \subseteq {"continue", "step", "detach", "insert", "remove", "interrupt"}
    BY <2>1, KdbAssumption
  <2> QED BY <2>2 DEF Items
<1>4. ASSUME NEW command \in Items, SendPacket(command) PROVE Sound'
  <2>1. Send(command) BY <1>4 DEF SendPacket
  <2>2. OthersTyped' BY <1>1, <1>4 DEF SendPacket, Send, OthersTyped
  <2> QED BY <1>2, <2>1, <2>2
<1>5. CASE Attach
  <2>1. SendPacket("getSignal") /\ "getSignal" \in Items BY <1>5 DEF Attach, Items
  <2> QED BY <1>4, <2>1
<1>6. CASE \E command \in session.commands \ {"interrupt"} : Command(command)
  <2>1. PICK command \in session.commands \ {"interrupt"} : Command(command) BY <1>6
  <2>2. command \in Items /\ SendPacket(command) BY <1>3, <2>1 DEF Command
  <2> QED BY <1>4, <2>2
<1>7. CASE Interrupt
  <2>1. OthersTyped' BY <1>1, <1>7 DEF Interrupt, Send, OthersTyped
  <2>2. Send("^C") /\ "^C" \in Items BY <1>7 DEF Interrupt, Items
  <2> QED BY <1>2, <2>1, <2>2
<1>8. CASE Retransmit
  <2>1. OthersTyped' BY <1>1, <1>8 DEF Retransmit, Send, OthersTyped
  <2>2. Send(outstanding) /\ outstanding \in Items
    BY <1>1, <1>8 DEF Retransmit, OthersTyped
  <2> QED BY <1>2, <2>1, <2>2
<1>9. ASSUME kdb.sentToHost # <<>>, kdb' = [kdb EXCEPT !.sentToHost = Tail(@)], OthersTyped'
      PROVE  Sound'
  <2>1. Alike(kdb', kdb, {"sentToHost"}) BY <1>1, <1>9, ReadEffect
  <2>2. kdb' \in Machines /\ kdb'.stack = kdb.stack /\ kdb'.rx = kdb.rx /\ kdb'.irr = kdb.irr
    BY <2>1 DEF Alike, Fields
  <2> QED BY <1>1, <1>9, <2>2, SoundAfter DEF Fetched, Level
<1>10. CASE HostReceives
  <2>1. OthersTyped' BY <1>1, <1>10 DEF HostReceives, OthersTyped
  <2> QED BY <1>9, <1>10, <2>1 DEF HostReceives
<1>11. CASE LoseAck
  <2>1. OthersTyped' BY <1>1, <1>11 DEF LoseAck, OthersTyped
  <2> QED BY <1>9, <1>11, <2>1 DEF LoseAck
<1> QED BY <1>5, <1>6, <1>7, <1>8, <1>10, <1>11 DEF Host

LEMMA SoundStep == Sound /\ [Next]_vars => Sound'
<1> SUFFICES ASSUME Sound, [Next]_vars PROVE Sound' OBVIOUS
<1>1. CASE Program BY <1>1, SoundProgram
<1>2. CASE UartInterrupt BY <1>2, SoundInterrupt
<1>3. CASE Handlers BY <1>3, SoundHandlers
<1>4. CASE Host BY <1>4, SoundHost
<1>5. CASE UNCHANGED vars
  BY <1>5 DEF vars, Sound, TypeOK, CharactersAreFetched, Level
<1> QED BY <1>1, <1>2, <1>3, <1>4, <1>5 DEF Next

\* Whatever gdb and the line do, the state is typed and no character is forgotten.
THEOREM KdbSound == Spec => []Sound
BY SoundInit, SoundStep, PTL DEF Spec

\* The variables of the debugger keep their types.
THEOREM KdbTypes == Spec => []TypeOK
<1>1. Sound => TypeOK BY DEF Sound
<1> QED BY <1>1, KdbSound, PTL

(***************************************************************************)
(* Whatever gdb sends, whatever is lost and however the handlers nest,     *)
(* while a character is in the 16550A a request is pending or a handler is *)
(* about to look (kdb_i16550A_isr reads until the 16550A is empty).        *)
(***************************************************************************)
THEOREM FetchesCharacters == Spec => []CharactersAreFetched
<1>1. Sound => CharactersAreFetched BY DEF Sound
<1> QED BY <1>1, KdbSound, PTL

-----------------------------------------------------------------------------
(***************************************************************************)
(* The sessions of the orderly kinds: the inductive invariant.             *)
(***************************************************************************)
\* The sessions are assumptions about gdb: see BreakpointSession, InterruptSession.
SessionsInOrder == \A s \in Sessions : BreakpointSession(s) \/ InterruptSession(s)

Breaking == BreakpointSession(session)
Interrupting == InterruptSession(session)

\* The handler of an exception is the first one, if there is one.
ExceptionBelow == Level(kdb) > 0 /\ kdb.stack[1].kind # "uart"

\* Each frame holds registers of the level below, each handler has its place.
FramesInPlace ==
  \A n \in 1 .. Level(kdb) :
    /\ kdb.stack[n].frame.of = n - 1
    /\ n = 1 => kdb.stack[n].frame.stint = stint
    /\ n > 1 => /\ kdb.stack[n].kind = "uart"
                /\ ~kdb.stack[n].frame.tf /\ kdb.stack[n].frame.eip = "run"
    /\ n < Level(kdb) => kdb.stack[n].at # "get"

\* The copied registers are those in the frame of the context.
RegistersOf(context) ==
  /\ kdb.registers.of = context - 1
  /\ context = 1 => kdb.registers.stint = stint
  /\ context > 1 => ~kdb.registers.tf /\ kdb.registers.eip = "run"

\* While the machine is stopped its context spins, under one handler at most.
ContextInPlace ==
  /\ ~kdb.panicked
  /\ kdb.suspended =>
       /\ kdb.currentContext \in 1 .. Level(kdb)
       /\ Level(kdb) <= kdb.currentContext + 1
       /\ kdb.stack[kdb.currentContext].at = "spin"
       /\ RegistersOf(kdb.currentContext)
       /\ Breaking => kdb.currentContext = 1
  /\ ExceptionBelow =>
       /\ Breaking /\ (kdb.attached \/ kdb.suspended)
       /\ kdb.currentContext = 1 /\ RegistersOf(1)

\* A serial handler that has not stopped the machine yet.
AtWork ==
  /\ Level(kdb) > 0
  /\ kdb.stack[Level(kdb)].kind = "uart"
  /\ kdb.stack[Level(kdb)].at \in {"get", "poll", "ack"}
  /\ kdb.savedContext = Level(kdb)
  /\ kdb.inService /\ ~kdb.interrupts

\* Such a handler is what keeps IRQ 4 in service and interrupts disabled, and
\* it alone takes a character.
CharactersInPlace ==
  /\ kdb.inService \/ ~kdb.interrupts => AtWork
  /\ (Level(kdb) > 0 /\ kdb.stack[Level(kdb)].at = "get") => AtWork
  /\ (kdb.rx # <<>> /\ ~kdb.irr) => AtWork /\ kdb.stack[Level(kdb)].at \in {"get", "poll"}
  /\ (kdb.suspended /\ Level(kdb) > kdb.currentContext) => AtWork
  /\ (Breaking /\ ~kdb.attached /\ ~kdb.suspended /\ Level(kdb) > 0) =>
        Level(kdb) = 1 /\ AtWork

\* Only gdb's step sets the trace flag, and only for the program.
TracesInPlace ==
  /\ trace => kdb.stack = <<>> /\ kdb.attached /\ Breaking
  /\ ~(kdb.attached /\ Breaking) =>
        ~kdb.registers.tf /\ (Level(kdb) > 0 => ~kdb.stack[1].frame.tf)

\* Where gdb and the debugger are in their exchange of packets: the target is
\* on its way, has stopped, is being attached, is given a command, is left.
Underway ==
  /\ kdb.sentToHost = <<"+">> => host = "stopped" /\ outstanding \in {"continue", "step"}
  /\ kdb.sentToHost = <<>> => host \in {"running", "interrupting"} /\ outstanding = "none"
  /\ kdb.sentToHost \in {<<>>, <<"+">>}
  /\ IF host = "interrupting" THEN kdb.rx = <<"^C">> ELSE kdb.rx = <<>>

Reporting ==
  /\ kdb.rx = <<>>
  /\ host # "interrupting" => "interrupt" \notin session.commands
  /\ \/ kdb.sentToHost = <<"+", "T">> /\ host = "stopped" /\ outstanding \in {"continue", "step"}
     \/ kdb.sentToHost = <<"T">> /\ host \in {"running", "interrupting"} /\ outstanding = "none"

Attaching ==
  /\ host = "detached"
  /\ \/ /\ kdb.rx = <<>>
        /\ outstanding = "getSignal" /\ kdb.sentToHost \in {<<"+", "S">>, <<>>}
     \/ kdb.rx = <<>> /\ outstanding \in {"getSignal", "none"} /\ kdb.sentToHost = <<"S">>
     \/ kdb.rx = <<"getSignal">> /\ outstanding = "getSignal" /\ kdb.sentToHost = <<>>

Commanded ==
  /\ host = "stopped"
  /\ \/ kdb.rx = <<>> /\ outstanding = "none" /\ kdb.sentToHost = <<>>
     \/ /\ kdb.rx = <<>> /\ outstanding \in {"insert", "remove"}
        /\ kdb.sentToHost \in {<<"+", "OK">>, <<>>}
     \/ /\ kdb.rx = <<>> /\ outstanding \in {"insert", "remove", "none"}
        /\ kdb.sentToHost = <<"OK">>
     \/ /\ kdb.rx = <<outstanding>> /\ kdb.sentToHost = <<>>
        /\ outstanding \in {"insert", "remove", "continue", "step", "detach"}

Unattached ==
  /\ host = "detached" /\ kdb.sentToHost = <<>>
  /\ \/ kdb.rx = <<>> /\ outstanding \in {"none", "getSignal"}
     \/ kdb.rx = <<"getSignal">> /\ outstanding = "getSignal"

Detaching ==
  /\ ~kdb.suspended /\ kdb.rx = <<>> /\ "detach" \in session.commands
  /\ \/ host = "stopped" /\ outstanding = "detach" /\ kdb.sentToHost = <<"+", "OK">>
     \/ host = "detached" /\ outstanding = "none" /\ kdb.sentToHost = <<"OK">>

LineInPlace ==
  /\ (kdb.attached /\ ~kdb.suspended) => Underway
  /\ (kdb.attached /\ kdb.suspended) => Reporting \/ Attaching \/ Commanded
  /\ ~kdb.attached => Unattached \/ Detaching
  /\ (~kdb.attached /\ kdb.suspended) => kdb.stack[1].kind = "soft"
  /\ outstanding \in {"none", "getSignal"} \cup (session.commands \ {"interrupt"})
  /\ host = "interrupting" => "interrupt" \in session.commands

BreakpointsTakenOut ==
  /\ kdb.stack = <<>> => eip # "after"
  /\ kdb.suspended => kdb.registers.eip # "after"
  /\ (Level(kdb) > 0 /\ ~kdb.suspended) => kdb.stack[1].frame.eip # "after"
  /\ (kdb.registers.eip = "at" /\ ExceptionBelow /\ ~kdb.suspended) => kdb.byte = "code"
  /\ (kdb.registers.eip = "at" /\ kdb.suspended /\ kdb.rx = <<outstanding>>
        /\ outstanding \in {"continue", "step"}) => kdb.byte = "code"

\* The byte is the kernel's own until gdb plants a breakpoint, and where the
\* program stands at a planted one it does not go on before the byte is back.
BytesInPlace ==
  /\ ~kdb.attached \/ Interrupting => kdb.byte = original
  /\ original = "int3" => kdb.byte = "int3"
  /\ Interrupting =>
       eip = "run" /\ kdb.registers.eip = "run" /\ (Level(kdb) > 0 => kdb.stack[1].frame.eip = "run")
  /\ outstanding \in {"insert", "remove"} => original = "code"
  /\ outstanding = "insert" => kdb.registers.eip = "run"
  /\ original = "code" => BreakpointsTakenOut

InOrder ==
  /\ Sound
  /\ FramesInPlace /\ ContextInPlace /\ CharactersInPlace
  /\ TracesInPlace /\ LineInPlace /\ BytesInPlace

LEMMA KindOfSession ==
  ASSUME SessionsInOrder, TypeOK
  PROVE  Breaking \/ Interrupting
BY DEF SessionsInOrder, TypeOK, Breaking, Interrupting

\* What the sessions do not have.
LEMMA BreakingCommands ==
  ASSUME Breaking
  PROVE  /\ "interrupt" \notin session.commands /\ "detach" \notin session.commands
         /\ session.lossy \subseteq {"getSignal", "insert", "remove"}
BY DEF Breaking, BreakpointSession

LEMMA InterruptingCommands ==
  ASSUME Interrupting
  PROVE  /\ "step" \notin session.commands
         /\ "insert" \notin session.commands /\ "remove" \notin session.commands
         /\ session.lossy \subseteq {"getSignal"}
         /\ session.prompt /\ session.traps = 0
BY DEF Interrupting, InterruptSession

\* Sequences of packets.
LEMMA Packets ==
  ASSUME NEW a, NEW b
  PROVE  /\ Append(<<>>, a) = <<a>> /\ Append(<<a>>, b) = <<a, b>>
         /\ Head(<<a>>) = a /\ Tail(<<a>>) = <<>>
         /\ Head(<<a, b>>) = a /\ Tail(<<a, b>>) = <<b>>
         /\ <<a>> # <<>> /\ <<a, b>> # <<>> /\ <<a, b>> # <<a>>
<1>1. Append(<<>>, a) = <<a>> OBVIOUS
<1>2. Append(<<a>>, b) = <<a, b>>
  <2>1. <<a>> \in Seq({a, b}) /\ <<a, b>> \in Seq({a, b}) /\ Len(<<a>>) = 1 /\ Len(<<a, b>>) = 2
    OBVIOUS
  <2>2. /\ Append(<<a>>, b) \in Seq({a, b}) /\ Len(Append(<<a>>, b)) = 2
        /\ Append(<<a>>, b)[1] = <<a>>[1] /\ Append(<<a>>, b)[2] = b
    BY <2>1
  <2>3. <<a>>[1] = a /\ <<a, b>>[1] = a /\ <<a, b>>[2] = b OBVIOUS
  <2>4. \A i \in 1 .. 2 : Append(<<a>>, b)[i] = <<a, b>>[i]
    <3> TAKE i \in 1 .. 2
    <3>1. i = 1 \/ i = 2 OBVIOUS
    <3> QED BY <2>2, <2>3, <3>1
  <2> QED BY <2>1, <2>2, <2>4, SeqEqual
<1>3. Head(<<a>>) = a OBVIOUS
<1>4. Tail(<<a>>) = <<>> OBVIOUS
<1>5. Head(<<a, b>>) = a OBVIOUS
<1>6. Tail(<<a, b>>) = <<b>> OBVIOUS
<1>7. <<a>> # <<>> OBVIOUS
<1>8. <<a, b>> # <<>> OBVIOUS
<1>9. <<a, b>> # <<a>> OBVIOUS
<1> QED BY <1>1, <1>2, <1>3, <1>4, <1>5, <1>6, <1>7, <1>8, <1>9

-----------------------------------------------------------------------------
(***************************************************************************)
(* What a packet does, in the states where gdb sends it.                   *)
(***************************************************************************)

\* The handlers on the stack of r are those of k.
SameHandlers(r, k) ==
  /\ Level(r) = Level(k)
  /\ \A n \in 1 .. Level(k) :
       /\ r.stack[n].kind = k.stack[n].kind
       /\ n < Level(k) => r.stack[n].at = k.stack[n].at

\* An attached debugger stops the machine in the handler on top.
IsStopped(r, k, context) ==
  /\ SameHandlers(r, k)
  /\ \A n \in 1 .. Level(k) : r.stack[n].frame = k.stack[n].frame
  /\ r.stack[Level(k)].at = "spin"
  /\ r.currentContext = context /\ r.registers = k.stack[context].frame
  /\ r.rx = <<>> /\ r.suspended /\ r.interrupts /\ ~r.inService /\ ~r.panicked
  /\ r.attached
  /\ Alike(r, k, {"stack", "rx", "inService", "suspended", "interrupts", "currentContext",
                  "registers", "panicked", "sentToHost", "attached"})

\* The machine goes on with the given registers in the frame of the context.
IsResumed(r, k, registers) ==
  /\ SameHandlers(r, k)
  /\ r.stack[Level(k)].at = k.stack[Level(k)].at
  /\ \A n \in 1 .. Level(k) :
       r.stack[n].frame = IF n = k.currentContext THEN registers ELSE k.stack[n].frame
  /\ r.registers = registers /\ ~r.suspended
  /\ Alike(r, k, {"stack", "registers", "suspended", "sentToHost", "attached"})

LEMMA ResumedBy ==
  ASSUME NEW k \in Machines, NEW q \in Machines, NEW registers,
         Alike(q, k, {"registers", "sentToHost", "attached"}), q.registers = registers,
         k.currentContext \in 1 .. Level(k), ~k.panicked
  PROVE  /\ IsResumed(Resume(q), k, registers)
         /\ Resume(q).sentToHost = q.sentToHost /\ Resume(q).attached = q.attached
<1>1. q.stack = k.stack /\ q.currentContext = k.currentContext /\ q.panicked = k.panicked
  BY DEF Alike, Fields
<1>2. Level(q) = Level(k) BY <1>1 DEF Level
<1>3. /\ Alike(Resume(q), q, {"stack", "suspended"})
      /\ Level(Resume(q)) = Level(k)
      /\ \A n \in 1 .. Level(k) :
           /\ Resume(q).stack[n].kind = k.stack[n].kind
           /\ Resume(q).stack[n].at = k.stack[n].at
           /\ n # k.currentContext => Resume(q).stack[n].frame = k.stack[n].frame
      /\ Resume(q).stack[k.currentContext].frame = registers
      /\ ~Resume(q).suspended
  BY <1>1, <1>2, ResumeEffect
<1>4. Level(k) \in Nat BY LevelIsNatural
<1>5. Level(k) \in 1 .. Level(k) BY <1>4
<1>6. SameHandlers(Resume(q), k) /\ Resume(q).stack[Level(k)].at = k.stack[Level(k)].at
  BY <1>3, <1>5 DEF SameHandlers
<1>7. Alike(Resume(q), k, {"stack", "registers", "suspended", "sentToHost", "attached"})
  BY <1>3 DEF Alike, Fields
<1>8. Resume(q).registers = registers /\ Resume(q).sentToHost = q.sentToHost
      /\ Resume(q).attached = q.attached
  BY <1>3 DEF Alike, Fields
<1> QED BY <1>3, <1>6, <1>7, <1>8 DEF IsResumed

\* The packets "c", "s" and "D".
LEMMA ContinueEffect ==
  ASSUME NEW k \in Machines, k.attached, k.sentToHost = <<>>,
         k.currentContext \in 1 .. Level(k), ~k.panicked
  PROVE  LET r == Execute(k, "continue")
         IN IsResumed(r, k, k.registers) /\ r.sentToHost = <<"+">> /\ r.attached
<1> DEFINE q == Reply(k, "+")
<1>1. Execute(k, "continue") = Resume(q) BY DEF Execute, Callback
<1>2. Alike(q, k, {"sentToHost"}) /\ q.sentToHost = Append(k.sentToHost, "+") BY ReplyEffect
<1> HIDE DEF q
<1>3. q.sentToHost = <<"+">> BY <1>2, Packets
<1>4. Alike(q, k, {"registers", "sentToHost", "attached"}) /\ q \in Machines
      /\ q.registers = k.registers /\ q.attached = k.attached
  BY <1>2 DEF Alike, Fields
<1> QED BY <1>1, <1>3, <1>4, ResumedBy

LEMMA StepCommandEffect ==
  ASSUME NEW k \in Machines, k.attached, k.sentToHost = <<>>,
         k.currentContext \in 1 .. Level(k), ~k.panicked
  PROVE  LET r == Execute(k, "step")
         IN /\ IsResumed(r, k, [k.registers EXCEPT !.tf = TRUE])
            /\ r.sentToHost = <<"+">> /\ r.attached
<1> DEFINE q == Reply(k, "+")
           e == EnableStep(q)
<1>1. Execute(k, "step") = Resume(e) BY DEF Execute, Callback
<1>2. Alike(q, k, {"sentToHost"}) /\ q.sentToHost = Append(k.sentToHost, "+") BY ReplyEffect
<1> HIDE DEF q
<1>3. q \in Machines /\ q.registers = k.registers /\ q.attached = k.attached
  BY <1>2 DEF Alike, Fields
<1>4. Alike(e, q, {"registers"}) /\ e.registers = [q.registers EXCEPT !.tf = TRUE]
  BY <1>3, StepEffect
<1> HIDE DEF e
<1>5. Alike(e, k, {"registers", "sentToHost", "attached"}) /\ e \in Machines
      /\ e.attached = k.attached /\ e.sentToHost = q.sentToHost
  BY <1>2, <1>4 DEF Alike, Fields
<1>6. e.registers = [k.registers EXCEPT !.tf = TRUE] /\ e.sentToHost = <<"+">>
  BY <1>2, <1>3, <1>4, <1>5, Packets
<1> QED BY <1>1, <1>5, <1>6, ResumedBy

LEMMA DetachEffect ==
  ASSUME NEW k \in Machines, k.attached, k.sentToHost = <<>>,
         k.currentContext \in 1 .. Level(k), ~k.panicked
  PROVE  LET r == Execute(k, "detach")
         IN IsResumed(r, k, k.registers) /\ r.sentToHost = <<"+", "OK">> /\ ~r.attached
<1> DEFINE q == Reply(k, "+")
           d == [q EXCEPT !.attached = FALSE]
           e == Reply(d, "OK")
<1>1. Execute(k, "detach") = Resume(e) BY DEF Execute, Callback
<1>2. Alike(q, k, {"sentToHost"}) /\ q.sentToHost = Append(k.sentToHost, "+") BY ReplyEffect
<1> HIDE DEF q
<1>3. Alike(d, q, {"attached"}) /\ ~d.attached BY <1>2 DEF Alike, Fields, Machines
<1> HIDE DEF d
<1>4. d \in Machines /\ d.sentToHost = q.sentToHost BY <1>3 DEF Alike, Fields
<1>5. Alike(e, d, {"sentToHost"}) /\ e.sentToHost = Append(d.sentToHost, "OK")
  BY <1>4, ReplyEffect
<1> HIDE DEF e
<1>6. Alike(e, k, {"registers", "sentToHost", "attached"}) /\ e \in Machines
      /\ e.registers = k.registers /\ ~e.attached
  BY <1>2, <1>3, <1>5 DEF Alike, Fields
<1>7. e.sentToHost = Append(Append(<<>>, "+"), "OK") BY <1>2, <1>4, <1>5
<1>8. Append(<<>>, "+") = <<"+">> /\ Append(<<"+">>, "OK") = <<"+", "OK">> BY ONLY Packets
<1>9. e.sentToHost = <<"+", "OK">> BY <1>7, <1>8
<1> QED BY <1>1, <1>6, <1>9, ResumedBy

\* The packets "M" by which gdb inserts and removes a breakpoint.
LEMMA WriteCommandEffect ==
  ASSUME NEW k \in Machines, k.attached, k.sentToHost = <<>>,
         NEW command \in {"insert", "remove"}
  PROVE  LET r == Execute(k, command)
         IN /\ Alike(r, k, {"byte", "sentToHost"})
            /\ r.byte = IF command = "insert" THEN "int3" ELSE "code"
            /\ r.sentToHost = <<"+", "OK">>
<1> DEFINE q == Reply(k, "+")
           byte == IF command = "insert" THEN "int3" ELSE "code"
           w == WriteByte(q, byte)
           e == Reply(w, "OK")
<1>1. Execute(k, command) = e BY DEF Execute, Callback, WriteMemory
<1>2. Alike(q, k, {"sentToHost"}) /\ q.sentToHost = Append(k.sentToHost, "+") BY ReplyEffect
<1>3. byte \in {"int3", "code"} /\ byte = (IF command = "insert" THEN "int3" ELSE "code") OBVIOUS
<1> HIDE DEF q, byte
<1>4. q \in Machines BY <1>2 DEF Alike
<1>5. Alike(w, q, {"byte"}) /\ w.byte = byte BY <1>3, <1>4, WriteEffect
<1> HIDE DEF w
<1>6. w \in Machines /\ w.sentToHost = q.sentToHost BY <1>5 DEF Alike, Fields
<1>7. Alike(e, w, {"sentToHost"}) /\ e.sentToHost = Append(w.sentToHost, "OK")
  BY <1>6, ReplyEffect
<1> HIDE DEF e
<1>8. Alike(e, k, {"byte", "sentToHost"}) /\ e.byte = w.byte
  BY <1>2, <1>5, <1>7 DEF Alike, Fields
<1>9. e.sentToHost = Append(Append(<<>>, "+"), "OK") BY <1>2, <1>6, <1>7
<1>10. Append(<<>>, "+") = <<"+">> /\ Append(<<"+">>, "OK") = <<"+", "OK">> BY ONLY Packets
<1> QED BY <1>1, <1>3, <1>5, <1>8, <1>9, <1>10

\* The packet "?", from an attached debugger and from one that is not, in a
\* machine that is stopped.
LEMMA GetSignalEffect ==
  ASSUME NEW k \in Machines, k.attached \/ k.suspended, k.sentToHost = <<>>, ~k.panicked
  PROVE  LET r == Execute(k, "getSignal")
         IN /\ Alike(r, k, {"attached", "sentToHost"})
            /\ r.attached /\ r.sentToHost = <<"+", "S">>
<1> DEFINE q == Reply(k, "+")
           done == Reply(q, "S")
           attaching == [done EXCEPT !.attached = TRUE]
<1>1. Alike(q, k, {"sentToHost"}) /\ q.sentToHost = Append(k.sentToHost, "+") BY ReplyEffect
<1> HIDE DEF q
<1>2. q \in Machines BY <1>1 DEF Alike
<1>3. Alike(done, q, {"sentToHost"}) /\ done.sentToHost = Append(q.sentToHost, "S")
  BY <1>2, ReplyEffect
<1>4. Callback(q, "getSignal") = done BY DEF Callback
<1> HIDE DEF done
<1>5. Alike(done, k, {"sentToHost"}) BY <1>1, <1>3 DEF Alike, Fields
<1>6. done.sentToHost = <<"+", "S">>
  <2>1. done.sentToHost = Append(Append(<<>>, "+"), "S") BY <1>1, <1>3
  <2>2. Append(<<>>, "+") = <<"+">> /\ Append(<<"+">>, "S") = <<"+", "S">> BY ONLY Packets
  <2> QED BY <2>1, <2>2
<1>7. Alike(attaching, done, {"attached"}) /\ attaching.attached
  BY <1>5 DEF Alike, Fields, Machines
<1> HIDE DEF attaching
<1>8. Alike(attaching, k, {"attached", "sentToHost"}) /\ attaching.sentToHost = done.sentToHost
  BY <1>5, <1>7 DEF Alike, Fields
<1>9. ~done.panicked /\ done.suspended = k.suspended /\ done.attached = k.attached
  BY <1>5 DEF Alike, Fields
<1>10. Execute(k, "getSignal") = IF k.attached THEN done ELSE attaching
  BY <1>4, <1>9 DEF Execute, q, attaching
<1>11. CASE k.attached
  <2>1. Alike(done, k, {"attached", "sentToHost"}) BY <1>5 DEF Alike, Fields
  <2> QED BY <1>6, <1>9, <1>10, <1>11, <2>1
<1>12. CASE ~k.attached BY <1>6, <1>7, <1>8, <1>10, <1>12
<1> QED BY <1>11, <1>12

\* The handler on top prepares its own frame and stops the machine.
LEMMA StopEffect ==
  ASSUME NEW k \in Machines, NEW q \in Machines, Alike(q, k, {"attached", "sentToHost"}),
         q.attached, ~k.suspended, Level(k) > 0, Level(k) <= MaxLevel,
         NEW packets, packets \in Machines,
         Alike(packets, Prepare(q, Level(k)), {"sentToHost"})
  PROVE  IsStopped(Suspend(packets), k, Level(k)) /\ Suspend(packets).sentToHost = packets.sentToHost
<1>1. q.stack = k.stack /\ q.suspended = k.suspended BY DEF Alike, Fields
<1>2. Level(q) = Level(k) /\ Level(k) \in Nat BY <1>1, LevelIsNatural DEF Level
<1>3. Level(k) \in 1 .. Level(q) BY <1>2
<1> DEFINE prepared == Prepare(q, Level(k))
<1>4. /\ Alike(prepared, q, {"currentContext", "registers", "panicked"})
      /\ prepared.currentContext = Level(k)
      /\ prepared.registers = k.stack[Level(k)].frame /\ ~prepared.panicked
  BY <1>1, <1>2, <1>3, PrepareEffect
<1> HIDE DEF prepared
<1>5. Alike(packets, prepared, {"sentToHost"}) BY DEF prepared
<1>6. /\ Alike(packets, k, {"currentContext", "registers", "panicked", "attached", "sentToHost"})
      /\ packets.currentContext = Level(k)
      /\ packets.registers = k.stack[Level(k)].frame /\ ~packets.panicked /\ packets.attached
  BY <1>4, <1>5 DEF Alike, Fields
<1>7. packets.stack = k.stack /\ ~packets.suspended BY <1>6 DEF Alike, Fields
<1>8. Level(packets) = Level(k) BY <1>7 DEF Level
<1> DEFINE r == Suspend(packets)
<1>9. /\ Alike(r, packets, {"stack", "rx", "inService", "suspended", "interrupts"})
      /\ Level(r) = Level(k)
      /\ \A n \in 1 .. Level(k) :
           /\ r.stack[n].kind = k.stack[n].kind
           /\ r.stack[n].frame = k.stack[n].frame
           /\ n < Level(k) => r.stack[n].at = k.stack[n].at
      /\ r.stack[Level(k)].at = "spin"
      /\ r.rx = <<>> /\ r.suspended /\ r.interrupts /\ ~r.inService
  BY <1>7, <1>8, SuspendEffect
<1> HIDE DEF r
<1>10. /\ Alike(r, k, {"stack", "rx", "inService", "suspended", "interrupts", "currentContext",
                       "registers", "panicked", "sentToHost", "attached"})
       /\ r.currentContext = Level(k) /\ r.registers = k.stack[Level(k)].frame
       /\ ~r.panicked /\ r.attached /\ r.sentToHost = packets.sentToHost
  BY <1>6, <1>9 DEF Alike, Fields
<1> QED BY <1>9, <1>10 DEF IsStopped, SameHandlers, r

\* The first packet of a session, in a machine that is running.
LEMMA AttachEffect ==
  ASSUME NEW k \in Machines, ~k.attached, ~k.suspended, k.sentToHost = <<>>, ~k.panicked,
         Level(k) > 0, Level(k) <= MaxLevel, k.savedContext = Level(k)
  PROVE  LET r == Execute(k, "getSignal")
         IN IsStopped(r, k, Level(k)) /\ r.sentToHost = <<"+", "S">>
<1> DEFINE q == Reply(k, "+")
           done == Reply(q, "S")
           attaching == [done EXCEPT !.attached = TRUE]
           prepared == Prepare(attaching, Level(k))
<1>1. Alike(q, k, {"sentToHost"}) /\ q.sentToHost = Append(k.sentToHost, "+") BY ReplyEffect
<1> HIDE DEF q
<1>2. q \in Machines BY <1>1 DEF Alike
<1>3. Alike(done, q, {"sentToHost"}) /\ done.sentToHost = Append(q.sentToHost, "S")
  BY <1>2, ReplyEffect
<1>4. Callback(q, "getSignal") = done BY DEF Callback
<1> HIDE DEF done
<1>5. Alike(done, k, {"sentToHost"}) BY <1>1, <1>3 DEF Alike, Fields
<1>6. done.sentToHost = <<"+", "S">>
  <2>1. done.sentToHost = Append(Append(<<>>, "+"), "S") BY <1>1, <1>3
  <2>2. Append(<<>>, "+") = <<"+">> /\ Append(<<"+">>, "S") = <<"+", "S">> BY ONLY Packets
  <2> QED BY <2>1, <2>2
<1>7. Alike(attaching, done, {"attached"}) /\ attaching.attached
  BY <1>5 DEF Alike, Fields, Machines
<1> HIDE DEF attaching
<1>8. Alike(attaching, k, {"attached", "sentToHost"}) /\ attaching.sentToHost = <<"+", "S">>
      /\ attaching.savedContext = Level(k) /\ attaching \in Machines
  BY <1>5, <1>6, <1>7 DEF Alike, Fields
<1>9. ~done.panicked /\ done.suspended = k.suspended BY <1>5 DEF Alike, Fields
<1>10. Execute(k, "getSignal") = Suspend(prepared)
  BY <1>4, <1>8, <1>9 DEF Execute, q, attaching
<1>11. Level(k) \in 1 .. Level(attaching) /\ Level(attaching) = Level(k)
  BY <1>8, LevelIsNatural DEF Alike, Fields, Level
<1>12. Alike(prepared, attaching, {"currentContext", "registers", "panicked"})
  BY <1>8, <1>11, PrepareEffect
<1>13. prepared \in Machines /\ prepared.sentToHost = <<"+", "S">>
       /\ Alike(prepared, prepared, {"sentToHost"})
  BY <1>8, <1>12 DEF Alike, Fields
<1>14. IsStopped(Suspend(prepared), k, Level(k)) /\ Suspend(prepared).sentToHost = prepared.sentToHost
  BY <1>7, <1>8, <1>13, StopEffect
<1> QED BY <1>10, <1>13, <1>14

\* CTRL-C, in a machine that is running.
LEMMA ControlCEffect ==
  ASSUME NEW k \in Machines, k.attached, ~k.suspended, k.sentToHost = <<>>,
         Level(k) > 0, Level(k) <= MaxLevel, k.savedContext = Level(k)
  PROVE  IsStopped(ControlC(k), k, Level(k)) /\ ControlC(k).sentToHost = <<"T">>
<1> DEFINE prepared == Prepare(k, Level(k))
           q == Reply(prepared, "T")
<1>1. Level(k) \in 1 .. Level(k) BY LevelIsNatural
<1>2. Alike(prepared, k, {"currentContext", "registers", "panicked"})
  BY <1>1, PrepareEffect
<1>3. prepared \in Machines /\ prepared.attached /\ prepared.sentToHost = <<>>
  BY <1>2 DEF Alike, Fields
<1>4. ControlC(k) = Suspend(q) BY <1>3 DEF ControlC, Service, SendTrapStatus
<1>5. Alike(q, prepared, {"sentToHost"}) /\ q.sentToHost = Append(prepared.sentToHost, "T")
  BY <1>3, ReplyEffect
<1>6. q.sentToHost = <<"T">> /\ q \in Machines BY <1>3, <1>5, Packets DEF Alike
<1>7. Alike(k, k, {"attached", "sentToHost"}) BY DEF Alike
<1> HIDE DEF q
<1>8. IsStopped(Suspend(q), k, Level(k)) /\ Suspend(q).sentToHost = q.sentToHost
  BY <1>5, <1>6, <1>7, StopEffect
<1> QED BY <1>4, <1>6, <1>8

\* An exception, in a machine that is running.
IsTrapped(r, k, kind, frame) ==
  /\ r.stack[Level(k) + 1].kind = kind
  /\ r.stack[Level(k) + 1].frame = frame
  /\ r.stack[Level(k) + 1].at = "spin"
  /\ r.currentContext = Level(k) + 1
  /\ r.registers = [frame EXCEPT !.tf = FALSE,
       !.eip = IF kind = "soft" /\ frame.eip = "after" THEN "at" ELSE frame.eip]
  /\ r.rx = <<>> /\ r.suspended /\ r.interrupts /\ ~r.inService /\ ~r.panicked
  /\ k.attached => r.sentToHost = Append(k.sentToHost, "T")
  /\ ~k.attached => r.sentToHost = k.sentToHost
  /\ Alike(r, k, {"stack", "rx", "inService", "suspended", "interrupts",
                  "currentContext", "registers", "panicked", "sentToHost"})

LEMMA EnterIsrEffect ==
  ASSUME NEW k \in Machines, ~k.suspended, Level(k) < MaxLevel,
         NEW kind \in {"soft", "hard"}, NEW frame \in Images
  PROVE  IsTrapped(EnterIsr(k, kind, frame), k, kind, frame)
<1> DEFINE pushed == Push(k, kind, "check", frame)
           prepared == Prepare(pushed, Level(pushed))
           pc == IF kind = "soft" /\ frame.eip = "after" THEN "at" ELSE frame.eip
           stepped == [prepared EXCEPT !.registers.eip = pc]
           copied == DisableStep(stepped)
           q == IF copied.attached THEN Reply(copied, "T") ELSE copied
<1>1. IsPushed(pushed, k, kind, "check", frame)
  <2>1. "check" \in Labels /\ kind \in {"uart", "soft", "hard"} BY DEF Labels
  <2> QED BY <2>1, PushEffect
<1>2. EnterIsr(k, kind, frame) = Suspend(q)
  BY DEF EnterIsr, Service, SendTrapStatus
<1>3. pc \in {"run", "at", "after"} BY DEF Images
<1>4. pc = IF kind = "soft" /\ frame.eip = "after" THEN "at" ELSE frame.eip OBVIOUS
<1> HIDE DEF pushed, pc
<1>5. /\ pushed \in Machines /\ Level(pushed) = Level(k) + 1 /\ pushed.suspended = k.suspended
      /\ pushed.stack[Level(k) + 1].frame = frame
      /\ Alike(pushed, k, {"stack", "interrupts"})
  BY <1>1 DEF IsPushed, Alike, Fields
<1>6. Level(k) \in Nat /\ MaxLevel \in Nat BY LevelIsNatural, KdbAssumption
<1>7. Level(pushed) \in 1 .. Level(pushed) /\ Level(pushed) <= MaxLevel BY <1>5, <1>6
<1>8. /\ Alike(prepared, pushed, {"currentContext", "registers", "panicked"})
      /\ prepared.currentContext = Level(k) + 1 /\ prepared.registers = frame
      /\ ~prepared.panicked
  BY <1>5, <1>7, PrepareEffect
<1> HIDE DEF prepared
<1>9. Alike(stepped, prepared, {"registers"}) /\ stepped.registers = [frame EXCEPT !.eip = pc]
  BY <1>3, <1>8 DEF Alike, Fields, Machines, Images
<1> HIDE DEF stepped
<1>10. stepped \in Machines BY <1>9 DEF Alike
<1>11. Alike(copied, stepped, {"registers"}) /\ copied.registers = [stepped.registers EXCEPT !.tf = FALSE]
  BY <1>10, StepEffect
<1>12. copied.registers = [frame EXCEPT !.tf = FALSE, !.eip = pc]
  BY <1>9, <1>11 DEF Images
<1> HIDE DEF copied
<1>13. copied \in Machines BY <1>11 DEF Alike
<1>14. /\ Alike(q, copied, {"sentToHost"})
       /\ copied.attached => q.sentToHost = Append(copied.sentToHost, "T")
       /\ ~copied.attached => q.sentToHost = copied.sentToHost
  BY <1>13, ReplyEffect DEF Alike
<1> HIDE DEF q
<1>15. /\ q \in Machines /\ q.stack = pushed.stack /\ ~q.suspended
       /\ q.currentContext = Level(k) + 1 /\ q.registers = copied.registers /\ ~q.panicked
       /\ Alike(q, k, {"stack", "interrupts", "currentContext", "registers", "panicked", "sentToHost"})
  BY <1>5, <1>8, <1>9, <1>11, <1>14 DEF Alike, Fields
<1>16. copied.attached = k.attached /\ copied.sentToHost = k.sentToHost
  BY <1>5, <1>8, <1>9, <1>11 DEF Alike, Fields
<1>17. Level(q) = Level(k) + 1 /\ Level(q) > 0 BY <1>5, <1>6, <1>15 DEF Level
<1> DEFINE r == Suspend(q)
<1>18. /\ Alike(r, q, {"stack", "rx", "inService", "suspended", "interrupts"})
       /\ r.stack[Level(k) + 1].kind = q.stack[Level(k) + 1].kind
       /\ r.stack[Level(k) + 1].frame = q.stack[Level(k) + 1].frame
       /\ r.stack[Level(k) + 1].at = "spin"
       /\ r.rx = <<>> /\ r.suspended /\ r.interrupts /\ ~r.inService
  <2>1. Level(k) + 1 \in 1 .. Level(q) BY <1>6, <1>17
  <2> QED BY <1>15, <1>17, <2>1, SuspendEffect
<1> HIDE DEF r
<1>19. /\ r.currentContext = Level(k) + 1 /\ r.registers = copied.registers /\ ~r.panicked
       /\ r.sentToHost = q.sentToHost
       /\ Alike(r, k, {"stack", "rx", "inService", "suspended", "interrupts",
                       "currentContext", "registers", "panicked", "sentToHost"})
  BY <1>15, <1>18 DEF Alike, Fields
<1>20. r.stack[Level(k) + 1].kind = kind /\ r.stack[Level(k) + 1].frame = frame
  BY <1>1, <1>15, <1>18 DEF IsPushed
<1> QED BY <1>2, <1>4, <1>12, <1>14, <1>16, <1>18, <1>19, <1>20 DEF r, IsTrapped

-----------------------------------------------------------------------------
(***************************************************************************)
(* The invariant holds at the start and is kept by every step.             *)
(***************************************************************************)

LEMMA InOrderInit ==
  ASSUME SessionsInOrder, Init
  PROVE  InOrder
<1>1. Sound BY SoundInit
<1>2. kdb.stack = <<>> /\ Level(kdb) = 0 BY DEF Init, Level
<1>3. ~kdb.suspended /\ ~kdb.attached /\ ~kdb.panicked /\ ~kdb.inService /\ kdb.interrupts
      /\ kdb.rx = <<>> /\ kdb.sentToHost = <<>> /\ kdb.byte = original
      /\ kdb.registers = Garbage
  BY DEF Init
<1>4. eip = "run" /\ ~trace /\ host = "detached" /\ outstanding = "none" BY DEF Init
<1>5. FramesInPlace BY <1>2 DEF FramesInPlace
<1>6. ContextInPlace BY <1>2, <1>3 DEF ContextInPlace, ExceptionBelow
<1>7. CharactersInPlace BY <1>2, <1>3 DEF CharactersInPlace
<1>8. TracesInPlace
  <2>1. Garbage.tf = FALSE BY DEF Garbage, Image
  <2> QED BY <1>2, <1>3, <1>4, <2>1 DEF TracesInPlace
<1>9. LineInPlace BY <1>3, <1>4 DEF LineInPlace, Unattached
<1>10. BytesInPlace
  <2>1. Garbage.eip = "run" BY DEF Garbage, Image
  <2> QED BY <1>2, <1>3, <1>4, <2>1 DEF BytesInPlace, BreakpointsTakenOut
<1> QED BY <1>1, <1>5, <1>6, <1>7, <1>8, <1>9, <1>10 DEF InOrder

\* What a step does not touch stays in place.
LEMMA FramesStay ==
  ASSUME FramesInPlace, stint' = stint, Level(kdb') = Level(kdb),
         \A n \in 1 .. Level(kdb) :
           /\ kdb'.stack[n].frame = kdb.stack[n].frame
           /\ kdb'.stack[n].kind = kdb.stack[n].kind
           /\ n < Level(kdb) => kdb'.stack[n].at = kdb.stack[n].at
  PROVE  FramesInPlace'
BY DEF FramesInPlace

LEMMA LineStays ==
  ASSUME LineInPlace, UNCHANGED <<host, outstanding, session>>,
         kdb'.attached = kdb.attached, kdb'.suspended = kdb.suspended,
         kdb'.rx = kdb.rx, kdb'.sentToHost = kdb.sentToHost,
         kdb.suspended => kdb'.stack[1].kind = kdb.stack[1].kind
  PROVE  LineInPlace'
<1>1. Underway' <=> Underway BY DEF Underway
<1>2. Reporting' <=> Reporting BY DEF Reporting
<1>3. Attaching' <=> Attaching BY DEF Attaching
<1>4. Commanded' <=> Commanded BY DEF Commanded
<1>5. Unattached' <=> Unattached BY DEF Unattached
<1>6. Detaching' <=> Detaching BY DEF Detaching
<1> QED BY <1>1, <1>2, <1>3, <1>4, <1>5, <1>6 DEF LineInPlace

\* The places of the program: eip, and what the first frame holds.
LEMMA BytesStay ==
  ASSUME BytesInPlace, UNCHANGED <<original, outstanding, session>>,
         kdb'.attached = kdb.attached, kdb'.suspended = kdb.suspended,
         kdb'.rx = kdb.rx, kdb'.byte = kdb.byte, kdb'.registers = kdb.registers,
         original = "code" => /\ kdb'.stack = <<>> => eip' # "after"
                              /\ (Level(kdb') > 0 /\ ~kdb.suspended) =>
                                    kdb'.stack[1].frame.eip # "after",
         Interrupting => /\ eip' = "run"
                         /\ Level(kdb') > 0 => kdb'.stack[1].frame.eip = "run",
         ExceptionBelow' => ExceptionBelow
  PROVE  BytesInPlace'
<1>1. Interrupting' <=> Interrupting BY DEF Interrupting
<1>2. BreakpointsTakenOut => (original = "code" => BreakpointsTakenOut') BY DEF BreakpointsTakenOut
<1> QED BY <1>1, <1>2 DEF BytesInPlace

LEMMA InOrderFacts ==
  ASSUME InOrder
  PROVE  /\ TypeOK /\ kdb \in Machines /\ Level(kdb) \in Nat /\ MaxLevel \in Nat
         /\ Level(kdb) <= MaxLevel /\ OthersTyped
         /\ FramesInPlace /\ ContextInPlace /\ CharactersInPlace
         /\ TracesInPlace /\ LineInPlace /\ BytesInPlace
<1>1. kdb \in Machines /\ Level(kdb) <= MaxLevel /\ OthersTyped /\ TypeOK
  BY SoundNow DEF InOrder, Sound
<1>2. Level(kdb) \in Nat /\ MaxLevel \in Nat BY <1>1, LevelIsNatural, KdbAssumption
<1> QED BY <1>1, <1>2 DEF InOrder

\* The handler on top moves on and nothing else happens.
LEMMA InOrderGoto ==
  ASSUME InOrder, Level(kdb) > 0, NEW label \in Labels, kdb' = Goto(kdb, label),
         UNCHANGED <<eip, stint, trace, original, session, host, outstanding>>,
         kdb.suspended => kdb.currentContext # Level(kdb),
         Sound', CharactersInPlace'
  PROVE  InOrder'
<1>1. /\ kdb \in Machines /\ Level(kdb) \in Nat /\ FramesInPlace /\ ContextInPlace
      /\ TracesInPlace /\ LineInPlace /\ BytesInPlace
  BY InOrderFacts
<1>2. /\ Alike(kdb', kdb, {"stack"})
      /\ Level(kdb') = Level(kdb)
      /\ \A n \in 1 .. Level(kdb) :
           /\ kdb'.stack[n].kind = kdb.stack[n].kind
           /\ kdb'.stack[n].frame = kdb.stack[n].frame
           /\ n < Level(kdb) => kdb'.stack[n].at = kdb.stack[n].at
  BY <1>1, GotoEffect
<1>3. /\ kdb'.panicked = kdb.panicked /\ kdb'.suspended = kdb.suspended
      /\ kdb'.currentContext = kdb.currentContext /\ kdb'.registers = kdb.registers
      /\ kdb'.attached = kdb.attached /\ kdb'.rx = kdb.rx /\ kdb'.sentToHost = kdb.sentToHost
      /\ kdb'.byte = kdb.byte
  BY <1>2 DEF Alike, Fields
<1>4. 1 \in 1 .. Level(kdb) BY <1>1
<1>5. ExceptionBelow' <=> ExceptionBelow BY <1>2, <1>4 DEF ExceptionBelow
<1>6. Breaking' <=> Breaking BY DEF Breaking
<1>7. FramesInPlace' BY <1>1, <1>2, FramesStay
<1>8. ContextInPlace'
  <2>1. \A c : RegistersOf(c)' <=> RegistersOf(c) BY <1>3 DEF RegistersOf
  <2>2. kdb.suspended => kdb'.stack[kdb.currentContext].at = kdb.stack[kdb.currentContext].at
    BY <1>1, <1>2 DEF ContextInPlace
  <2> QED BY <1>1, <1>2, <1>3, <1>5, <1>6, <2>1, <2>2 DEF ContextInPlace
<1>9. TracesInPlace'
  <2>1. trace => kdb.stack = <<>> BY <1>1 DEF TracesInPlace
  <2>2. ~trace BY <1>1, <2>1, EmptyStack
  <2> QED BY <1>1, <1>2, <1>3, <1>4, <1>6, <2>2 DEF TracesInPlace
<1>10. LineInPlace' BY <1>1, <1>2, <1>3, <1>4, LineStays
<1>11. BytesInPlace'
  <2>1. kdb'.stack[1].frame = kdb.stack[1].frame BY <1>2, <1>4
  <2>2. kdb'.stack # <<>>
    <3>1. kdb' \in Machines /\ Level(kdb') > 0 BY <1>2 DEF Alike
    <3> QED BY <3>1, EmptyStack
  <2> QED BY <1>1, <1>2, <1>3, <1>5, <2>1, <2>2, BytesStay DEF BytesInPlace, BreakpointsTakenOut
<1> QED BY <1>7, <1>8, <1>9, <1>10, <1>11 DEF InOrder

\* A handler that reads kdb_suspended as 0 goes on.
LEMMA InOrderLeaveSpin ==
  ASSUME InOrder, LeaveSpin
  PROVE  InOrder'
<1> DEFINE label == IF Top(kdb).kind = "uart" THEN "poll" ELSE "check"
<1>1. kdb \in Machines /\ Level(kdb) \in Nat /\ CharactersInPlace BY InOrderFacts
<1>2. Level(kdb) > 0 BY <1>1, EmptyStack DEF LeaveSpin, OnTop
<1>3. kdb' = Goto(kdb, label) /\ UNCHANGED <<eip, stint, trace, original, session, host, outstanding>>
  BY DEF LeaveSpin, Step
<1>4. label \in Labels /\ label # "get" BY DEF Labels
<1> HIDE DEF label
<1>5. ~kdb.suspended /\ kdb.stack[Level(kdb)].at = "spin" BY DEF LeaveSpin, OnTop, Top
<1>6. ~AtWork BY <1>5 DEF AtWork
<1>7. /\ Alike(kdb', kdb, {"stack"}) /\ Level(kdb') = Level(kdb)
      /\ kdb'.stack[Level(kdb)].at = label
  BY <1>1, <1>2, <1>3, <1>4, GotoEffect
<1>8. /\ kdb'.inService = kdb.inService /\ kdb'.interrupts = kdb.interrupts
      /\ kdb'.rx = kdb.rx /\ kdb'.irr = kdb.irr
      /\ kdb'.suspended = kdb.suspended /\ kdb'.attached = kdb.attached
  BY <1>7 DEF Alike, Fields
<1>9. Breaking' <=> Breaking BY <1>3 DEF Breaking
<1>10. CharactersInPlace' BY <1>1, <1>4, <1>5, <1>6, <1>7, <1>8, <1>9 DEF CharactersInPlace
<1>11. Sound' BY SoundStep DEF InOrder, Next, Handlers
<1> QED BY <1>2, <1>3, <1>4, <1>5, <1>10, <1>11, InOrderGoto

\* A serial handler looks for a character only where none below it does.
LEMMA InOrderPoll ==
  ASSUME SessionsInOrder, InOrder, Poll
  PROVE  InOrder'
<1> DEFINE label == IF kdb.rx = <<>> THEN "ack" ELSE "get"
<1>1. /\ TypeOK /\ kdb \in Machines /\ Level(kdb) \in Nat /\ ContextInPlace
      /\ CharactersInPlace /\ LineInPlace
  BY InOrderFacts
<1>2. Level(kdb) > 0 BY <1>1, EmptyStack DEF Poll, OnTop
<1>3. kdb' = Goto(kdb, label) /\ UNCHANGED <<eip, stint, trace, original, session, host, outstanding>>
  BY DEF Poll, Step
<1>4. label \in Labels /\ label \in {"get", "ack"} /\ (label = "get" <=> kdb.rx # <<>>) BY DEF Labels
<1> HIDE DEF label
<1>5. /\ kdb.stack[Level(kdb)].at = "poll" /\ kdb.stack[Level(kdb)].kind = "uart"
      /\ Executing /\ ~trace
  BY DEF Poll, OnTop, Top
<1>6. /\ Alike(kdb', kdb, {"stack"}) /\ Level(kdb') = Level(kdb)
      /\ kdb'.stack[Level(kdb)].at = label /\ kdb'.stack[Level(kdb)].kind = "uart"
  BY <1>1, <1>2, <1>3, <1>4, <1>5, GotoEffect
<1>7. /\ kdb'.inService = kdb.inService /\ kdb'.interrupts = kdb.interrupts
      /\ kdb'.rx = kdb.rx /\ kdb'.irr = kdb.irr
      /\ kdb'.suspended = kdb.suspended /\ kdb'.attached = kdb.attached
      /\ kdb'.savedContext = kdb.savedContext /\ kdb'.currentContext = kdb.currentContext
  BY <1>6 DEF Alike, Fields
<1>8. Breaking' <=> Breaking BY <1>3 DEF Breaking
<1>9. kdb.suspended => kdb.currentContext # Level(kdb) BY <1>1, <1>5 DEF ContextInPlace
<1>10. kdb.rx # <<>> => AtWork
  <2>1. SUFFICES ASSUME kdb.rx # <<>>, kdb.irr, kdb.interrupts, ~kdb.inService PROVE AtWork
    BY <1>1 DEF CharactersInPlace
  <2>2. ~session.prompt BY <1>5, <2>1 DEF Executing, Requested
  <2>3. Breaking BY <1>1, <2>2, KindOfSession, InterruptingCommands
  <2>4. CASE kdb.attached /\ ~kdb.suspended
    <3>1. host # "interrupting" BY <1>1, <2>3, BreakingCommands DEF LineInPlace
    <3> QED BY <1>1, <2>1, <2>4, <3>1 DEF LineInPlace, Underway
  <2>5. CASE ~kdb.attached /\ ~kdb.suspended
    BY <1>1, <1>2, <2>3, <2>5 DEF CharactersInPlace
  <2>6. CASE kdb.suspended
    <3>1. kdb.currentContext \in 1 .. Level(kdb) BY <1>1, <2>6 DEF ContextInPlace
    <3>2. Level(kdb) > kdb.currentContext BY <1>1, <1>9, <2>6, <3>1
    <3> QED BY <1>1, <2>6, <3>2 DEF CharactersInPlace
  <2> QED BY <2>4, <2>5, <2>6
<1>11. AtWork => AtWork' BY <1>4, <1>6, <1>7 DEF AtWork
<1>12. CharactersInPlace'
  BY <1>1, <1>4, <1>6, <1>7, <1>8, <1>10, <1>11 DEF CharactersInPlace
<1>13. Sound' BY SoundStep DEF InOrder, Next, Handlers
<1> QED BY <1>2, <1>3, <1>4, <1>9, <1>12, <1>13, InOrderGoto

\* An instruction of the program.
LEMMA InOrderProgramStep ==
  ASSUME InOrder, ProgramStep
  PROVE  InOrder'
<1>1. /\ kdb \in Machines /\ FramesInPlace /\ ContextInPlace /\ CharactersInPlace
      /\ TracesInPlace /\ LineInPlace /\ BytesInPlace
  BY InOrderFacts
<1>2. /\ kdb' = kdb /\ eip' = "run" /\ kdb.stack = <<>>
      /\ UNCHANGED <<stint, trace, original, session, host, outstanding>>
  BY DEF ProgramStep
<1>3. FramesInPlace' BY <1>1, <1>2 DEF FramesInPlace, Level
<1>4. ContextInPlace'
  BY <1>1, <1>2 DEF ContextInPlace, ExceptionBelow, RegistersOf, Breaking, Level
<1>5. CharactersInPlace' BY <1>1, <1>2 DEF CharactersInPlace, AtWork, Breaking, Level
<1>6. TracesInPlace' BY <1>1, <1>2 DEF TracesInPlace, Breaking, Level
<1>7. LineInPlace' BY <1>1, <1>2, LineStays
<1>8. Level(kdb') = 0 BY <1>2 DEF Level
<1>9. BytesInPlace'
  <2>1. ExceptionBelow' => ExceptionBelow BY <1>2 DEF ExceptionBelow, Level
  <2> QED BY <1>1, <1>2, <1>8, <2>1, BytesStay
<1>10. Sound' BY SoundStep DEF InOrder, Next, Program
<1> QED BY <1>3, <1>4, <1>5, <1>6, <1>7, <1>9, <1>10 DEF InOrder

\* An exception of the program, which runs alone, stops it.
LEMMA InOrderTrap ==
  ASSUME InOrder, Breaking, kdb.stack = <<>>,
         NEW kind \in {"soft", "hard"}, NEW frame \in Images, kdb' = EnterIsr(kdb, kind, frame),
         frame.of = 0, frame.stint = stint, frame.tf => kdb.attached,
         ~kdb.attached => kind = "soft", frame.eip = "after" => kind = "soft",
         Interrupting => kind = "hard" /\ frame.eip = "run" /\ eip' = "run",
         trace' = FALSE, UNCHANGED <<stint, original, session, host, outstanding>>, Sound'
  PROVE  InOrder'
<1>1. /\ TypeOK /\ kdb \in Machines /\ ContextInPlace /\ LineInPlace /\ BytesInPlace
      /\ MaxLevel \in Nat \ {0}
  BY InOrderFacts, KdbAssumption
<1>2. Level(kdb) = 0 /\ Level(kdb) < MaxLevel /\ Level(kdb) + 1 = 1 BY <1>1, EmptyStack
<1>3. ~kdb.suspended BY <1>1, <1>2 DEF ContextInPlace
<1> DEFINE pc == IF kind = "soft" /\ frame.eip = "after" THEN "at" ELSE frame.eip
<1>4. /\ kdb'.stack[1].kind = kind /\ kdb'.stack[1].frame = frame /\ kdb'.stack[1].at = "spin"
      /\ kdb'.currentContext = 1
      /\ kdb'.registers = [frame EXCEPT !.tf = FALSE, !.eip = pc]
      /\ kdb'.rx = <<>> /\ kdb'.suspended /\ kdb'.interrupts /\ ~kdb'.inService /\ ~kdb'.panicked
      /\ kdb.attached => kdb'.sentToHost = Append(kdb.sentToHost, "T")
      /\ ~kdb.attached => kdb'.sentToHost = kdb.sentToHost
      /\ Alike(kdb', kdb, {"stack", "rx", "inService", "suspended", "interrupts",
                           "currentContext", "registers", "panicked", "sentToHost"})
  <2>1. IsTrapped(kdb', kdb, kind, frame) BY <1>1, <1>2, <1>3, EnterIsrEffect
  <2> QED BY <1>2, <2>1 DEF IsTrapped
<1>5. Level(kdb') = 1 BY <1>1, <1>2, EnterIsrKeepsWatch
<1>6. /\ kdb'.registers.of = 0 /\ kdb'.registers.stint = stint /\ kdb'.registers.tf = FALSE
      /\ kdb'.registers.eip = pc
  BY <1>4 DEF Images
<1>7. kdb'.attached = kdb.attached /\ kdb'.byte = kdb.byte BY <1>4 DEF Alike, Fields
<1>8. Breaking' BY DEF Breaking
<1>9. FramesInPlace' BY <1>4, <1>5 DEF FramesInPlace
<1>10. ContextInPlace'
  <2>1. RegistersOf(1)' BY <1>6 DEF RegistersOf
  <2> QED BY <1>4, <1>5, <1>8, <2>1 DEF ContextInPlace
<1>11. CharactersInPlace' BY <1>4, <1>5 DEF CharactersInPlace
<1>12. TracesInPlace' BY <1>4, <1>6, <1>7, <1>8 DEF TracesInPlace
<1>13. "detach" \notin session.commands /\ "interrupt" \notin session.commands BY BreakingCommands
<1>14. /\ kdb.attached => Underway /\ host # "interrupting"
       /\ ~kdb.attached => Unattached
  BY <1>1, <1>3, <1>13 DEF LineInPlace, Detaching
<1>15. LineInPlace'
  <2>1. CASE kdb.attached
    <3>1. CASE kdb.sentToHost = <<"+">>
      <4>1. kdb'.sentToHost = <<"+", "T">> BY <1>4, <2>1, <3>1, Packets
      <4>2. host = "stopped" /\ outstanding \in {"continue", "step"}
        BY <1>14, <2>1, <3>1 DEF Underway
      <4>3. Reporting' BY <1>4, <1>13, <4>1, <4>2 DEF Reporting
      <4> QED BY <1>1, <1>4, <1>7, <2>1, <4>3 DEF LineInPlace
    <3>2. CASE kdb.sentToHost = <<>>
      <4>1. kdb'.sentToHost = <<"T">> BY <1>4, <2>1, <3>2, Packets
      <4>2. host \in {"running", "interrupting"} /\ outstanding = "none"
        BY <1>14, <2>1, <3>2 DEF Underway
      <4>3. Reporting' BY <1>4, <1>13, <4>1, <4>2 DEF Reporting
      <4> QED BY <1>1, <1>4, <1>7, <2>1, <4>3 DEF LineInPlace
    <3> QED BY <1>14, <2>1, <3>1, <3>2 DEF Underway
  <2>2. CASE ~kdb.attached
    <3>1. host = "detached" /\ kdb.sentToHost = <<>> /\ outstanding \in {"none", "getSignal"}
      BY <1>14, <2>2 DEF Unattached
    <3>2. Unattached' BY <1>4, <2>2, <3>1 DEF Unattached
    <3> QED BY <1>1, <1>4, <1>7, <2>2, <3>2 DEF LineInPlace
  <2> QED BY <2>1, <2>2
<1>16. BytesInPlace'
  <2>1. outstanding \notin {"insert", "remove"}
    BY <1>14 DEF Underway, Unattached
  <2>2. kdb'.stack # <<>>
    <3>1. kdb' \in Machines BY <1>4 DEF Alike
    <3> QED BY <1>5, <3>1, EmptyStack
  <2>3. kdb'.rx # <<outstanding>> BY <1>4
  <2>4. pc # "after" OBVIOUS
  <2>5. BreakpointsTakenOut' BY <1>4, <1>6, <2>2, <2>3, <2>4 DEF BreakpointsTakenOut
  <2>6. Interrupting' => Interrupting BY DEF Interrupting
  <2>7. Interrupting => pc = "run" OBVIOUS
  <2> QED BY <1>1, <1>4, <1>6, <1>7, <2>1, <2>5, <2>6, <2>7 DEF BytesInPlace
<1> QED BY <1>9, <1>10, <1>11, <1>12, <1>15, <1>16 DEF InOrder

\* A breakpoint instruction: only in sessions where the program meets some.
LEMMA InOrderSoftTrap ==
  ASSUME SessionsInOrder, InOrder, SoftTrap
  PROVE  InOrder'
<1> DEFINE frame == Image(0, stint, "after", trace)
<1>1. /\ TypeOK /\ kdb \in Machines /\ OthersTyped /\ MaxLevel \in Nat
      /\ TracesInPlace /\ BytesInPlace
  BY InOrderFacts
<1>2. /\ kdb.stack = <<>> /\ trace' = FALSE /\ kdb' = EnterIsr(kdb, "soft", frame)
      /\ UNCHANGED <<stint, original, session, host, outstanding>>
  BY DEF SoftTrap
<1>3. ~Interrupting
  <2>1. SUFFICES ASSUME Interrupting PROVE FALSE OBVIOUS
  <2>2. eip = "run" /\ session.traps = 0 BY <1>1, <2>1, InterruptingCommands DEF BytesInPlace
  <2>3. traps < 0 /\ traps \in Nat BY <1>1, <2>2 DEF SoftTrap, OthersTyped
  <2> QED BY <2>3
<1>4. Breaking BY <1>1, <1>3, KindOfSession
<1>5. frame \in Images BY <1>1 DEF OthersTyped, Image, Images
<1>6. frame.of = 0 /\ frame.stint = stint /\ frame.tf = trace BY DEF Image
<1>7. frame.tf => kdb.attached BY <1>1, <1>6 DEF TracesInPlace
<1>8. Sound' BY SoundStep DEF InOrder, Next, Program
<1> QED BY <1>2, <1>3, <1>4, <1>5, <1>6, <1>7, <1>8, InOrderTrap

\* The debug exception after gdb's step.
LEMMA InOrderDebugTrap ==
  ASSUME InOrder, DebugTrap
  PROVE  InOrder'
<1> DEFINE frame == Interrupted("run", TRUE)
<1>1. kdb \in Machines /\ OthersTyped /\ MaxLevel \in Nat /\ TracesInPlace BY InOrderFacts
<1>2. kdb.stack = <<>> /\ kdb.attached /\ Breaking BY <1>1 DEF TracesInPlace, DebugTrap
<1>3. /\ trace' = FALSE /\ kdb' = EnterIsr(kdb, "hard", frame) /\ eip' = "run"
      /\ UNCHANGED <<stint, original, session, host, outstanding>>
  BY <1>2 DEF DebugTrap
<1>4. frame = Image(0, stint, "run", TRUE)
  <2>1. Level(kdb) = 0 BY <1>1, <1>2, EmptyStack
  <2> QED BY <1>2, <2>1 DEF Interrupted
<1>5. frame \in Images
  <2> HIDE DEF frame
  <2> QED BY <1>1, <1>4 DEF OthersTyped, Image, Images
<1>6. frame.of = 0 /\ frame.stint = stint /\ frame.eip = "run"
  <2> HIDE DEF frame
  <2> QED BY <1>4 DEF Image
<1> HIDE DEF frame
<1>7. Sound' BY SoundStep DEF InOrder, Next, Program
<1> QED BY <1>2, <1>3, <1>5, <1>6, <1>7, InOrderTrap

\* The serial interrupt comes only where no serial handler is at work.
LEMMA InOrderUartInterrupt ==
  ASSUME InOrder, UartInterrupt
  PROVE  InOrder'
<1> DEFINE pc == IF kdb.stack = <<>> THEN eip ELSE "run"
           frame == Interrupted(pc, FALSE)
<1>1. /\ TypeOK /\ kdb \in Machines /\ Level(kdb) \in Nat
      /\ FramesInPlace /\ ContextInPlace /\ CharactersInPlace
      /\ TracesInPlace /\ LineInPlace /\ BytesInPlace
  BY InOrderFacts
<1>2. IsInterrupted(kdb', kdb, frame) BY <1>1, UartEffect
<1>3. /\ frame.of = Level(kdb) /\ frame.eip = pc /\ frame.tf = FALSE
      /\ kdb.stack = <<>> => frame.stint = stint
  BY DEF Interrupted, Image
<1>4. UNCHANGED <<eip, stint, trace, original, session, host, outstanding>>
      /\ kdb.interrupts /\ ~kdb.inService /\ ~trace
  BY DEF UartInterrupt, Step, Interruptible, Requested
<1> HIDE DEF frame
<1>5. /\ Level(kdb') = Level(kdb) + 1
      /\ \A n \in 1 .. Level(kdb) : kdb'.stack[n] = kdb.stack[n]
      /\ kdb'.stack[Level(kdb')].kind = "uart"
      /\ kdb'.stack[Level(kdb')].at = IF kdb.rx = <<>> THEN "ack" ELSE "get"
      /\ kdb'.stack[Level(kdb')].frame = frame
      /\ ~kdb'.interrupts /\ kdb'.inService /\ kdb'.savedContext = Level(kdb')
      /\ kdb' \in Machines
  BY <1>2 DEF IsInterrupted, Alike
<1>6. /\ kdb'.panicked = kdb.panicked /\ kdb'.suspended = kdb.suspended
      /\ kdb'.currentContext = kdb.currentContext /\ kdb'.registers = kdb.registers
      /\ kdb'.attached = kdb.attached /\ kdb'.rx = kdb.rx /\ kdb'.sentToHost = kdb.sentToHost
      /\ kdb'.byte = kdb.byte
  BY <1>2 DEF IsInterrupted, Alike, Fields
<1>7. ~AtWork BY <1>4 DEF AtWork
<1>8. Breaking' <=> Breaking BY <1>4 DEF Breaking
<1>9. Level(kdb) > 0 => kdb'.stack[1] = kdb.stack[1] BY <1>1, <1>5
<1>10. Level(kdb) = 0 <=> kdb.stack = <<>> BY <1>1, EmptyStack
<1>11. ExceptionBelow' => ExceptionBelow BY <1>1, <1>5, <1>9 DEF ExceptionBelow
<1>12. FramesInPlace'
  <2>1. SUFFICES ASSUME NEW n \in 1 .. Level(kdb) + 1
                 PROVE  /\ kdb'.stack[n].frame.of = n - 1
                        /\ n = 1 => kdb'.stack[n].frame.stint = stint'
                        /\ n > 1 => /\ kdb'.stack[n].kind = "uart"
                                    /\ ~kdb'.stack[n].frame.tf /\ kdb'.stack[n].frame.eip = "run"
                        /\ n < Level(kdb') => kdb'.stack[n].at # "get"
    BY <1>5 DEF FramesInPlace
  <2>2. CASE n = Level(kdb) + 1
    <3>1. n = 1 => frame.stint = stint' BY <1>1, <1>3, <1>4, <1>10, <2>2
    <3>2. n > 1 => pc = "run" BY <1>1, <1>10, <2>2
    <3> QED BY <1>1, <1>3, <1>5, <2>2, <3>1, <3>2
  <2>3. CASE n \in 1 .. Level(kdb)
    <3>1. n = Level(kdb) => kdb.stack[n].at # "get"
      BY <1>1, <1>7, <2>3 DEF CharactersInPlace
    <3> QED BY <1>1, <1>4, <1>5, <2>3, <3>1 DEF FramesInPlace
  <2> QED BY <1>1, <2>1, <2>2, <2>3
<1>13. ContextInPlace'
  <2>1. \A c : RegistersOf(c)' <=> RegistersOf(c) BY <1>4, <1>6 DEF RegistersOf
  <2>2. ASSUME kdb.suspended
        PROVE  /\ kdb.currentContext \in 1 .. Level(kdb)
               /\ Level(kdb) <= kdb.currentContext
    BY <1>1, <1>7, <2>2 DEF ContextInPlace, CharactersInPlace
  <2> QED BY <1>1, <1>5, <1>6, <1>8, <1>11, <2>1, <2>2 DEF ContextInPlace
<1>14. CharactersInPlace'
  <2>1. AtWork' BY <1>1, <1>5 DEF AtWork
  <2>2. (Breaking /\ ~kdb.attached /\ ~kdb.suspended) => Level(kdb) = 0
    BY <1>1, <1>7 DEF CharactersInPlace
  <2> QED BY <1>1, <1>5, <1>6, <1>8, <2>1, <2>2 DEF CharactersInPlace
<1>15. TracesInPlace'
  <2>1. Level(kdb) = 0 => ~kdb'.stack[1].frame.tf BY <1>3, <1>5
  <2> QED BY <1>1, <1>4, <1>6, <1>8, <1>9, <2>1 DEF TracesInPlace
<1>16. LineInPlace'
  <2>1. kdb.suspended => Level(kdb) > 0 BY <1>1 DEF ContextInPlace
  <2> QED BY <1>1, <1>4, <1>6, <1>9, <2>1, LineStays
<1>17. BytesInPlace'
  <2>1. kdb'.stack # <<>> BY <1>1, <1>5, EmptyStack
  <2>2. Level(kdb) = 0 => kdb'.stack[1].frame.eip = eip BY <1>3, <1>5, <1>10
  <2>3. (original = "code" /\ ~kdb.suspended) => kdb'.stack[1].frame.eip # "after"
    BY <1>1, <1>9, <1>10, <2>2 DEF BytesInPlace, BreakpointsTakenOut
  <2>4. Interrupting => eip = "run" /\ kdb'.stack[1].frame.eip = "run"
    BY <1>1, <1>9, <2>2 DEF BytesInPlace
  <2> QED BY <1>1, <1>4, <1>6, <1>11, <2>1, <2>3, <2>4, BytesStay
<1>18. Sound' BY SoundStep DEF InOrder, Next
<1> QED BY <1>12, <1>13, <1>14, <1>15, <1>16, <1>17, <1>18 DEF InOrder

\* A serial handler returns to what it interrupted.
LEMMA InOrderLeaveUart ==
  ASSUME InOrder, LeaveUart
  PROVE  InOrder'
<1>1. /\ TypeOK /\ kdb \in Machines /\ Level(kdb) \in Nat
      /\ FramesInPlace /\ ContextInPlace /\ CharactersInPlace
      /\ TracesInPlace /\ LineInPlace /\ BytesInPlace
  BY InOrderFacts
<1>2. IsReturned(kdb', kdb, {"inService"}) /\ ~kdb'.inService /\ Level(kdb) > 0
  BY <1>1, LeaveUartEffect
<1>3. /\ kdb.stack[Level(kdb)].kind = "uart" /\ kdb.stack[Level(kdb)].at = "ack" /\ ~trace
      /\ eip' = IF Level(kdb) = 1 THEN kdb.stack[Level(kdb)].frame.eip ELSE eip
      /\ stint' = IF Level(kdb) = 1 THEN stint + 1 ELSE stint
      /\ trace' = kdb.stack[Level(kdb)].frame.tf
      /\ UNCHANGED <<original, session, host, outstanding>>
  BY DEF LeaveUart, OnTop, Iret, Top, Level
<1>4. /\ Level(kdb') = Level(kdb) - 1 /\ kdb'.interrupts /\ kdb' \in Machines
      /\ \A n \in 1 .. Level(kdb) - 1 : kdb'.stack[n] = kdb.stack[n]
      /\ Level(kdb) = 1 => kdb'.stack = <<>>
  BY <1>2 DEF IsReturned, Alike
<1>5. /\ kdb'.panicked = kdb.panicked /\ kdb'.suspended = kdb.suspended
      /\ kdb'.currentContext = kdb.currentContext /\ kdb'.registers = kdb.registers
      /\ kdb'.attached = kdb.attached /\ kdb'.rx = kdb.rx /\ kdb'.sentToHost = kdb.sentToHost
      /\ kdb'.byte = kdb.byte /\ kdb'.irr = kdb.irr
  BY <1>2 DEF IsReturned, Alike, Fields
<1>6. Breaking' <=> Breaking BY <1>3 DEF Breaking
<1>7. Level(kdb) > 1 => kdb'.stack[1] = kdb.stack[1] /\ stint' = stint BY <1>1, <1>3, <1>4
<1>8. ExceptionBelow' => ExceptionBelow /\ Level(kdb) > 1
  BY <1>1, <1>4, <1>7 DEF ExceptionBelow
<1>9. kdb.suspended => kdb.currentContext \in 1 .. Level(kdb) - 1
  BY <1>1, <1>3 DEF ContextInPlace
<1>10. FramesInPlace' BY <1>1, <1>3, <1>4 DEF FramesInPlace
<1>11. ContextInPlace'
  <2>1. Level(kdb) > 1 => \A c : RegistersOf(c)' <=> RegistersOf(c) BY <1>5, <1>7 DEF RegistersOf
  <2>2. kdb.suspended => kdb'.stack[kdb.currentContext] = kdb.stack[kdb.currentContext]
    BY <1>4, <1>9
  <2>3. kdb.suspended => Level(kdb) > 1 BY <1>1, <1>9
  <2> QED BY <1>1, <1>4, <1>5, <1>6, <1>8, <1>9, <2>1, <2>2, <2>3 DEF ContextInPlace
<1>12. CharactersInPlace'
  <2>1. Level(kdb) > 1 => kdb'.stack[Level(kdb')].at # "get"
    BY <1>1, <1>4 DEF FramesInPlace
  <2>2. kdb.rx # <<>> => kdb.irr BY <1>1, <1>3 DEF CharactersInPlace
  <2>3. kdb.suspended => Level(kdb') <= kdb.currentContext BY <1>1, <1>4, <1>9 DEF ContextInPlace
  <2>4. (Breaking /\ ~kdb.attached /\ ~kdb.suspended) => Level(kdb') = 0
    BY <1>1, <1>2, <1>4 DEF CharactersInPlace
  <2>5. Level(kdb') > 0 => Level(kdb) > 1 BY <1>1, <1>4
  <2> QED BY <1>1, <1>2, <1>4, <1>5, <1>6, <1>9, <2>1, <2>2, <2>3, <2>4, <2>5 DEF CharactersInPlace
<1>13. TracesInPlace'
  <2>1. trace' => Level(kdb) = 1
    <3>1. Level(kdb) \in 1 .. Level(kdb) BY <1>1, <1>2
    <3>2. Level(kdb) > 1 => ~kdb.stack[Level(kdb)].frame.tf BY <1>1, <3>1 DEF FramesInPlace
    <3>3. Level(kdb) > 1 \/ Level(kdb) = 1 BY <1>1, <1>2
    <3> QED BY <1>3, <3>2, <3>3
  <2>2. (trace' \/ kdb'.registers.tf) => kdb.attached /\ Breaking
    BY <1>1, <1>2, <1>3, <1>5, <2>1 DEF TracesInPlace
  <2>3. ~(kdb.attached /\ Breaking) => (Level(kdb') > 0 => ~kdb'.stack[1].frame.tf)
    BY <1>1, <1>4, <1>7 DEF TracesInPlace
  <2> QED BY <1>4, <1>5, <1>6, <2>1, <2>2, <2>3 DEF TracesInPlace
<1>14. LineInPlace'
  <2>1. kdb.suspended => Level(kdb) > 1 BY <1>1, <1>9
  <2> QED BY <1>1, <1>3, <1>5, <1>7, <2>1, LineStays
<1>15. BytesInPlace'
  <2>1. Level(kdb) = 1 => ~kdb.suspended BY <1>9
  <2>2. kdb'.stack = <<>> => Level(kdb) = 1 BY <1>1, <1>4, EmptyStack
  <2>3. original = "code" => /\ kdb'.stack = <<>> => eip' # "after"
                             /\ (Level(kdb') > 0 /\ ~kdb.suspended) =>
                                   kdb'.stack[1].frame.eip # "after"
    BY <1>1, <1>2, <1>3, <1>4, <1>7, <2>1, <2>2 DEF BytesInPlace, BreakpointsTakenOut
  <2>4. Interrupting => /\ eip' = "run"
                        /\ Level(kdb') > 0 => kdb'.stack[1].frame.eip = "run"
    BY <1>1, <1>2, <1>3, <1>4, <1>7 DEF BytesInPlace
  <2> QED BY <1>1, <1>3, <1>5, <1>8, <2>3, <2>4, BytesStay
<1>16. Sound' BY SoundStep DEF InOrder, Next, Handlers
<1> QED BY <1>10, <1>11, <1>12, <1>13, <1>14, <1>15, <1>16 DEF InOrder

\* The handler of an exception returns to the program.
LEMMA InOrderLeaveIsr ==
  ASSUME InOrder, LeaveIsr
  PROVE  InOrder'
<1>1. /\ TypeOK /\ kdb \in Machines /\ Level(kdb) \in Nat
      /\ FramesInPlace /\ ContextInPlace /\ CharactersInPlace
      /\ TracesInPlace /\ LineInPlace /\ BytesInPlace
  BY InOrderFacts
<1>2. IsReturned(kdb', kdb, {"currentContext"}) /\ Level(kdb) > 0
  BY <1>1, LeaveIsrEffect
<1>3. /\ kdb.stack[Level(kdb)].kind # "uart" /\ kdb.stack[Level(kdb)].at # "spin"
  BY DEF LeaveIsr, OnTop, Top
<1>4. Level(kdb) = 1
  <2>1. Level(kdb) \in 1 .. Level(kdb) BY <1>1, <1>2
  <2> QED BY <1>1, <1>2, <1>3, <2>1 DEF FramesInPlace
<1>5. /\ eip' = kdb.stack[1].frame.eip /\ trace' = kdb.stack[1].frame.tf
      /\ UNCHANGED <<original, session, host, outstanding>>
  BY <1>4 DEF LeaveIsr, Iret, Top, Level
<1>6. kdb' \in Machines /\ kdb'.stack = <<>> /\ Level(kdb') = 0
  BY <1>2, <1>4 DEF IsReturned, Alike
<1>7. /\ kdb'.panicked = kdb.panicked /\ kdb'.suspended = kdb.suspended
      /\ kdb'.registers = kdb.registers /\ kdb'.inService = kdb.inService
      /\ kdb'.attached = kdb.attached /\ kdb'.rx = kdb.rx /\ kdb'.sentToHost = kdb.sentToHost
      /\ kdb'.byte = kdb.byte /\ kdb'.irr = kdb.irr /\ kdb'.interrupts
  BY <1>2 DEF IsReturned, Alike, Fields
<1>8. ~kdb.suspended BY <1>1, <1>3, <1>4 DEF ContextInPlace
<1>9. ~AtWork BY <1>3 DEF AtWork
<1>10. ~ExceptionBelow' BY <1>6 DEF ExceptionBelow
<1>11. Breaking' <=> Breaking BY <1>5 DEF Breaking
<1>12. FramesInPlace' BY <1>6 DEF FramesInPlace
<1>13. ContextInPlace' BY <1>1, <1>7, <1>8, <1>10 DEF ContextInPlace
<1>14. CharactersInPlace' BY <1>1, <1>6, <1>7, <1>8, <1>9 DEF CharactersInPlace
<1>15. TracesInPlace'
  <2>1. (trace' \/ kdb'.registers.tf) => kdb.attached /\ Breaking
    BY <1>1, <1>4, <1>5, <1>7 DEF TracesInPlace
  <2> QED BY <1>6, <1>7, <1>11, <2>1 DEF TracesInPlace
<1>16. LineInPlace' BY <1>1, <1>5, <1>7, <1>8, LineStays
<1>17. BytesInPlace'
  <2>1. original = "code" => eip' # "after"
    BY <1>1, <1>4, <1>5, <1>8 DEF BytesInPlace, BreakpointsTakenOut
  <2>2. Interrupting => eip' = "run" BY <1>1, <1>4, <1>5 DEF BytesInPlace
  <2> QED BY <1>1, <1>5, <1>6, <1>7, <1>10, <2>1, <2>2, BytesStay
<1>18. Sound' BY SoundStep DEF InOrder, Next, Handlers
<1> QED BY <1>12, <1>13, <1>14, <1>15, <1>16, <1>17, <1>18 DEF InOrder

\* The end of the int3 handler.  The byte it finds is not one that gdb planted.
LEMMA InOrderCheckBreakpoint ==
  ASSUME InOrder, CheckBreakpoint
  PROVE  InOrder'
<1> DEFINE behind == [kdb EXCEPT !.registers.eip = "after"]
           r == Restore(behind)
<1>1. /\ TypeOK /\ kdb \in Machines /\ Level(kdb) \in Nat
      /\ FramesInPlace /\ ContextInPlace /\ CharactersInPlace
      /\ TracesInPlace /\ LineInPlace /\ BytesInPlace
  BY InOrderFacts
<1>2. Level(kdb) > 0 BY <1>1, EmptyStack DEF CheckBreakpoint, OnTop
<1>3. kdb.stack[Level(kdb)].kind = "soft" /\ kdb.stack[Level(kdb)].at = "check"
  BY DEF CheckBreakpoint, OnTop, Top
<1>4. Level(kdb) = 1
  <2>1. Level(kdb) \in 1 .. Level(kdb) BY <1>1, <1>2
  <2> QED BY <1>1, <1>2, <1>3, <2>1 DEF FramesInPlace
<1>5. ~kdb.suspended BY <1>1, <1>3, <1>4 DEF ContextInPlace
<1>6. ~AtWork BY <1>3 DEF AtWork
<1>7. ExceptionBelow BY <1>3, <1>4 DEF ExceptionBelow
<1>8. /\ kdb' = Goto(IF kdb.registers.eip = "at" /\ kdb.byte = "int3" THEN r ELSE kdb, "leave")
      /\ UNCHANGED <<eip, stint, trace, original, session, host, outstanding>>
  BY DEF CheckBreakpoint, Step
<1>9. "leave" \in Labels BY DEF Labels
<1>10. Sound' BY SoundStep DEF InOrder, Next, Handlers
<1>11. CASE ~(kdb.registers.eip = "at" /\ kdb.byte = "int3")
  <2>1. kdb' = Goto(kdb, "leave") BY <1>8, <1>11
  <2>2. /\ Alike(kdb', kdb, {"stack"}) /\ Level(kdb') = Level(kdb)
        /\ kdb'.stack[Level(kdb)].at = "leave"
    BY <1>1, <1>2, <1>9, <2>1, GotoEffect
  <2>3. CharactersInPlace'
    <3>1. /\ kdb'.inService = kdb.inService /\ kdb'.interrupts = kdb.interrupts
          /\ kdb'.rx = kdb.rx /\ kdb'.irr = kdb.irr
          /\ kdb'.suspended = kdb.suspended /\ kdb'.attached = kdb.attached
      BY <2>2 DEF Alike, Fields
    <3>2. Breaking' <=> Breaking BY <1>8 DEF Breaking
    <3> QED BY <1>1, <1>4, <1>5, <1>6, <2>2, <3>1, <3>2 DEF CharactersInPlace
  <2> QED BY <1>2, <1>5, <1>8, <1>9, <1>10, <2>1, <2>3, InOrderGoto
<1>12. CASE kdb.registers.eip = "at" /\ kdb.byte = "int3"
  <2>1. original = "int3"
    <3>1. original \in {"int3", "code"} BY <1>1 DEF TypeOK
    <3> QED BY <1>1, <1>5, <1>7, <1>12, <3>1 DEF BytesInPlace, BreakpointsTakenOut
  <2>2. kdb.currentContext = 1 /\ RegistersOf(1) /\ Breaking /\ (kdb.attached \/ kdb.suspended)
    BY <1>1, <1>7 DEF ContextInPlace
  <2>3. /\ Alike(behind, kdb, {"registers"})
        /\ behind.registers = [kdb.registers EXCEPT !.eip = "after"]
    BY <1>1 DEF Alike, Fields, Machines, Images
  <2>4. kdb.registers \in Images BY <1>1 DEF Machines
  <2>5. /\ behind.registers.of = kdb.registers.of /\ behind.registers.stint = kdb.registers.stint
        /\ behind.registers.tf = kdb.registers.tf
    BY <2>3, <2>4 DEF Images
  <2> HIDE DEF behind
  <2>6. /\ behind \in Machines /\ behind.stack = kdb.stack /\ behind.currentContext = 1
        /\ Level(behind) = 1
    BY <1>4, <2>2, <2>3 DEF Alike, Fields, Level
  <2>7. 1 \in 1 .. 1 OBVIOUS
  <2>8. /\ Alike(r, behind, {"stack"}) /\ Level(r) = 1
        /\ r.stack[1].kind = kdb.stack[1].kind /\ r.stack[1].frame = behind.registers
    BY <2>6, <2>7, RestoreEffect
  <2> HIDE DEF r
  <2>9. r \in Machines /\ Level(r) > 0 BY <2>8 DEF Alike
  <2>10. kdb' = Goto(r, "leave") BY <1>8, <1>12
  <2>11. /\ Alike(kdb', r, {"stack"}) /\ Level(kdb') = 1
         /\ kdb'.stack[1].kind = kdb.stack[1].kind /\ kdb'.stack[1].frame = behind.registers
         /\ kdb'.stack[1].at = "leave"
    BY <1>9, <2>7, <2>8, <2>9, <2>10, GotoEffect
  <2>12. Alike(kdb', kdb, {"stack", "registers"}) /\ kdb'.registers = behind.registers
    BY <2>3, <2>8, <2>11 DEF Alike, Fields
  <2>13. /\ kdb'.panicked = kdb.panicked /\ kdb'.suspended = kdb.suspended
         /\ kdb'.currentContext = kdb.currentContext
         /\ kdb'.inService = kdb.inService /\ kdb'.interrupts = kdb.interrupts
         /\ kdb'.attached = kdb.attached /\ kdb'.rx = kdb.rx /\ kdb'.sentToHost = kdb.sentToHost
         /\ kdb'.byte = kdb.byte /\ kdb'.irr = kdb.irr
    BY <2>12 DEF Alike, Fields
  <2>14. Breaking' <=> Breaking BY <1>8 DEF Breaking
  <2>15. RegistersOf(1)' BY <1>8, <2>2, <2>5, <2>12 DEF RegistersOf
  <2>16. FramesInPlace' BY <2>11, <2>12, <2>15 DEF FramesInPlace, RegistersOf
  <2>17. ContextInPlace' BY <1>1, <1>5, <2>2, <2>13, <2>14, <2>15 DEF ContextInPlace
  <2>18. CharactersInPlace'
    BY <1>1, <1>4, <1>5, <1>6, <2>11, <2>13, <2>14 DEF CharactersInPlace
  <2>19. TracesInPlace'
    <3>1. ~trace BY DEF CheckBreakpoint, OnTop
    <3> QED BY <1>1, <1>8, <2>5, <2>11, <2>12, <2>13, <2>14, <3>1 DEF TracesInPlace
  <2>20. LineInPlace' BY <1>1, <1>5, <1>8, <2>13, LineStays
  <2>21. BytesInPlace'
    <3>1. ~Interrupting' BY <1>1, <1>8, <1>12 DEF BytesInPlace, Interrupting
    <3> QED BY <1>1, <1>8, <2>1, <2>13, <3>1 DEF BytesInPlace
  <2> QED BY <1>10, <2>16, <2>17, <2>18, <2>19, <2>20, <2>21 DEF InOrder
<1> QED BY <1>11, <1>12

\* gdb sends while nothing is on its way.
LEMMA InOrderSend ==
  ASSUME InOrder, NEW item \in Items, Send(item), kdb.rx = <<>>,
         LineInPlace', BytesInPlace', Sound'
  PROVE  InOrder'
<1>1. /\ TypeOK /\ kdb \in Machines
      /\ FramesInPlace /\ ContextInPlace /\ CharactersInPlace /\ TracesInPlace
  BY InOrderFacts
<1>2. Alike(kdb', kdb, {"rx", "irr"}) /\ kdb'.irr BY <1>1, SendEffect
<1>3. /\ kdb'.stack = kdb.stack
      /\ kdb'.panicked = kdb.panicked /\ kdb'.suspended = kdb.suspended
      /\ kdb'.currentContext = kdb.currentContext /\ kdb'.savedContext = kdb.savedContext
      /\ kdb'.registers = kdb.registers /\ kdb'.attached = kdb.attached
      /\ kdb'.inService = kdb.inService /\ kdb'.interrupts = kdb.interrupts
  BY <1>2 DEF Alike, Fields
<1>4. Level(kdb') = Level(kdb) BY <1>3 DEF Level
<1>5. UNCHANGED <<eip, stint, trace, original, session>> BY DEF Send
<1>6. (Breaking' <=> Breaking) /\ (ExceptionBelow' <=> ExceptionBelow) /\ (AtWork' <=> AtWork)
  BY <1>3, <1>4, <1>5 DEF Breaking, ExceptionBelow, AtWork
<1>7. FramesInPlace' BY <1>1, <1>3, <1>4, <1>5, FramesStay
<1>8. ContextInPlace' BY <1>1, <1>3, <1>4, <1>5, <1>6 DEF ContextInPlace, RegistersOf
<1>9. CharactersInPlace' BY <1>1, <1>2, <1>3, <1>4, <1>6 DEF CharactersInPlace
<1>10. TracesInPlace' BY <1>1, <1>3, <1>4, <1>5, <1>6 DEF TracesInPlace
<1> QED BY <1>7, <1>8, <1>9, <1>10 DEF InOrder

\* The program's part in the sending of an item.
LEMMA BytesOfSend ==
  ASSUME InOrder, NEW item \in Items, Send(item),
         outstanding' \in {"insert", "remove"} => original = "code",
         outstanding' = "insert" => kdb.registers.eip = "run",
         (original = "code" /\ kdb.registers.eip = "at" /\ outstanding' \in {"continue", "step"}
            /\ kdb'.rx = <<outstanding'>>) => kdb.byte = "code"
  PROVE  BytesInPlace'
<1>1. TypeOK /\ BytesInPlace BY InOrderFacts
<1>2. Alike(kdb', kdb, {"rx", "irr"}) BY <1>1, SendEffect
<1>3. /\ kdb'.stack = kdb.stack /\ kdb'.suspended = kdb.suspended
      /\ kdb'.registers = kdb.registers /\ kdb'.attached = kdb.attached /\ kdb'.byte = kdb.byte
  BY <1>2 DEF Alike, Fields
<1>4. Level(kdb') = Level(kdb) BY <1>3 DEF Level
<1>5. UNCHANGED <<eip, stint, trace, original, session>> BY DEF Send
<1>6. (Interrupting' <=> Interrupting) /\ (ExceptionBelow' <=> ExceptionBelow)
  BY <1>3, <1>4, <1>5 DEF Interrupting, ExceptionBelow
<1>7. original = "code" => BreakpointsTakenOut'
  BY <1>1, <1>3, <1>4, <1>5, <1>6 DEF BytesInPlace, BreakpointsTakenOut
<1> QED BY <1>1, <1>3, <1>4, <1>5, <1>6, <1>7 DEF BytesInPlace

\* The first packet finds a debugger that is not attached.
LEMMA InOrderAttach ==
  ASSUME InOrder, Attach
  PROVE  InOrder'
<1>1. TypeOK /\ LineInPlace BY InOrderFacts
<1>2. /\ host = "detached" /\ outstanding = "none" /\ kdb.sentToHost = <<>>
      /\ outstanding' = "getSignal" /\ Send("getSignal") /\ host' = host /\ session' = session
  BY DEF Attach, SendPacket, Send
<1>3. "getSignal" \in Items BY DEF Items
<1>4. ~kdb.attached /\ Unattached
  <2>1. ~Underway /\ ~Reporting /\ ~Commanded /\ ~Detaching
    BY <1>2 DEF Underway, Reporting, Commanded, Detaching
  <2>2. ~Attaching BY <1>2 DEF Attaching
  <2> QED BY <1>1, <2>1, <2>2 DEF LineInPlace
<1>5. kdb.rx = <<>> BY <1>2, <1>4 DEF Unattached
<1>6. kdb'.rx = <<"getSignal">> /\ Alike(kdb', kdb, {"rx", "irr"})
  BY <1>1, <1>2, <1>3, <1>5, SendEffect, Packets
<1>7. /\ kdb'.stack = kdb.stack /\ kdb'.suspended = kdb.suspended
      /\ kdb'.attached = kdb.attached /\ kdb'.sentToHost = kdb.sentToHost
  BY <1>6 DEF Alike, Fields
<1>8. LineInPlace'
  <2>1. Unattached' BY <1>2, <1>6, <1>7 DEF Unattached
  <2> QED BY <1>1, <1>2, <1>4, <1>7, <2>1 DEF LineInPlace
<1>9. BytesInPlace' BY <1>2, <1>3, BytesOfSend
<1>10. Sound' BY SoundStep DEF InOrder, Next, Host
<1> QED BY <1>2, <1>3, <1>5, <1>8, <1>9, <1>10, InOrderSend

\* A command finds a machine that is stopped.
LEMMA InOrderCommand ==
  ASSUME InOrder, NEW command \in session.commands \ {"interrupt"}, Command(command)
  PROVE  InOrder'
<1>1. TypeOK /\ LineInPlace BY InOrderFacts
<1>2. command \in {"continue", "step", "detach", "insert", "remove"}
  <2>1. session \in Sessions BY <1>1 DEF TypeOK
  <2> QED BY <2>1, KdbAssumption
<1>3. command \in Items BY <1>2 DEF Items
<1>4. /\ host = "stopped" /\ outstanding = "none" /\ kdb.sentToHost = <<>>
      /\ outstanding' = command /\ Send(command) /\ host' = host /\ session' = session
  BY DEF Command, SendPacket, Send
<1>5. kdb.attached /\ kdb.suspended /\ Commanded
  <2>1. ~Underway /\ ~Reporting /\ ~Unattached /\ ~Detaching
    BY <1>4 DEF Underway, Reporting, Unattached, Detaching
  <2>2. ~Attaching BY <1>4 DEF Attaching
  <2> QED BY <1>1, <2>1, <2>2 DEF LineInPlace
<1>6. kdb.rx = <<>> BY <1>4, <1>5 DEF Commanded
<1>7. kdb'.rx = <<command>> /\ Alike(kdb', kdb, {"rx", "irr"})
  BY <1>1, <1>3, <1>4, <1>6, SendEffect, Packets
<1>8. /\ kdb'.stack = kdb.stack /\ kdb'.suspended = kdb.suspended
      /\ kdb'.attached = kdb.attached /\ kdb'.sentToHost = kdb.sentToHost
  BY <1>7 DEF Alike, Fields
<1>9. LineInPlace'
  <2>1. Commanded' BY <1>2, <1>4, <1>7, <1>8 DEF Commanded
  <2> QED BY <1>1, <1>4, <1>5, <1>8, <2>1 DEF LineInPlace
<1>10. BytesInPlace'
  <2>1. kdb.byte \in {"int3", "code"} BY <1>1 DEF TypeOK, Machines
  <2>2. outstanding' \in {"insert", "remove"} => original = "code"
    BY <1>4 DEF Command, PlantedByHost
  <2>3. outstanding' = "insert" => kdb.registers.eip = "run" BY <1>4 DEF Command
  <2>4. (original = "code" /\ kdb.registers.eip = "at" /\ outstanding' \in {"continue", "step"})
           => kdb.byte = "code"
    BY <1>4, <2>1 DEF Command, PlantedByHost
  <2> QED BY <1>3, <1>4, <2>2, <2>3, <2>4, BytesOfSend
<1>11. Sound' BY SoundStep DEF InOrder, Next, Host
<1> QED BY <1>3, <1>4, <1>6, <1>9, <1>10, <1>11, InOrderSend

\* CTRL-C is for a machine that runs.
LEMMA InOrderInterrupt ==
  ASSUME InOrder, Interrupt
  PROVE  InOrder'
<1>1. TypeOK /\ LineInPlace BY InOrderFacts
<1>2. /\ host = "running" /\ outstanding = "none" /\ "interrupt" \in session.commands
      /\ host' = "interrupting" /\ Send("^C") /\ outstanding' = outstanding /\ session' = session
  BY DEF Interrupt, Send
<1>3. "^C" \in Items BY DEF Items
<1>4. kdb.attached /\ ~kdb.suspended /\ Underway
  <2>1. ~Reporting /\ ~Attaching /\ ~Commanded /\ ~Unattached /\ ~Detaching
    BY <1>2 DEF Reporting, Attaching, Commanded, Unattached, Detaching
  <2> QED BY <1>1, <2>1 DEF LineInPlace
<1>5. kdb.rx = <<>> /\ kdb.sentToHost = <<>> BY <1>2, <1>4 DEF Underway
<1>6. kdb'.rx = <<"^C">> /\ Alike(kdb', kdb, {"rx", "irr"})
  BY <1>1, <1>2, <1>3, <1>5, SendEffect, Packets
<1>7. /\ kdb'.suspended = kdb.suspended
      /\ kdb'.attached = kdb.attached /\ kdb'.sentToHost = kdb.sentToHost
  BY <1>6 DEF Alike, Fields
<1>8. LineInPlace'
  <2>1. Underway' BY <1>2, <1>5, <1>6, <1>7, Packets DEF Underway
  <2> QED BY <1>1, <1>2, <1>4, <1>7, <2>1 DEF LineInPlace
<1>9. BytesInPlace' BY <1>2, <1>3, BytesOfSend
<1>10. Sound' BY SoundStep DEF InOrder, Next, Host
<1> QED BY <1>2, <1>3, <1>5, <1>8, <1>9, <1>10, InOrderSend

\* Only packets that can be executed twice are sent again.
LEMMA InOrderRetransmit ==
  ASSUME InOrder, Retransmit
  PROVE  InOrder'
<1>1. TypeOK /\ LineInPlace /\ BytesInPlace BY InOrderFacts
<1>2. /\ outstanding # "none" /\ kdb.rx = <<>> /\ kdb.sentToHost = <<>>
      /\ Send(outstanding) /\ UNCHANGED <<host, outstanding, session>>
  BY DEF Retransmit, Send
<1>3. outstanding \in Items BY <1>1, <1>2 DEF TypeOK
<1>4. kdb'.rx = <<outstanding>> /\ Alike(kdb', kdb, {"rx", "irr"})
  BY <1>1, <1>2, <1>3, SendEffect, Packets
<1>5. /\ kdb'.stack = kdb.stack /\ kdb'.suspended = kdb.suspended /\ kdb'.byte = kdb.byte
      /\ kdb'.attached = kdb.attached /\ kdb'.sentToHost = kdb.sentToHost
  BY <1>4 DEF Alike, Fields
<1>6. ~Underway /\ ~Reporting /\ ~Detaching
  BY <1>2 DEF Underway, Reporting, Detaching
<1>7. /\ kdb.attached => kdb.suspended /\ (Attaching \/ Commanded)
      /\ ~kdb.attached => Unattached
  BY <1>1, <1>6 DEF LineInPlace
<1>8. outstanding \notin {"continue", "step"}
  BY <1>2, <1>7 DEF Attaching, Commanded, Unattached
<1>9. LineInPlace'
  <2>1. Attaching => Attaching' BY <1>2, <1>4, <1>5 DEF Attaching
  <2>2. Commanded => Commanded' BY <1>2, <1>4, <1>5 DEF Commanded
  <2>3. Unattached => Unattached' BY <1>2, <1>4, <1>5 DEF Unattached
  <2> QED BY <1>1, <1>2, <1>5, <1>7, <2>1, <2>2, <2>3 DEF LineInPlace
<1>10. BytesInPlace' BY <1>1, <1>2, <1>3, <1>8, BytesOfSend DEF BytesInPlace
<1>11. Sound' BY SoundStep DEF InOrder, Next, Host
<1> QED BY <1>2, <1>3, <1>9, <1>10, <1>11, InOrderSend

\* A packet from the debugger leaves the line.
LEMMA InOrderRead ==
  ASSUME InOrder, kdb.sentToHost # <<>>, kdb' = [kdb EXCEPT !.sentToHost = Tail(@)],
         UNCHANGED <<eip, stint, trace, original, session>>,
         outstanding' \in {outstanding, "none"}, LineInPlace', Sound'
  PROVE  InOrder'
<1>1. /\ TypeOK /\ kdb \in Machines /\ FramesInPlace /\ ContextInPlace
      /\ CharactersInPlace /\ TracesInPlace /\ BytesInPlace
  BY InOrderFacts
<1>2. Alike(kdb', kdb, {"sentToHost"}) BY <1>1, ReadEffect
<1>3. /\ kdb'.stack = kdb.stack /\ kdb'.rx = kdb.rx /\ kdb'.irr = kdb.irr
      /\ kdb'.panicked = kdb.panicked /\ kdb'.suspended = kdb.suspended
      /\ kdb'.currentContext = kdb.currentContext /\ kdb'.savedContext = kdb.savedContext
      /\ kdb'.registers = kdb.registers /\ kdb'.attached = kdb.attached /\ kdb'.byte = kdb.byte
      /\ kdb'.inService = kdb.inService /\ kdb'.interrupts = kdb.interrupts
  BY <1>2 DEF Alike, Fields
<1>4. Level(kdb') = Level(kdb) BY <1>3 DEF Level
<1>5. /\ (Breaking' <=> Breaking) /\ (Interrupting' <=> Interrupting)
      /\ (ExceptionBelow' <=> ExceptionBelow) /\ (AtWork' <=> AtWork)
  BY <1>3, <1>4 DEF Breaking, Interrupting, ExceptionBelow, AtWork
<1>6. FramesInPlace' BY <1>1, <1>3, <1>4, FramesStay
<1>7. ContextInPlace' BY <1>1, <1>3, <1>4, <1>5 DEF ContextInPlace, RegistersOf
<1>8. CharactersInPlace' BY <1>1, <1>3, <1>4, <1>5 DEF CharactersInPlace
<1>9. TracesInPlace' BY <1>1, <1>3, <1>4, <1>5 DEF TracesInPlace
<1>10. BytesInPlace'
  <2>1. original = "code" => BreakpointsTakenOut'
    BY <1>1, <1>3, <1>4, <1>5 DEF BytesInPlace, BreakpointsTakenOut
  <2> QED BY <1>1, <1>3, <1>4, <1>5, <2>1 DEF BytesInPlace
<1> QED BY <1>6, <1>7, <1>8, <1>9, <1>10 DEF InOrder

\* gdb reads, case by case of what is on the line.
LEMMA InOrderHostReceives ==
  ASSUME InOrder, HostReceives
  PROVE  InOrder'
<1>1. TypeOK /\ LineInPlace BY InOrderFacts
<1>2. /\ kdb.sentToHost # <<>> /\ kdb' = [kdb EXCEPT !.sentToHost = Tail(@)]
      /\ UNCHANGED <<eip, stint, trace, original, session>>
  BY DEF HostReceives
<1> DEFINE packet == Head(kdb.sentToHost)
<1>3. \/ /\ packet = "+" /\ outstanding' = "none"
         /\ host' = IF outstanding \in {"continue", "step"} THEN "running" ELSE
                    IF outstanding = "detach" THEN "detached" ELSE host
      \/ /\ packet # "+" /\ outstanding' = outstanding
         /\ host' = IF packet \in {"T", "S"} /\ outstanding = "none" THEN "stopped" ELSE host
  BY DEF HostReceives
<1>4. Alike(kdb', kdb, {"sentToHost"}) /\ kdb'.sentToHost = Tail(kdb.sentToHost)
  BY <1>1, <1>2, ReadEffect
<1>5. /\ kdb'.stack = kdb.stack /\ kdb'.rx = kdb.rx
      /\ kdb'.suspended = kdb.suspended /\ kdb'.attached = kdb.attached
  BY <1>4 DEF Alike, Fields
<1>6. outstanding' \in {outstanding, "none"} BY <1>3
<1>7. host' = "interrupting" => host = "interrupting" BY <1>3
<1>8. ASSUME NEW a, kdb.sentToHost = <<a>>
      PROVE  packet = a /\ kdb'.sentToHost = <<>>
  BY <1>4, <1>8, Packets
<1>9. ASSUME NEW a, NEW b, kdb.sentToHost = <<a, b>>
      PROVE  packet = a /\ kdb'.sentToHost = <<b>>
  BY <1>4, <1>9, Packets
<1> HIDE DEF packet
<1>10. Underway => Underway'
  <2>1. SUFFICES ASSUME Underway PROVE Underway' OBVIOUS
  <2>2. kdb.sentToHost = <<"+">> BY <1>2, <2>1 DEF Underway
  <2>3. host = "stopped" /\ outstanding \in {"continue", "step"} /\ kdb.rx = <<>>
    BY <2>1, <2>2 DEF Underway
  <2>4. packet = "+" /\ kdb'.sentToHost = <<>> BY <1>8, <2>2
  <2>5. host' = "running" /\ outstanding' = "none" BY <1>3, <2>3, <2>4
  <2>6. <<>> # <<"+">> BY ONLY Packets
  <2> QED BY <1>5, <2>3, <2>4, <2>5, <2>6 DEF Underway
<1>11. Reporting => Reporting' \/ Commanded'
  <2>1. SUFFICES ASSUME Reporting PROVE Reporting' \/ Commanded' OBVIOUS
  <2>2. CASE kdb.sentToHost = <<"+", "T">> /\ host = "stopped" /\ outstanding \in {"continue", "step"}
    <3>1. packet = "+" /\ kdb'.sentToHost = <<"T">> BY <1>9, <2>2
    <3>2. host' = "running" /\ outstanding' = "none" BY <1>3, <2>2, <3>1
    <3> QED BY <1>2, <1>5, <2>1, <2>2, <3>1, <3>2 DEF Reporting
  <2>3. CASE kdb.sentToHost = <<"T">> /\ host \in {"running", "interrupting"} /\ outstanding = "none"
    <3>1. packet = "T" /\ kdb'.sentToHost = <<>> BY <1>8, <2>3
    <3>2. host' = "stopped" /\ outstanding' = "none" BY <1>3, <2>3, <3>1
    <3> QED BY <1>5, <2>1, <3>1, <3>2 DEF Reporting, Commanded
  <2> QED BY <2>1, <2>2, <2>3 DEF Reporting
<1>12. Attaching => Attaching' \/ Commanded'
  <2>1. SUFFICES ASSUME Attaching PROVE Attaching' \/ Commanded' OBVIOUS
  <2>2. CASE kdb.rx = <<>> /\ outstanding = "getSignal" /\ kdb.sentToHost = <<"+", "S">>
    <3>1. packet = "+" /\ kdb'.sentToHost = <<"S">> BY <1>9, <2>2
    <3>2. host' = host /\ outstanding' = "none" BY <1>3, <2>2, <3>1
    <3> QED BY <1>5, <2>1, <2>2, <3>1, <3>2 DEF Attaching
  <2>3. CASE kdb.rx = <<>> /\ outstanding = "getSignal" /\ kdb.sentToHost = <<"S">>
    <3>1. packet = "S" /\ kdb'.sentToHost = <<>> BY <1>8, <2>3
    <3>2. host' = host /\ outstanding' = "getSignal" BY <1>3, <2>3, <3>1
    <3> QED BY <1>5, <2>1, <2>3, <3>1, <3>2 DEF Attaching
  <2>4. CASE kdb.rx = <<>> /\ outstanding = "none" /\ kdb.sentToHost = <<"S">>
    <3>1. packet = "S" /\ kdb'.sentToHost = <<>> BY <1>8, <2>4
    <3>2. host' = "stopped" /\ outstanding' = "none" BY <1>3, <2>4, <3>1
    <3> QED BY <1>5, <2>4, <3>1, <3>2 DEF Commanded
  <2> QED BY <1>2, <2>1, <2>2, <2>3, <2>4 DEF Attaching
<1>13. Commanded => Commanded'
  <2>1. SUFFICES ASSUME Commanded PROVE Commanded' OBVIOUS
  <2>2. CASE kdb.rx = <<>> /\ outstanding \in {"insert", "remove"} /\ kdb.sentToHost = <<"+", "OK">>
    <3>1. packet = "+" /\ kdb'.sentToHost = <<"OK">> BY <1>9, <2>2
    <3>2. host' = host /\ outstanding' = "none" BY <1>3, <2>2, <3>1
    <3> QED BY <1>5, <2>1, <2>2, <3>1, <3>2 DEF Commanded
  <2>3. CASE /\ kdb.rx = <<>> /\ outstanding \in {"insert", "remove", "none"}
             /\ kdb.sentToHost = <<"OK">>
    <3>1. packet = "OK" /\ kdb'.sentToHost = <<>> BY <1>8, <2>3
    <3>2. host' = host /\ outstanding' = outstanding BY <1>3, <3>1
    <3> QED BY <1>5, <2>1, <2>3, <3>1, <3>2 DEF Commanded
  <2> QED BY <1>2, <2>1, <2>2, <2>3 DEF Commanded
<1>14. ~Unattached BY <1>2 DEF Unattached
<1>15. Detaching => Unattached' \/ Detaching'
  <2>1. SUFFICES ASSUME Detaching PROVE Unattached' \/ Detaching' OBVIOUS
  <2>2. CASE host = "stopped" /\ outstanding = "detach" /\ kdb.sentToHost = <<"+", "OK">>
    <3>1. packet = "+" /\ kdb'.sentToHost = <<"OK">> BY <1>9, <2>2
    <3>2. host' = "detached" /\ outstanding' = "none" BY <1>3, <2>2, <3>1
    <3> QED BY <1>2, <1>5, <2>1, <3>1, <3>2 DEF Detaching
  <2>3. CASE host = "detached" /\ outstanding = "none" /\ kdb.sentToHost = <<"OK">>
    <3>1. packet = "OK" /\ kdb'.sentToHost = <<>> BY <1>8, <2>3
    <3>2. host' = host /\ outstanding' = "none" BY <1>3, <2>3, <3>1
    <3> QED BY <1>5, <2>1, <2>3, <3>1, <3>2 DEF Unattached, Detaching
  <2> QED BY <2>1, <2>2, <2>3 DEF Detaching
<1>16. LineInPlace'
  BY <1>1, <1>2, <1>5, <1>6, <1>7, <1>10, <1>11, <1>12, <1>13, <1>14, <1>15 DEF LineInPlace
<1>17. Sound' BY SoundStep DEF InOrder, Next, Host
<1> QED BY <1>2, <1>6, <1>16, <1>17, InOrderRead

\* The acknowledgements that are lost are not of packets that make it go on.
LEMMA InOrderLoseAck ==
  ASSUME SessionsInOrder, InOrder, LoseAck
  PROVE  InOrder'
<1>1. TypeOK /\ LineInPlace BY InOrderFacts
<1>2. /\ kdb.sentToHost # <<>> /\ Head(kdb.sentToHost) = "+"
      /\ kdb' = [kdb EXCEPT !.sentToHost = Tail(@)]
      /\ UNCHANGED <<eip, stint, trace, original, session, host, outstanding>>
      /\ outstanding \in session.lossy
  BY DEF LoseAck
<1>3. outstanding \in {"getSignal", "insert", "remove"}
  BY <1>1, <1>2, KindOfSession, BreakingCommands, InterruptingCommands
<1>4. Alike(kdb', kdb, {"sentToHost"}) /\ kdb'.sentToHost = Tail(kdb.sentToHost)
  BY <1>1, <1>2, ReadEffect
<1>5. /\ kdb'.stack = kdb.stack /\ kdb'.rx = kdb.rx
      /\ kdb'.suspended = kdb.suspended /\ kdb'.attached = kdb.attached
  BY <1>4 DEF Alike, Fields
<1>6. ASSUME NEW a, kdb.sentToHost = <<a>>
      PROVE  a = "+" /\ kdb'.sentToHost = <<>>
  BY <1>2, <1>4, <1>6, Packets
<1>7. ASSUME NEW a, NEW b, kdb.sentToHost = <<a, b>>
      PROVE  a = "+" /\ kdb'.sentToHost = <<b>>
  BY <1>2, <1>4, <1>7, Packets
<1>8. ~Underway
  <2>1. SUFFICES ASSUME Underway PROVE FALSE OBVIOUS
  <2>2. kdb.sentToHost = <<"+">> BY <1>2, <2>1 DEF Underway
  <2> QED BY <1>3, <2>1, <2>2 DEF Underway
<1>9. ~Reporting BY <1>3 DEF Reporting
<1>10. Attaching => Attaching'
  <2>1. SUFFICES ASSUME Attaching PROVE Attaching' OBVIOUS
  <2>2. kdb.sentToHost # <<"S">> BY <1>6
  <2>3. kdb.rx = <<>> /\ outstanding = "getSignal" /\ kdb.sentToHost = <<"+", "S">>
    BY <1>2, <2>1, <2>2 DEF Attaching
  <2>4. kdb'.sentToHost = <<"S">> BY <1>7, <2>3
  <2> QED BY <1>2, <1>5, <2>1, <2>3, <2>4 DEF Attaching
<1>11. Commanded => Commanded'
  <2>1. SUFFICES ASSUME Commanded PROVE Commanded' OBVIOUS
  <2>2. kdb.sentToHost # <<"OK">> BY <1>6
  <2>3. kdb.rx = <<>> /\ outstanding \in {"insert", "remove"} /\ kdb.sentToHost = <<"+", "OK">>
    BY <1>2, <1>3, <2>1, <2>2 DEF Commanded
  <2>4. kdb'.sentToHost = <<"OK">> BY <1>7, <2>3
  <2> QED BY <1>2, <1>5, <2>1, <2>3, <2>4 DEF Commanded
<1>12. ~Unattached /\ ~Detaching BY <1>2, <1>3, <1>6 DEF Unattached, Detaching
<1>13. LineInPlace'
  BY <1>1, <1>2, <1>5, <1>8, <1>9, <1>10, <1>11, <1>12 DEF LineInPlace
<1>14. Sound' BY SoundStep DEF InOrder, Next, Host
<1> QED BY <1>2, <1>13, <1>14, InOrderRead

-----------------------------------------------------------------------------
(***************************************************************************)
(* A handler takes what is in the 16550A, one item at most.                *)
(***************************************************************************)

\* The state of the debugger after kdb_i16550A_getchar.
Taken(k) ==
  /\ Alike(k, kdb, {"stack", "rx"}) /\ SameHandlers(k, kdb)
  /\ \A n \in 1 .. Level(kdb) : k.stack[n].frame = kdb.stack[n].frame
  /\ k.stack[Level(kdb)].at = "poll" /\ k.rx = <<>>

\* The items there may be.
LEMMA OneItem ==
  ASSUME LineInPlace
  PROVE  \/ kdb.rx = <<>>
         \/ kdb.rx = <<"^C">> /\ kdb.attached /\ ~kdb.suspended /\ Underway /\ host = "interrupting"
         \/ kdb.rx = <<"getSignal">> /\ kdb.attached /\ kdb.suspended /\ Attaching
         \/ kdb.rx = <<"getSignal">> /\ ~kdb.attached /\ Unattached
         \/ /\ kdb.rx = <<outstanding>> /\ kdb.attached /\ kdb.suspended /\ Commanded
            /\ outstanding \in {"insert", "remove", "continue", "step", "detach"}
            /\ kdb.sentToHost = <<>>
<1>1. CASE kdb.attached /\ ~kdb.suspended BY <1>1 DEF LineInPlace, Underway
<1>2. CASE kdb.attached /\ kdb.suspended
  <2>1. Reporting => kdb.rx = <<>> BY DEF Reporting
  <2>2. Attaching => kdb.rx = <<>> \/ kdb.rx = <<"getSignal">> BY DEF Attaching
  <2>3. Commanded => \/ kdb.rx = <<>>
                     \/ /\ kdb.rx = <<outstanding>> /\ kdb.sentToHost = <<>>
                        /\ outstanding \in {"insert", "remove", "continue", "step", "detach"}
    BY DEF Commanded
  <2> QED BY <1>2, <2>1, <2>2, <2>3 DEF LineInPlace
<1>3. CASE ~kdb.attached
  <2>1. Detaching => kdb.rx = <<>> BY DEF Detaching
  <2>2. Unattached => kdb.rx = <<>> \/ kdb.rx = <<"getSignal">> BY DEF Unattached
  <2> QED BY <1>3, <2>1, <2>2 DEF LineInPlace
<1> QED BY <1>1, <1>2, <1>3

LEMMA ReceiveBegins ==
  ASSUME InOrder, Receive
  PROVE  /\ AtWork /\ Level(kdb) > 0 /\ kdb.stack[Level(kdb)].kind = "uart"
         /\ ~trace /\ ~kdb.panicked
         /\ kdb.suspended => kdb.currentContext \in 1 .. Level(kdb) - 1
         /\ Taken(Goto(Received(kdb), "poll"))
<1>1. /\ kdb \in Machines /\ Level(kdb) \in Nat /\ ContextInPlace /\ CharactersInPlace /\ LineInPlace
  BY InOrderFacts
<1>2. Level(kdb) > 0 BY <1>1, EmptyStack DEF Receive, OnTop
<1>3. /\ kdb.stack[Level(kdb)].kind = "uart" /\ kdb.stack[Level(kdb)].at = "get" /\ ~trace
  BY DEF Receive, OnTop, Top
<1>4. AtWork BY <1>1, <1>2, <1>3 DEF CharactersInPlace
<1>5. kdb.suspended => kdb.currentContext \in 1 .. Level(kdb) - 1
  BY <1>1, <1>3 DEF ContextInPlace
<1>6. Alike(Received(kdb), kdb, {"rx"}) BY <1>1, ReceivedEffect
<1>7. Received(kdb).rx = <<>>
  <2>1. \A a : kdb.rx = <<a>> => Received(kdb).rx = <<>>
    <3> TAKE a
    <3>1. <<a>> # <<>> /\ Tail(<<a>>) = <<>> BY ONLY Packets
    <3> QED BY <1>1, <3>1, ReceivedEffect
  <2>2. kdb.rx = <<>> => Received(kdb).rx = <<>> BY <1>1, ReceivedEffect
  <2> QED BY <1>1, <2>1, <2>2, OneItem
<1>8. /\ Received(kdb) \in Machines /\ Received(kdb).stack = kdb.stack
      /\ Level(Received(kdb)) = Level(kdb) /\ "poll" \in Labels
  BY <1>6 DEF Alike, Fields, Level, Labels
<1> DEFINE k == Goto(Received(kdb), "poll")
<1>9. /\ Alike(k, Received(kdb), {"stack"})
      /\ Level(k) = Level(kdb)
      /\ \A n \in 1 .. Level(kdb) :
           /\ k.stack[n].kind = kdb.stack[n].kind
           /\ k.stack[n].frame = kdb.stack[n].frame
           /\ n < Level(kdb) => k.stack[n].at = kdb.stack[n].at
      /\ k.stack[Level(kdb)].at = "poll"
  BY <1>2, <1>8, GotoEffect
<1> HIDE DEF k
<1>10. Alike(k, kdb, {"stack", "rx"}) /\ k.rx = <<>> BY <1>6, <1>7, <1>9 DEF Alike, Fields
<1>11. Taken(k) BY <1>9, <1>10 DEF Taken, SameHandlers
<1> QED BY <1>1, <1>2, <1>3, <1>4, <1>5, <1>11 DEF ContextInPlace, k

\* A packet that leaves the machine as it is, stopped or running.
LEMMA InOrderServed ==
  ASSUME InOrder, Receive, NEW k, Taken(k), NEW r,
         Alike(r, k, {"attached", "byte", "sentToHost"}), kdb.attached => r.attached,
         Alike(kdb', r, {"irr"}),
         UNCHANGED <<eip, stint, trace, original, session, host, outstanding>>,
         LineInPlace', BytesInPlace', Sound'
  PROVE  InOrder'
<1>1. /\ kdb \in Machines /\ Level(kdb) \in Nat
      /\ FramesInPlace /\ ContextInPlace /\ CharactersInPlace /\ TracesInPlace
  BY InOrderFacts
<1>2. /\ AtWork /\ Level(kdb) > 0 /\ kdb.stack[Level(kdb)].kind = "uart"
      /\ ~trace /\ ~kdb.panicked
      /\ kdb.suspended => kdb.currentContext \in 1 .. Level(kdb) - 1
  BY ReceiveBegins
<1>3. Alike(k, kdb, {"stack", "rx"}) /\ k.rx = <<>> BY DEF Taken
<1>4. /\ kdb'.stack = k.stack /\ kdb'.rx = <<>>
      /\ kdb'.panicked = kdb.panicked /\ kdb'.suspended = kdb.suspended
      /\ kdb'.currentContext = kdb.currentContext /\ kdb'.savedContext = kdb.savedContext
      /\ kdb'.registers = kdb.registers /\ kdb'.attached = r.attached
      /\ kdb'.inService = kdb.inService /\ kdb'.interrupts = kdb.interrupts
  BY <1>3 DEF Alike, Fields
<1>5. /\ Level(kdb') = Level(kdb)
      /\ \A n \in 1 .. Level(kdb) :
           /\ kdb'.stack[n].kind = kdb.stack[n].kind
           /\ kdb'.stack[n].frame = kdb.stack[n].frame
           /\ n < Level(kdb) => kdb'.stack[n].at = kdb.stack[n].at
      /\ kdb'.stack[Level(kdb)].at = "poll"
  BY <1>4 DEF Taken, SameHandlers, Level
<1>6. 1 \in 1 .. Level(kdb) /\ Level(kdb) \in 1 .. Level(kdb) BY <1>1, <1>2
<1>7. (Breaking' <=> Breaking) /\ (ExceptionBelow' <=> ExceptionBelow)
  BY <1>5, <1>6 DEF Breaking, ExceptionBelow
<1>8. AtWork' BY <1>2, <1>4, <1>5, <1>6 DEF AtWork
<1>9. FramesInPlace' BY <1>1, <1>5, FramesStay
<1>10. ContextInPlace'
  <2>1. \A c : RegistersOf(c)' <=> RegistersOf(c) BY <1>4 DEF RegistersOf
  <2>2. kdb.suspended => kdb'.stack[kdb.currentContext].at = kdb.stack[kdb.currentContext].at
    BY <1>1, <1>2, <1>5
  <2> QED BY <1>1, <1>4, <1>5, <1>7, <2>1, <2>2 DEF ContextInPlace
<1>11. CharactersInPlace' BY <1>1, <1>4, <1>5, <1>7, <1>8 DEF CharactersInPlace
<1>12. TracesInPlace'
  <2>1. kdb'.stack[1].frame = kdb.stack[1].frame BY <1>5, <1>6
  <2> QED BY <1>1, <1>2, <1>4, <1>5, <1>7, <2>1 DEF TracesInPlace
<1> QED BY <1>9, <1>10, <1>11, <1>12 DEF InOrder

\* An item that stops the machine in the handler that has received it.
LEMMA InOrderStopped ==
  ASSUME InOrder, Receive, NEW k, Taken(k), NEW r,
         IsStopped(r, k, Level(kdb)), Alike(kdb', r, {"irr"}),
         ~kdb.suspended, ~ExceptionBelow, Breaking => Level(kdb) = 1,
         outstanding \notin {"insert", "remove"},
         UNCHANGED <<eip, stint, trace, original, session, host, outstanding>>,
         LineInPlace', Sound'
  PROVE  InOrder'
<1>1. /\ TypeOK /\ kdb \in Machines /\ Level(kdb) \in Nat
      /\ FramesInPlace /\ ContextInPlace /\ TracesInPlace /\ BytesInPlace
  BY InOrderFacts
<1>2. Level(kdb) > 0 /\ ~trace BY ReceiveBegins
<1>3. /\ Alike(k, kdb, {"stack", "rx"}) /\ Level(k) = Level(kdb)
      /\ \A n \in 1 .. Level(kdb) :
           /\ k.stack[n].kind = kdb.stack[n].kind
           /\ k.stack[n].frame = kdb.stack[n].frame
           /\ n < Level(kdb) => k.stack[n].at = kdb.stack[n].at
  BY DEF Taken, SameHandlers
<1>4. 1 \in 1 .. Level(kdb) /\ Level(kdb) \in 1 .. Level(kdb) BY <1>1, <1>2
<1>5. /\ Level(r) = Level(kdb)
      /\ \A n \in 1 .. Level(kdb) :
           /\ r.stack[n].kind = kdb.stack[n].kind
           /\ r.stack[n].frame = kdb.stack[n].frame
           /\ n < Level(kdb) => r.stack[n].at = kdb.stack[n].at
      /\ r.stack[Level(kdb)].at = "spin"
      /\ r.currentContext = Level(kdb) /\ r.registers = kdb.stack[Level(kdb)].frame
      /\ r.rx = <<>> /\ r.suspended /\ r.interrupts /\ ~r.inService /\ ~r.panicked /\ r.attached
  BY <1>3, <1>4 DEF IsStopped, SameHandlers
<1>6. r.byte = kdb.byte
  <2>1. r.byte = k.byte BY DEF IsStopped, Alike, Fields
  <2> QED BY <1>3, <2>1 DEF Alike, Fields
<1>7. /\ kdb'.stack = r.stack /\ kdb'.byte = kdb.byte /\ kdb' \in Machines
      /\ kdb'.currentContext = Level(kdb) /\ kdb'.registers = kdb.stack[Level(kdb)].frame
      /\ kdb'.rx = <<>> /\ kdb'.suspended /\ kdb'.interrupts /\ ~kdb'.inService
      /\ ~kdb'.panicked /\ kdb'.attached
  BY <1>5, <1>6 DEF Alike, Fields
<1>8. /\ Level(kdb') = Level(kdb)
      /\ \A n \in 1 .. Level(kdb) :
           /\ kdb'.stack[n].kind = kdb.stack[n].kind
           /\ kdb'.stack[n].frame = kdb.stack[n].frame
           /\ n < Level(kdb) => kdb'.stack[n].at = kdb.stack[n].at
      /\ kdb'.stack[Level(kdb)].at = "spin"
  BY <1>5, <1>7 DEF Level
<1>9. /\ (Breaking' <=> Breaking) /\ (Interrupting' <=> Interrupting)
      /\ ~ExceptionBelow'
  BY <1>4, <1>8 DEF Breaking, Interrupting, ExceptionBelow
<1>10. RegistersOf(kdb.currentContext)'
  <2> DEFINE frame == kdb.stack[Level(kdb)].frame
  <2>1. /\ frame.of = Level(kdb) - 1
        /\ Level(kdb) = 1 => frame.stint = stint
        /\ Level(kdb) > 1 => ~frame.tf /\ frame.eip = "run"
    BY <1>1, <1>4 DEF FramesInPlace
  <2> HIDE DEF frame
  <2>2. kdb'.registers = frame BY <1>7 DEF frame
  <2> QED BY <1>7, <2>1, <2>2 DEF RegistersOf
<1>11. FramesInPlace' BY <1>1, <1>8, FramesStay
<1>12. ContextInPlace'
  BY <1>1, <1>4, <1>7, <1>8, <1>9, <1>10 DEF ContextInPlace
<1>13. CharactersInPlace' BY <1>1, <1>7, <1>8 DEF CharactersInPlace
<1>14. TracesInPlace'
  <2>1. Level(kdb) > 1 => ~kdb'.registers.tf BY <1>1, <1>4, <1>7 DEF FramesInPlace
  <2>2. (Level(kdb) = 1 /\ ~Breaking) => ~kdb'.registers.tf BY <1>1, <1>7 DEF TracesInPlace
  <2>3. ~Breaking => ~kdb'.stack[1].frame.tf BY <1>1, <1>2, <1>4, <1>8 DEF TracesInPlace
  <2>4. Level(kdb) > 1 \/ Level(kdb) = 1 BY <1>1, <1>2
  <2> QED BY <1>2, <1>7, <1>9, <2>1, <2>2, <2>3, <2>4 DEF TracesInPlace
<1>15. BytesInPlace'
  <2>1. Level(kdb) > 1 => kdb'.registers.eip = "run" BY <1>1, <1>4, <1>7 DEF FramesInPlace
  <2>2. Level(kdb) > 1 \/ Level(kdb) = 1 BY <1>1, <1>2
  <2>3. (original = "code" /\ Level(kdb) = 1) => kdb'.registers.eip # "after"
    BY <1>1, <1>7 DEF BytesInPlace, BreakpointsTakenOut
  <2>4. original = "code" => kdb'.registers.eip # "after" BY <2>1, <2>2, <2>3
  <2>5. Interrupting => kdb'.registers.eip = "run" /\ kdb'.stack[1].frame.eip = "run"
    BY <1>1, <1>2, <1>4, <1>7, <1>8, <2>1, <2>2 DEF BytesInPlace
  <2>6. kdb'.stack # <<>> BY <1>2, <1>7, <1>8, EmptyStack
  <2>7. kdb'.rx # <<outstanding>> BY <1>7
  <2>8. original = "code" => BreakpointsTakenOut'
    BY <1>7, <1>9, <2>4, <2>6, <2>7 DEF BreakpointsTakenOut
  <2> QED BY <1>1, <1>7, <1>9, <2>5, <2>8 DEF BytesInPlace
<1> QED BY <1>11, <1>12, <1>13, <1>14, <1>15 DEF InOrder

\* A packet that makes the machine go on; the registers are those the debugger
\* had, with the trace flag set if gdb steps the program.
LEMMA InOrderResumed ==
  ASSUME InOrder, Receive, NEW k, Taken(k), NEW r, NEW registers,
         IsResumed(r, k, registers), Alike(kdb', r, {"irr"}), kdb.suspended,
         registers.of = kdb.registers.of, registers.stint = kdb.registers.stint,
         registers.eip = kdb.registers.eip,
         registers.tf => kdb.registers.tf \/ (Breaking /\ kdb'.attached),
         kdb.attached, kdb'.attached \/ (~Breaking /\ Interrupting),
         Breaking \/ Interrupting,
         kdb.rx = <<outstanding>>,
         outstanding \in {"continue", "step"} \/ (outstanding = "detach" /\ ~Breaking),
         UNCHANGED <<eip, stint, trace, original, session, host, outstanding>>,
         LineInPlace', Sound'
  PROVE  InOrder'
<1> DEFINE c == kdb.currentContext
<1>1. /\ TypeOK /\ kdb \in Machines /\ Level(kdb) \in Nat
      /\ FramesInPlace /\ ContextInPlace /\ TracesInPlace /\ BytesInPlace
  BY InOrderFacts
<1>2. /\ AtWork /\ Level(kdb) > 0 /\ kdb.stack[Level(kdb)].kind = "uart"
      /\ ~trace /\ ~kdb.panicked /\ c \in 1 .. Level(kdb) - 1
  BY ReceiveBegins
<1>3. /\ Alike(k, kdb, {"stack", "rx"}) /\ Level(k) = Level(kdb) /\ k.rx = <<>>
      /\ \A n \in 1 .. Level(kdb) :
           /\ k.stack[n].kind = kdb.stack[n].kind
           /\ k.stack[n].frame = kdb.stack[n].frame
           /\ n < Level(kdb) => k.stack[n].at = kdb.stack[n].at
      /\ k.stack[Level(kdb)].at = "poll"
  BY DEF Taken, SameHandlers
<1>4. k.currentContext = c BY <1>3 DEF Alike, Fields
<1>5. 1 \in 1 .. Level(kdb) /\ Level(kdb) \in 1 .. Level(kdb) BY <1>1, <1>2
<1>6. /\ Level(r) = Level(kdb)
      /\ \A n \in 1 .. Level(kdb) :
           /\ r.stack[n].kind = kdb.stack[n].kind
           /\ r.stack[n].frame = IF n = c THEN registers ELSE kdb.stack[n].frame
           /\ n < Level(kdb) => r.stack[n].at = kdb.stack[n].at
      /\ r.stack[Level(kdb)].at = "poll"
      /\ r.registers = registers /\ ~r.suspended
  BY <1>3, <1>4, <1>5 DEF IsResumed, SameHandlers
<1>7. /\ r.panicked = kdb.panicked /\ r.currentContext = c /\ r.byte = kdb.byte
      /\ r.savedContext = kdb.savedContext /\ r.rx = <<>>
      /\ r.inService = kdb.inService /\ r.interrupts = kdb.interrupts
  <2>1. Alike(r, k, {"stack", "registers", "suspended", "sentToHost", "attached"})
    BY DEF IsResumed
  <2> QED BY <1>3, <1>4, <2>1 DEF Alike, Fields
<1>8. /\ kdb'.stack = r.stack /\ kdb'.byte = kdb.byte /\ kdb' \in Machines
      /\ kdb'.currentContext = c /\ kdb'.registers = registers
      /\ kdb'.rx = <<>> /\ ~kdb'.suspended /\ kdb'.panicked = kdb.panicked
      /\ kdb'.savedContext = kdb.savedContext
      /\ kdb'.inService = kdb.inService /\ kdb'.interrupts = kdb.interrupts
  BY <1>6, <1>7 DEF Alike, Fields
<1>9. /\ Level(kdb') = Level(kdb)
      /\ \A n \in 1 .. Level(kdb) :
           /\ kdb'.stack[n].kind = kdb.stack[n].kind
           /\ kdb'.stack[n].frame = IF n = c THEN registers ELSE kdb.stack[n].frame
           /\ n < Level(kdb) => kdb'.stack[n].at = kdb.stack[n].at
      /\ kdb'.stack[Level(kdb)].at = "poll"
  BY <1>6, <1>8 DEF Level
<1> HIDE DEF c
<1>10. /\ (Breaking' <=> Breaking) /\ (Interrupting' <=> Interrupting)
       /\ (ExceptionBelow' <=> ExceptionBelow)
  BY <1>5, <1>9 DEF Breaking, Interrupting, ExceptionBelow
<1>11. AtWork' BY <1>2, <1>5, <1>8, <1>9 DEF AtWork
<1>12. /\ registers.of = c - 1
       /\ c = 1 => registers.stint = stint
       /\ c > 1 => ~kdb.registers.tf /\ registers.eip = "run"
       /\ Breaking => c = 1
  BY <1>1 DEF ContextInPlace, RegistersOf, c
<1>13. c > 1 => ~registers.tf BY <1>12
<1>14. c \in Nat /\ c > 0 BY <1>1, <1>2
<1>15. FramesInPlace'
  <2>1. SUFFICES ASSUME NEW n \in 1 .. Level(kdb)
                 PROVE  /\ kdb'.stack[n].frame.of = n - 1
                        /\ n = 1 => kdb'.stack[n].frame.stint = stint'
                        /\ n > 1 => /\ kdb'.stack[n].kind = "uart"
                                    /\ ~kdb'.stack[n].frame.tf /\ kdb'.stack[n].frame.eip = "run"
                        /\ n < Level(kdb') => kdb'.stack[n].at # "get"
    BY <1>9 DEF FramesInPlace
  <2>2. /\ kdb.stack[n].frame.of = n - 1
        /\ n = 1 => kdb.stack[n].frame.stint = stint
        /\ n > 1 => /\ kdb.stack[n].kind = "uart"
                    /\ ~kdb.stack[n].frame.tf /\ kdb.stack[n].frame.eip = "run"
        /\ n < Level(kdb) => kdb.stack[n].at # "get"
    BY <1>1 DEF FramesInPlace
  <2>3. n > 1 => kdb'.stack[n].kind = "uart" BY <1>9, <2>2
  <2>4. n < Level(kdb') => kdb'.stack[n].at # "get" BY <1>9, <2>2
  <2>5. CASE n = c
    <3>1. kdb'.stack[n].frame = registers BY <1>9, <2>5
    <3> QED BY <1>12, <1>13, <2>3, <2>4, <2>5, <3>1
  <2>6. CASE n # c
    <3>1. kdb'.stack[n].frame = kdb.stack[n].frame BY <1>9, <2>6
    <3> QED BY <2>2, <2>3, <2>4, <3>1
  <2> QED BY <2>5, <2>6
<1>16. ContextInPlace'
  <2>1. ExceptionBelow => c = 1 /\ RegistersOf(1) /\ Breaking BY <1>1 DEF ContextInPlace, c
  <2>2. ExceptionBelow => RegistersOf(1)'
    BY <1>8, <2>1 DEF RegistersOf
  <2>3. Breaking => kdb'.attached OBVIOUS
  <2> QED BY <1>2, <1>8, <1>10, <2>1, <2>2, <2>3 DEF ContextInPlace
<1>17. CharactersInPlace' BY <1>8, <1>9, <1>10, <1>11 DEF CharactersInPlace
<1>18. TracesInPlace'
  <2>1. ~(kdb'.attached /\ Breaking) => ~kdb.registers.tf /\ ~kdb.stack[1].frame.tf /\ ~Breaking
    BY <1>1, <1>2 DEF TracesInPlace
  <2>2. ~(kdb'.attached /\ Breaking) => ~registers.tf BY <2>1
  <2>3. ~(kdb'.attached /\ Breaking) => ~kdb'.stack[1].frame.tf BY <1>5, <1>9, <2>1, <2>2
  <2>4. ~trace' BY <1>2
  <2> QED BY <1>8, <1>10, <2>2, <2>3, <2>4 DEF TracesInPlace
<1>19. BytesInPlace'
  <2>1. outstanding \notin {"insert", "remove"} OBVIOUS
  <2>2. ~kdb'.attached \/ Interrupting => kdb.byte = original BY <1>1 DEF BytesInPlace
  <2>3. Interrupting => registers.eip = "run" /\ kdb.stack[1].frame.eip = "run" /\ eip = "run"
    BY <1>1, <1>2 DEF BytesInPlace
  <2>4. Interrupting => kdb'.stack[1].frame.eip = "run" BY <1>5, <1>9, <2>3
  <2>5. original = "code" => registers.eip # "after"
    BY <1>1 DEF BytesInPlace, BreakpointsTakenOut
  <2>6. original = "code" => kdb'.stack[1].frame.eip # "after"
    <3>1. CASE c = 1 BY <1>5, <1>9, <2>5, <3>1
    <3>2. CASE c # 1 BY <1>12, <2>4, <3>2
    <3> QED BY <3>1, <3>2
  <2>7. (original = "code" /\ registers.eip = "at" /\ ExceptionBelow) => kdb.byte = "code"
    <3>1. ExceptionBelow => outstanding \in {"continue", "step"} BY <1>1 DEF ContextInPlace
    <3> QED BY <1>1, <3>1 DEF BytesInPlace, BreakpointsTakenOut
  <2>8. kdb'.stack # <<>> BY <1>2, <1>8, <1>9, EmptyStack
  <2>9. original = "code" => BreakpointsTakenOut'
    BY <1>8, <1>10, <2>6, <2>7, <2>8 DEF BreakpointsTakenOut
  <2> QED BY <1>1, <1>8, <1>10, <2>1, <2>2, <2>3, <2>4, <2>9 DEF BytesInPlace
<1> QED BY <1>15, <1>16, <1>17, <1>18, <1>19 DEF InOrder

\* The program's part in a packet that writes nothing.
LEMMA BytesServed ==
  ASSUME InOrder, Receive, NEW k, Taken(k), NEW r,
         Alike(r, k, {"attached", "sentToHost"}), kdb.attached => r.attached,
         Alike(kdb', r, {"irr"}), UNCHANGED <<eip, original, session, outstanding>>
  PROVE  BytesInPlace'
<1>1. /\ kdb \in Machines /\ Level(kdb) \in Nat /\ BytesInPlace /\ Level(kdb) > 0
  BY InOrderFacts, ReceiveBegins
<1>2. /\ Alike(k, kdb, {"stack", "rx"}) /\ k.rx = <<>> /\ Level(k) = Level(kdb)
      /\ 1 \in 1 .. Level(kdb)
      /\ k.stack[1].kind = kdb.stack[1].kind /\ k.stack[1].frame = kdb.stack[1].frame
  BY <1>1 DEF Taken, SameHandlers
<1>3. /\ kdb'.stack = k.stack /\ kdb'.rx = <<>> /\ kdb'.byte = kdb.byte
      /\ kdb'.suspended = kdb.suspended /\ kdb'.registers = kdb.registers
      /\ kdb'.attached = r.attached /\ kdb' \in Machines
  BY <1>2 DEF Alike, Fields
<1>4. /\ Level(kdb') = Level(kdb)
      /\ kdb'.stack[1].kind = kdb.stack[1].kind /\ kdb'.stack[1].frame = kdb.stack[1].frame
  BY <1>2, <1>3 DEF Level
<1>5. (Interrupting' <=> Interrupting) /\ (ExceptionBelow' <=> ExceptionBelow)
  BY <1>4 DEF Interrupting, ExceptionBelow
<1>6. kdb'.stack # <<>> /\ kdb'.rx # <<outstanding>> BY <1>1, <1>3, <1>4, EmptyStack
<1>7. original = "code" => BreakpointsTakenOut'
  BY <1>1, <1>3, <1>4, <1>5, <1>6 DEF BytesInPlace, BreakpointsTakenOut
<1> QED BY <1>1, <1>3, <1>4, <1>5, <1>7 DEF BytesInPlace

\* gdb's packet and what it has sent before is gone.
LEMMA ServedFields ==
  ASSUME InOrder, Receive, NEW k, Taken(k)
  PROVE  /\ k \in Machines /\ k.attached = kdb.attached /\ k.suspended = kdb.suspended
         /\ k.sentToHost = kdb.sentToHost /\ ~k.panicked /\ k.registers = kdb.registers
         /\ k.currentContext = kdb.currentContext /\ k.byte = kdb.byte
         /\ Level(k) = Level(kdb) /\ Level(k) > 0 /\ Level(k) <= MaxLevel
         /\ k.savedContext = Level(k) /\ k.rx = <<>>
         /\ kdb.suspended => k.currentContext \in 1 .. Level(k)
<1>1. Level(kdb) \in Nat /\ Level(kdb) <= MaxLevel BY InOrderFacts
<1>2. /\ AtWork /\ Level(kdb) > 0 /\ ~kdb.panicked
      /\ kdb.suspended => kdb.currentContext \in 1 .. Level(kdb) - 1
  BY ReceiveBegins
<1>3. /\ k \in Machines /\ k.attached = kdb.attached /\ k.suspended = kdb.suspended
      /\ k.sentToHost = kdb.sentToHost /\ k.panicked = kdb.panicked /\ k.byte = kdb.byte
      /\ k.currentContext = kdb.currentContext /\ k.savedContext = kdb.savedContext
      /\ k.registers = kdb.registers /\ k.rx = <<>>
  BY DEF Taken, Alike, Fields
<1>4. Level(k) = Level(kdb) BY DEF Taken, SameHandlers
<1>5. kdb.savedContext = Level(kdb) BY <1>2 DEF AtWork
<1> QED BY <1>1, <1>2, <1>3, <1>4, <1>5

\* Every item, in every state it finds the debugger in.
LEMMA InOrderReceive ==
  ASSUME SessionsInOrder, InOrder, Receive
  PROVE  InOrder'
<1> DEFINE k == Goto(Received(kdb), "poll")
           after == IF kdb.rx = <<>> THEN k ELSE
                    IF Head(kdb.rx) = "^C" THEN ControlC(k) ELSE Execute(k, Head(kdb.rx))
<1>1. /\ TypeOK /\ kdb \in Machines /\ Level(kdb) \in Nat
      /\ ContextInPlace /\ CharactersInPlace /\ LineInPlace /\ BytesInPlace
  BY InOrderFacts
<1>2. /\ AtWork /\ Level(kdb) > 0 /\ Taken(k) BY ReceiveBegins
<1>3. /\ kdb' \in MayDropRequest(after)
      /\ UNCHANGED <<eip, stint, trace, original, session, host, outstanding>>
  BY DEF Receive, Step
<1> HIDE DEF k
<1>4. /\ k \in Machines /\ k.attached = kdb.attached /\ k.suspended = kdb.suspended
      /\ k.sentToHost = kdb.sentToHost /\ ~k.panicked /\ k.registers = kdb.registers
      /\ k.currentContext = kdb.currentContext /\ k.byte = kdb.byte
      /\ Level(k) = Level(kdb) /\ Level(k) > 0 /\ Level(k) <= MaxLevel
      /\ k.savedContext = Level(k) /\ k.rx = <<>>
      /\ kdb.suspended => k.currentContext \in 1 .. Level(k)
  BY <1>2, ServedFields
<1>5. Sound' BY SoundStep DEF InOrder, Next, Handlers
<1>6. Breaking \/ Interrupting BY <1>1, KindOfSession
<1>7. after \in Machines => Alike(kdb', after, {"irr"}) BY <1>3, DropEffect
<1>8. ASSUME NEW a, kdb.rx = <<a>>, a # "^C" PROVE after = Execute(k, a)
  BY <1>8, Packets
<1>9. kdb.rx = <<"^C">> => after = ControlC(k) BY Packets
<1>10. kdb.rx = <<>> => after = k OBVIOUS
<1> HIDE DEF after
<1>11. CASE kdb.rx = <<>>
  <2>1. after = k /\ Alike(after, k, {"attached", "byte", "sentToHost"})
        /\ Alike(after, k, {"attached", "sentToHost"})
    BY <1>4, <1>10, <1>11 DEF Alike
  <2>2. Alike(kdb', after, {"irr"}) BY <1>4, <1>7, <2>1
  <2>3. /\ kdb'.attached = kdb.attached /\ kdb'.suspended = kdb.suspended
        /\ kdb'.rx = kdb.rx /\ kdb'.sentToHost = kdb.sentToHost /\ kdb'.stack = k.stack
    BY <1>4, <1>11, <2>1, <2>2 DEF Alike, Fields
  <2>4. kdb'.stack[1].kind = kdb.stack[1].kind
    <3>1. 1 \in 1 .. Level(kdb) BY <1>1, <1>2
    <3> QED BY <1>2, <2>3, <3>1 DEF Taken, SameHandlers
  <2>5. LineInPlace' BY <1>1, <1>3, <2>3, <2>4, LineStays
  <2>6. BytesInPlace' BY <1>2, <1>3, <1>4, <2>1, <2>2, BytesServed
  <2> QED BY <1>2, <1>3, <1>4, <1>5, <2>1, <2>2, <2>5, <2>6, InOrderServed
<1>12. CASE /\ kdb.rx = <<"^C">> /\ kdb.attached /\ ~kdb.suspended /\ Underway
            /\ host = "interrupting"
  <2>1. kdb.sentToHost = <<>> /\ outstanding = "none" BY <1>12 DEF Underway
  <2>2. "interrupt" \in session.commands BY <1>1, <1>12 DEF LineInPlace
  <2>3. ~Breaking BY <2>2, BreakingCommands
  <2>4. ~ExceptionBelow BY <1>1, <2>3 DEF ContextInPlace
  <2>5. IsStopped(after, k, Level(k)) /\ after.sentToHost = <<"T">>
    BY <1>4, <1>9, <1>12, <2>1, ControlCEffect
  <2>6. Alike(kdb', after, {"irr"})
    <3>1. after \in Machines BY <2>5 DEF IsStopped, Alike
    <3> QED BY <1>7, <3>1
  <2>7. kdb'.attached /\ kdb'.suspended /\ kdb'.rx = <<>> /\ kdb'.sentToHost = <<"T">>
    BY <2>5, <2>6 DEF IsStopped, Alike, Fields
  <2>8. Reporting' BY <1>3, <1>12, <2>1, <2>7 DEF Reporting
  <2>9. LineInPlace' BY <1>1, <1>3, <2>7, <2>8 DEF LineInPlace
  <2> QED BY <1>2, <1>3, <1>4, <1>5, <1>12, <2>1, <2>3, <2>4, <2>5, <2>6, <2>9, InOrderStopped
<1>13. ASSUME /\ kdb.rx = <<"getSignal">> /\ kdb.suspended
              /\ (kdb.attached /\ Attaching) \/ (~kdb.attached /\ Unattached)
       PROVE  InOrder'
  <2>1. kdb.sentToHost = <<>> /\ outstanding = "getSignal" /\ host = "detached"
    <3>1. <<"getSignal">> # <<>> BY ONLY Packets
    <3> QED BY <1>13, <3>1 DEF Attaching, Unattached
  <2>2. /\ Alike(after, k, {"attached", "sentToHost"})
        /\ after.attached /\ after.sentToHost = <<"+", "S">>
    BY <1>4, <1>8, <1>13, <2>1, GetSignalEffect
  <2>3. Alike(kdb', after, {"irr"}) /\ Alike(after, k, {"attached", "byte", "sentToHost"})
    <3>1. after \in Machines BY <2>2 DEF Alike
    <3> QED BY <1>7, <2>2, <3>1 DEF Alike
  <2>4. kdb'.attached /\ kdb'.suspended /\ kdb'.rx = <<>> /\ kdb'.sentToHost = <<"+", "S">>
    BY <1>4, <1>13, <2>2, <2>3 DEF Alike, Fields
  <2>5. Attaching' BY <1>3, <2>1, <2>4 DEF Attaching
  <2>6. LineInPlace' BY <1>1, <1>3, <2>4, <2>5 DEF LineInPlace
  <2>7. BytesInPlace' BY <1>2, <1>3, <2>2, <2>3, BytesServed
  <2> QED BY <1>2, <1>3, <1>5, <2>2, <2>3, <2>6, <2>7, InOrderServed
<1>14. CASE kdb.rx = <<"getSignal">> /\ ~kdb.attached /\ Unattached /\ ~kdb.suspended
  <2>1. kdb.sentToHost = <<>> /\ outstanding = "getSignal" /\ host = "detached"
    <3>1. <<"getSignal">> # <<>> BY ONLY Packets
    <3> QED BY <1>14, <3>1 DEF Unattached
  <2>2. ~ExceptionBelow BY <1>1, <1>14 DEF ContextInPlace
  <2>3. Breaking => Level(kdb) = 1 BY <1>1, <1>2, <1>14 DEF CharactersInPlace
  <2>4. IsStopped(after, k, Level(k)) /\ after.sentToHost = <<"+", "S">>
    BY <1>4, <1>8, <1>14, <2>1, AttachEffect
  <2>5. Alike(kdb', after, {"irr"})
    <3>1. after \in Machines BY <2>4 DEF IsStopped, Alike
    <3> QED BY <1>7, <3>1
  <2>6. kdb'.attached /\ kdb'.suspended /\ kdb'.rx = <<>> /\ kdb'.sentToHost = <<"+", "S">>
    BY <2>4, <2>5 DEF IsStopped, Alike, Fields
  <2>7. Attaching' BY <1>3, <2>1, <2>6 DEF Attaching
  <2>8. LineInPlace' BY <1>1, <1>3, <2>6, <2>7 DEF LineInPlace
  <2> QED BY <1>2, <1>3, <1>4, <1>5, <1>14, <2>1, <2>2, <2>3, <2>4, <2>5, <2>8, InOrderStopped
<1>15. ASSUME /\ kdb.rx = <<outstanding>> /\ kdb.attached /\ kdb.suspended /\ Commanded
              /\ kdb.sentToHost = <<>>
              /\ outstanding \in {"insert", "remove", "continue", "step", "detach"}
       PROVE  InOrder'
  <2>1. host = "stopped" /\ outstanding \in session.commands
    BY <1>1, <1>15 DEF Commanded, LineInPlace
  <2>2. after = Execute(k, outstanding) BY <1>8, <1>15
  <2>3. k.registers \in Images BY <1>4 DEF Machines
  <2>4. CASE outstanding \in {"insert", "remove"}
    <3> DEFINE byte == IF outstanding = "insert" THEN "int3" ELSE "code"
    <3>1. /\ Alike(after, k, {"byte", "sentToHost"})
          /\ after.byte = byte /\ after.sentToHost = <<"+", "OK">>
      BY <1>4, <1>15, <2>2, <2>4, WriteCommandEffect
    <3>2. Alike(kdb', after, {"irr"}) /\ Alike(after, k, {"attached", "byte", "sentToHost"})
      <4>1. after \in Machines BY <3>1 DEF Alike
      <4> QED BY <1>7, <3>1, <4>1 DEF Alike
    <3>3. /\ kdb'.attached /\ kdb'.suspended /\ kdb'.rx = <<>> /\ kdb'.sentToHost = <<"+", "OK">>
          /\ kdb'.byte = byte /\ kdb'.registers = kdb.registers
          /\ kdb'.stack = k.stack /\ kdb' \in Machines /\ after.attached
      <4>1. /\ k.attached = kdb.attached /\ k.suspended = kdb.suspended /\ k.rx = <<>>
            /\ k.registers = kdb.registers
        BY <1>4, <1>15
      <4>2. /\ kdb' \in Machines
            /\ kdb'.attached = after.attached /\ kdb'.suspended = after.suspended /\ kdb'.rx = after.rx
            /\ kdb'.sentToHost = after.sentToHost /\ kdb'.byte = after.byte
            /\ kdb'.registers = after.registers /\ kdb'.stack = after.stack
        BY ONLY <3>2 DEF Alike, Fields
      <4>3. /\ after.attached = k.attached /\ after.suspended = k.suspended /\ after.rx = k.rx
            /\ after.registers = k.registers /\ after.stack = k.stack
        BY ONLY <3>1 DEF Alike, Fields
      <4> QED BY ONLY <1>15, <3>1, <4>1, <4>2, <4>3
    <3>4. Commanded' BY <1>3, <2>1, <2>4, <3>3 DEF Commanded
    <3>5. LineInPlace' BY <1>1, <1>3, <3>3, <3>4 DEF LineInPlace
    <3>6. BytesInPlace'
      <4>1. ~Interrupting BY <2>1, <2>4, InterruptingCommands
      <4>2. ~Interrupting' BY <1>3, <4>1 DEF Interrupting
      <4>3. original = "code" /\ (outstanding = "insert" => kdb.registers.eip = "run")
        BY <1>1, <2>4 DEF BytesInPlace
      <4>4. kdb.registers.eip # "after" BY <1>1, <1>15, <4>3 DEF BytesInPlace, BreakpointsTakenOut
      <4>5. Level(kdb') > 0 BY <1>4, <3>3 DEF Level
      <4>6. kdb'.stack # <<>> /\ kdb'.rx # <<outstanding>> BY <3>3, <4>5, EmptyStack
      <4>7. BreakpointsTakenOut' BY <3>3, <4>4, <4>6 DEF BreakpointsTakenOut
      <4> QED BY <1>3, <3>3, <4>2, <4>3, <4>7 DEF BytesInPlace
    <3> QED BY <1>2, <1>3, <1>5, <3>2, <3>3, <3>5, <3>6, InOrderServed
  <2>5. CASE outstanding = "continue"
    <3>1. IsResumed(after, k, k.registers) /\ after.sentToHost = <<"+">> /\ after.attached
      BY <1>4, <1>15, <2>2, <2>5, ContinueEffect
    <3>2. Alike(kdb', after, {"irr"})
      <4>1. after \in Machines BY <3>1 DEF IsResumed, Alike
      <4> QED BY <1>7, <4>1
    <3>3. kdb'.attached /\ ~kdb'.suspended /\ kdb'.rx = <<>> /\ kdb'.sentToHost = <<"+">>
      BY <1>4, <3>1, <3>2 DEF IsResumed, Alike, Fields
    <3>4. Underway' BY <1>3, <2>1, <2>5, <3>3, Packets DEF Underway
    <3>5. LineInPlace' BY <1>1, <1>3, <3>3, <3>4 DEF LineInPlace
    <3> QED BY <1>2, <1>3, <1>4, <1>5, <1>6, <1>15, <2>5, <3>1, <3>2, <3>3, <3>5, InOrderResumed
  <2>6. CASE outstanding = "step"
    <3> DEFINE registers == [k.registers EXCEPT !.tf = TRUE]
    <3>1. IsResumed(after, k, registers) /\ after.sentToHost = <<"+">> /\ after.attached
      BY <1>4, <1>15, <2>2, <2>6, StepCommandEffect
    <3>2. Alike(kdb', after, {"irr"})
      <4>1. after \in Machines BY <3>1 DEF IsResumed, Alike
      <4> QED BY <1>7, <4>1
    <3>3. kdb'.attached /\ ~kdb'.suspended /\ kdb'.rx = <<>> /\ kdb'.sentToHost = <<"+">>
      BY <1>4, <3>1, <3>2 DEF IsResumed, Alike, Fields
    <3>4. Underway' BY <1>3, <2>1, <2>6, <3>3, Packets DEF Underway
    <3>5. LineInPlace' BY <1>1, <1>3, <3>3, <3>4 DEF LineInPlace
    <3>6. Breaking BY <1>6, <2>1, <2>6, InterruptingCommands
    <3>7. /\ registers.of = kdb.registers.of /\ registers.stint = kdb.registers.stint
          /\ registers.eip = kdb.registers.eip
      BY <1>4, <2>3 DEF Images
    <3> HIDE DEF registers
    <3> QED BY <1>2, <1>3, <1>5, <1>15, <2>6, <3>1, <3>2, <3>3, <3>5, <3>6, <3>7, InOrderResumed
  <2>7. CASE outstanding = "detach"
    <3>1. IsResumed(after, k, k.registers) /\ after.sentToHost = <<"+", "OK">> /\ ~after.attached
      BY <1>4, <1>15, <2>2, <2>7, DetachEffect
    <3>2. Alike(kdb', after, {"irr"})
      <4>1. after \in Machines BY <3>1 DEF IsResumed, Alike
      <4> QED BY <1>7, <4>1
    <3>3. ~kdb'.attached /\ ~kdb'.suspended /\ kdb'.rx = <<>> /\ kdb'.sentToHost = <<"+", "OK">>
      BY <1>4, <3>1, <3>2 DEF IsResumed, Alike, Fields
    <3>4. Detaching' BY <1>3, <2>1, <2>7, <3>3 DEF Detaching
    <3>5. LineInPlace' BY <1>1, <1>3, <3>3, <3>4 DEF LineInPlace
    <3>6. ~Breaking /\ Interrupting BY <1>6, <2>1, <2>7, BreakingCommands
    <3> QED BY <1>2, <1>3, <1>4, <1>5, <1>15, <2>7, <3>1, <3>2, <3>3, <3>5, <3>6, InOrderResumed
  <2> QED BY <1>15, <2>4, <2>5, <2>6, <2>7
<1>16. CASE kdb.rx = <<"getSignal">> /\ kdb.attached /\ kdb.suspended /\ Attaching
  BY <1>13, <1>16
<1>17. CASE kdb.rx = <<"getSignal">> /\ ~kdb.attached /\ Unattached BY <1>13, <1>14, <1>17
<1>18. CASE /\ kdb.rx = <<outstanding>> /\ kdb.attached /\ kdb.suspended /\ Commanded
            /\ outstanding \in {"insert", "remove", "continue", "step", "detach"}
            /\ kdb.sentToHost = <<>>
  BY <1>15, <1>18
<1> QED
  <2> HIDE DEF k
  <2> QED BY ONLY <1>1, <1>11, <1>12, <1>16, <1>17, <1>18, OneItem

-----------------------------------------------------------------------------
(***************************************************************************)
(* In sessions of the orderly kinds the invariant holds always.            *)
(***************************************************************************)

LEMMA InOrderStep ==
  ASSUME SessionsInOrder
  PROVE  InOrder /\ [Next]_vars => InOrder'
<1> SUFFICES ASSUME InOrder, [Next]_vars PROVE InOrder' OBVIOUS
<1>1. CASE Program
  BY <1>1, InOrderSoftTrap, InOrderProgramStep, InOrderDebugTrap DEF Program
<1>2. CASE UartInterrupt BY <1>2, InOrderUartInterrupt
<1>3. CASE Handlers
  BY <1>3, InOrderLeaveSpin, InOrderCheckBreakpoint, InOrderLeaveIsr, InOrderReceive,
     InOrderPoll, InOrderLeaveUart DEF Handlers
<1>4. CASE Host
  BY <1>4, InOrderAttach, InOrderCommand, InOrderInterrupt, InOrderRetransmit,
     InOrderHostReceives, InOrderLoseAck DEF Host
<1>5. CASE UNCHANGED vars
  <2>1. kdb' = kdb /\ UNCHANGED <<eip, stint, trace, original, host, outstanding, session>>
    BY <1>5 DEF vars
  <2>2. Sound' BY SoundStep DEF InOrder
  <2>3. /\ FramesInPlace /\ ContextInPlace /\ CharactersInPlace
        /\ TracesInPlace /\ LineInPlace /\ BytesInPlace
    BY DEF InOrder
  <2>4. FramesInPlace' BY <2>1, <2>3 DEF FramesInPlace, Level
  <2>5. ContextInPlace'
    BY <2>1, <2>3 DEF ContextInPlace, ExceptionBelow, RegistersOf, Breaking, Level
  <2>6. CharactersInPlace' BY <2>1, <2>3 DEF CharactersInPlace, AtWork, Breaking, Level
  <2>7. TracesInPlace' BY <2>1, <2>3 DEF TracesInPlace, Breaking, Level
  <2>8. LineInPlace' BY <2>1, <2>3, LineStays
  <2>9. BytesInPlace'
    BY <2>1, <2>3 DEF BytesInPlace, BreakpointsTakenOut, ExceptionBelow, Interrupting, Level
  <2> QED BY <2>2, <2>4, <2>5, <2>6, <2>7, <2>8, <2>9 DEF InOrder
<1> QED BY <1>1, <1>2, <1>3, <1>4, <1>5 DEF Next

(***************************************************************************)
(* In orderly sessions the handlers on the stack, the context that spins,  *)
(* the serial interrupt, the trace flag, the bytes of the program and the  *)
(* packets on the line stay in the relation that InOrder describes.        *)
(***************************************************************************)
THEOREM KdbInOrder ==
  ASSUME SessionsInOrder
  PROVE  Spec => []InOrder
<1>1. Init => InOrder BY InOrderInit
<1>2. InOrder /\ [Next]_vars => InOrder' BY InOrderStep
<1> QED BY <1>1, <1>2, PTL DEF Spec

(***************************************************************************)
(* What the debugger writes into a trap frame are registers of the code    *)
(* that the handler of the frame has interrupted, and those of the program *)
(* are from the time it was stopped (kdb_restoreRegisters).                *)
(***************************************************************************)
THEOREM FramesAreKept ==
  ASSUME SessionsInOrder
  PROVE  Spec => []FramesHoldTheirOwn
<1>1. InOrder => FramesHoldTheirOwn BY DEF InOrder, FramesInPlace, FramesHoldTheirOwn
<1> QED BY <1>1, KdbInOrder, PTL

(***************************************************************************)
(* A stopped machine has its context on the stack, so that the debugger    *)
(* neither panics nor writes to the frame of a handler that has returned   *)
(* (kdb_resume, kdb_restoreRegisters).                                     *)
(***************************************************************************)
THEOREM ContextLives ==
  ASSUME SessionsInOrder
  PROVE  Spec => []ContextIsLive
<1>1. InOrder => ContextIsLive BY DEF InOrder, ContextInPlace, ContextIsLive
<1> QED BY <1>1, KdbInOrder, PTL

(***************************************************************************)
(* The end of kdb_softIsr skips a byte only where it is the kernel's own   *)
(* int3: an instruction that gdb has replaced is executed.                 *)
(***************************************************************************)
THEOREM InstructionsAreExecuted ==
  ASSUME SessionsInOrder
  PROVE  Spec => []NoInstructionSkipped
<1>1. InOrder => NoInstructionSkipped
  BY DEF InOrder, BytesInPlace, BreakpointsTakenOut, NoInstructionSkipped
<1> QED BY <1>1, KdbInOrder, PTL

(***************************************************************************)
(* The trace flag that kdb_enableStep sets is that of the program, however *)
(* many handlers are on top of it.                                         *)
(***************************************************************************)
THEOREM ProgramIsStepped ==
  ASSUME SessionsInOrder
  PROVE  Spec => []StepsTheProgram
<1>1. InOrder => StepsTheProgram BY DEF InOrder, TracesInPlace, StepsTheProgram
<1> QED BY <1>1, KdbInOrder, PTL

(***************************************************************************)
(* Where the machine is stopped and nothing is on the line, gdb has been   *)
(* told (kdb_service, and the answer to the packet that attaches).         *)
(***************************************************************************)
THEOREM StopsAreKnown ==
  ASSUME SessionsInOrder
  PROVE  Spec => []StopIsKnown
<1>1. ASSUME InOrder PROVE StopIsKnown
  <2>1. SUFFICES ASSUME kdb.attached, kdb.suspended, Quiet PROVE host = "stopped"
    BY DEF StopIsKnown
  <2>2. Reporting \/ Attaching \/ Commanded BY <1>1, <2>1 DEF InOrder, LineInPlace
  <2>3. kdb.rx = <<>> /\ kdb.sentToHost = <<>> /\ outstanding = "none" BY <2>1 DEF Quiet
  <2>4. ~Reporting /\ ~Attaching BY <2>3, Packets DEF Reporting, Attaching
  <2> QED BY <2>2, <2>4 DEF Commanded
<1> QED BY <1>1, KdbInOrder, PTL

(***************************************************************************)
(* After a detach the machine runs, unless the program met a breakpoint of *)
(* its own (kdb_command_detach).                                           *)
(***************************************************************************)
THEOREM DetachedRuns ==
  ASSUME SessionsInOrder
  PROVE  Spec => []DetachedTargetRuns
<1>1. ASSUME InOrder PROVE DetachedTargetRuns
  <2>1. SUFFICES ASSUME host = "detached", Quiet, kdb.suspended
                 PROVE  \E n \in 1 .. Level(kdb) : kdb.stack[n].kind = "soft"
    BY DEF DetachedTargetRuns
  <2>2. ContextInPlace /\ LineInPlace /\ Level(kdb) \in Nat BY <1>1, InOrderFacts
  <2>3. kdb.rx = <<>> /\ kdb.sentToHost = <<>> /\ outstanding = "none" BY <2>1 DEF Quiet
  <2>4. ~Reporting /\ ~Attaching /\ ~Commanded
    BY <2>1, <2>3, Packets DEF Reporting, Attaching, Commanded
  <2>5. kdb.stack[1].kind = "soft" BY <2>1, <2>2, <2>4 DEF LineInPlace
  <2>6. 1 \in 1 .. Level(kdb) BY <2>1, <2>2 DEF ContextInPlace
  <2> QED BY <2>5, <2>6
<1> QED BY <1>1, KdbInOrder, PTL
=============================================================================
