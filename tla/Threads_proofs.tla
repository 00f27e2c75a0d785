---------------------------- MODULE Threads_proofs ----------------------------
(***************************************************************************)
(* The threads of a process and its table agree, for any number of slots,  *)
(* and for all programs that keep to the rules that the code needs.        *)
(***************************************************************************)
EXTENDS Threads, Integers, NaturalsInduction, WellFoundedInduction, TLAPS

-----------------------------------------------------------------------------
(* The parts of a slot *)

St(q) == proc[q].state
Ch(q) == proc[q].chan
Mn(q) == proc[q].is_main
Mp(q) == proc[q].main_ptr
Pa(q) == proc[q].parent
Ki(q) == proc[q].killed
Tn(q) == proc[q].thread_num
TS(m, n) == proc[m].table[n].state
TT(m, n) == proc[m].table[n].thread

Pc(q) == at[q].pc
Lm(q) == at[q].main
Ln(q) == at[q].node
Lo(q) == at[q].other

Maybe == 0 .. NPROC
Pcs   == {"user", "create", "create_pid", "create_end", "join", "fork", "fork_end", "wait",
          "exit", "exit_woken", "exec", "exec_main", "setlimit"}
States == {"UNUSED", "EMBRYO", "SLEEPING", "RUNNABLE", "ZOMBIE"}
NodeStates == {"T_UNUSED", "T_ALLOCATED", "T_USING", "T_ZOMBIE"}
Chans == {NoChan, <<"dev">>} \cup {<<"wait", q>> : q \in Slot} \cup {<<"exit", q>> : q \in Slot}
         \cup {<<"join", m, n>> : m \in Slot, n \in Node}

NodeRec == [state : NodeStates, thread : Maybe, ustack : Nat, retval : Nat]
SlotRec ==
    [state : States, chan : Chans, kstack : BOOLEAN, pid : Int,
     parent : Maybe, killed : BOOLEAN, is_main : BOOLEAN, main_ptr : Maybe,
     thread_id : Nat, sz : Nat, memory_limit : Nat, thread_num : Nat,
     main_stack : Nat, table : [Node -> NodeRec]]
Locals == [pc : Pcs, main : Maybe, node : Maybe, other : Maybe, arg : Nat, fresh : BOOLEAN]

Types ==
    /\ proc \in [Slot -> SlotRec] /\ at \in [Slot -> Locals]
    /\ nextpid \in Int /\ panic \in BOOLEAN /\ program \in Programs

-----------------------------------------------------------------------------
(* The invariant *)

Up(q)     == St(q) \in {"RUNNABLE", "SLEEPING"}
There(q)  == Up(q) \/ St(q) = "ZOMBIE"
Thread(t) == There(t) /\ ~ Mn(t)
Leader(m) == Up(m) /\ Mn(m) /\ Pc(m) # "exit"
Chief(q)  == IF Mn(q) THEN q ELSE Mp(q)

Using(m, n) == TS(m, n) = "T_USING"
Ended(m, n) == TS(m, n) = "T_ZOMBIE"
Used(m, n)  == Using(m, n) \/ Ended(m, n)

\* A thread has called exec(), and the main thread is still there.
Replaced(m) == \E s \in Slot : Mp(s) = m /\ Pc(s) = "exec_main"

Creating == {"create", "create_pid", "create_end"}
Making   == {"create_pid", "create_end", "fork", "fork_end"}

\* What does not live is not in the kernel.
IdleOK(q) == ~ Up(q) => Pc(q) = "user"

\* A thread belongs to a main thread that is there, and is in its table.
Placed(t, m) ==
    \E n \in Node : TT(m, n) = t /\ (IF Up(t) THEN Using(m, n) ELSE Ended(m, n))
ThreadOK(t) == Thread(t) => \E m \in Slot : Mp(t) = m /\ Leader(m) /\ Placed(t, m)

\* What a node that is in use names.
Holds(m, t, state) ==
    /\ t \in Slot /\ ~ Mn(t) /\ Mp(t) = m
    /\ state = "T_USING" => Up(t)
    /\ state = "T_ZOMBIE" => St(t) = "ZOMBIE"
NodeOK(m, n) ==
    /\ TT(m, n) # m
    /\ Used(m, n) \/ TT(m, n) = NULL
    /\ Used(m, n) /\ ~ Replaced(m) => Holds(m, TT(m, n), TS(m, n))
Distinct(m) ==
    \A n, k \in Node : Used(m, n) /\ Used(m, k) /\ TT(m, n) = TT(m, k) => n = k
TableOK(m) == Leader(m) => (\A n \in Node : NodeOK(m, n)) /\ (Replaced(m) \/ Distinct(m))

\* What a slot in the kernel relies on.
CreateOK(s) ==
    /\ Mn(s) /\ Lm(s) = s /\ Ln(s) \in Node /\ TS(s, Ln(s)) = "T_ALLOCATED"
    /\ Tn(s) < program.threads
MakeOK(s) == Lo(s) \in Slot /\ St(Lo(s)) = "EMBRYO"
ForkOK(s) == Lm(s) = Chief(s) /\ (Pc(s) = "fork_end" => Pa(Lo(s)) = Lm(s))
JoinOK(s) ==
    /\ Mn(s) /\ Lm(s) = s /\ Ln(s) \in Node
    /\ Used(s, Ln(s)) /\ Lo(s) = TT(s, Ln(s))
    /\ St(s) = "SLEEPING" => Using(s, Ln(s)) /\ Ch(s) = <<"join", s, Ln(s)>>
ReplaceOK(s) ==
    /\ ~ Mn(s) /\ Up(s) /\ Replacing(program) /\ Tn(Mp(s)) = program.threads
    /\ \A t \in Slot \ {s} : Thread(t) => Mp(t) # Mp(s)
KernelOK(s) ==
    /\ Pc(s) \in Creating => CreateOK(s)
    /\ Pc(s) \in Making => MakeOK(s)
    /\ Pc(s) \in {"fork", "fork_end"} => ForkOK(s)
    /\ Pc(s) = "join" => JoinOK(s)
    /\ Pc(s) = "exec_main" => ReplaceOK(s)
    /\ Pc(s) = "exec" => Mn(s) /\ \A n \in Node : ~ Used(s, n)
    /\ Pc(s) = "exit" => Mn(s) /\ s # INITPROC
    /\ Pc(s) = "exit_woken" => ~ Mn(s)

\* No two fill in one slot.
EmbryosOK ==
    \A s, r \in Slot : Pc(s) \in Making /\ Pc(r) \in Making /\ Lo(s) = Lo(r) => s = r

\* Who is not init has a parent that can wait.
ParentOK(m) ==
    m # INITPROC /\ Mn(m) /\ There(m) =>
        Pa(m) \in Slot /\ Pa(m) # m /\ Mn(Pa(m)) /\ Up(Pa(m))
InitOK ==
    /\ Up(INITPROC) /\ Mn(INITPROC) /\ Pc(INITPROC) \in {"user", "wait"}
    /\ \A t \in Slot : Thread(t) => Mp(t) # INITPROC

\* A program without threads has none, and one that is replaced by exec() is not
\* ended.
AloneOK(q) == program.threads <= 1 => (There(q) => Mn(q)) /\ (Up(q) => Tn(q) >= 1)
LastingOK(q) ==
    Replacing(program) =>
        /\ ~ Ki(q) /\ Pc(q) \notin {"exit", "exit_woken", "join"}
        /\ St(q) = "ZOMBIE" => ~ Mn(q)

Sound ==
    /\ \A q \in Slot : IdleOK(q) /\ ThreadOK(q) /\ TableOK(q) /\ KernelOK(q) /\ ParentOK(q)
                       /\ AloneOK(q) /\ LastingOK(q)
    /\ EmbryosOK /\ InitOK

ThreadsInv == Types /\ (panic \/ Sound)

-----------------------------------------------------------------------------
(* Slots and types *)

LEMMA Numbers ==
    /\ NPROC \in Nat /\ Slot \subseteq Nat /\ NULL \notin Slot /\ Node = Slot
    /\ INITPROC \in Slot /\ FIRST \in Slot /\ INITPROC # FIRST
    /\ Maybe = Slot \cup {NULL} /\ ImageSize \in Nat /\ NULL = 0
  BY ThreadsAssumption, SMT DEF Slot, Node, NULL, INITPROC, FIRST, Maybe

LEMMA Channels ==
    /\ NoChan \in Chans /\ <<"dev">> \in Chans
    /\ \A q \in Slot : <<"wait", q>> \in Chans /\ <<"exit", q>> \in Chans
    /\ \A m \in Slot, n \in Node : <<"join", m, n>> \in Chans
  BY DEF Chans

\* The loops over the process table and the thread table stop at the first that fits.
LEMMA FirstIn ==
    ASSUME NEW S \in SUBSET Slot, S # {}
    PROVE  First(S) \in S
  <1>1. S \in SUBSET Nat
    BY Numbers
  <1>2. PICK m \in S : \A k \in S : ~ (<<k, m>> \in OpToRel(<, Nat))
    BY <1>1, NatLessThanWellFounded, WFMin, Zenon
  <1>3. \A k \in S : ~ (k < m)
    BY <1>1, <1>2 DEF OpToRel
  <1>4. \E x \in S : \A y \in S : x <= y
    BY <1>1, <1>3
  <1> QED BY <1>4 DEF First

LEMMA InitTypes == Init => Types
  <1> SUFFICES ASSUME Init PROVE Types
    OBVIOUS
  <1>1. NoTable \in [Node -> NodeRec]
    BY Numbers DEF NoTable, FreeNode, NodeRec, NodeStates
  <1>2. FreeSlot \in SlotRec
    BY <1>1, Numbers, Channels DEF FreeSlot, SlotRec, States
  <1>3. User \in Locals
    BY Numbers DEF User, Locals, Pcs
  <1>4. ASSUME NEW s \in Slot, NEW q \in Maybe, NEW i \in Int PROVE MainSlot(s, i, q) \in SlotRec
    <2> DEFINE r1 == [FreeSlot EXCEPT !.state = "RUNNABLE", !.kstack = TRUE, !.pid = i]
               r2 == [r1 EXCEPT !.parent = q, !.is_main = TRUE, !.main_ptr = s]
               r3 == [r2 EXCEPT !.sz = ImageSize, !.thread_num = 1, !.main_stack = ImageSize]
    <2>1. r1 \in SlotRec
      BY <1>2 DEF SlotRec, States
    <2>2. r2 \in SlotRec
      <3> HIDE DEF r1
      <3> QED BY <2>1, Numbers DEF SlotRec
    <2>3. r3 \in SlotRec
      <3> HIDE DEF r2
      <3> QED BY <2>2, Numbers DEF SlotRec
    <2>4. MainSlot(s, i, q) = r3
      BY DEF MainSlot
    <2> QED BY <2>3, <2>4
  <1>5. ASSUME NEW r \in SlotRec PROVE [r EXCEPT !.state = "SLEEPING", !.chan = <<"wait", INITPROC>>] \in SlotRec
    BY Numbers, Channels DEF SlotRec, States
  <1>6. proc \in [Slot -> SlotRec]
    <2>1. MainSlot(INITPROC, 1, NULL) \in SlotRec /\ MainSlot(FIRST, 2, INITPROC) \in SlotRec
      BY <1>4, Numbers
    <2>2. [MainSlot(INITPROC, 1, NULL) EXCEPT !.state = "SLEEPING", !.chan = <<"wait", INITPROC>>] \in SlotRec
      BY <1>5, <2>1
    <2> QED BY <1>2, <2>1, <2>2 DEF Init
  <1>7. [User EXCEPT !.pc = "wait", !.main = INITPROC] \in Locals
    BY Numbers DEF User, Locals, Pcs
  <1>8. at \in [Slot -> Locals]
    <2> DEFINE w == [User EXCEPT !.pc = "wait", !.main = INITPROC]
    <2>1. at = [s \in Slot |-> IF s = INITPROC THEN w ELSE User]
      BY DEF Init
    <2>2. w \in Locals
      BY <1>7
    <2> HIDE DEF w
    <2> QED BY <1>3, <2>1, <2>2
  <1>9. nextpid = 3 /\ panic = FALSE /\ program \in Programs
    BY DEF Init
  <1>10. nextpid \in Int /\ panic \in BOOLEAN
    <2>1. nextpid \in Int
      BY <1>9
    <2>2. panic \in BOOLEAN
      BY <1>9
    <2> QED BY <2>1, <2>2
  <1> QED BY <1>6, <1>8, <1>9, <1>10 DEF Types

-----------------------------------------------------------------------------
(* Steps that neither start nor end anything *)

SameTies(q) == Mn(q)' = Mn(q) /\ Mp(q)' = Mp(q) /\ Pa(q)' = Pa(q) /\ Tn(q)' = Tn(q)
SameNode(m, n) == TS(m, n)' = TS(m, n) /\ TT(m, n)' = TT(m, n)
SameAt(q) == Pc(q)' = Pc(q) /\ Lm(q)' = Lm(q) /\ Ln(q)' = Ln(q) /\ Lo(q)' = Lo(q)
Woken(q)  == St(q) = "SLEEPING" /\ St(q)' = "RUNNABLE"
Stays(q)  == (St(q)' = St(q) /\ Ch(q)' = Ch(q)) \/ Woken(q)

\* s fills in the slot e.
Fills(s, e) == Pc(s) \in Making /\ Lo(s) = e

\* s may change what it has on its own, nodes that are not in use, slots that are
\* free and the one it fills in.
Quiet(s) ==
    /\ program' = program /\ Up(s) /\ Up(s)'
    /\ \A q \in Slot : There(q) =>
         /\ SameTies(q) /\ There(q)' /\ (q = s \/ Stays(q))
         /\ \A n \in Node : SameNode(q, n) \/
              (q = s /\ ~ Used(q, n) /\ ~ Used(q, n)' /\ TT(q, n)' = TT(q, n))
    /\ \A e \in Slot : ~ There(e) =>
         /\ ~ There(e)'
         /\ St(e) = "EMBRYO" /\ ~ Fills(s, e) => St(e)' = St(e) /\ Pa(e)' = Pa(e)
    /\ \A q \in Slot \ {s} : SameAt(q)

LEMMA QuietKeeps ==
    ASSUME NEW s \in Slot, Sound, Quiet(s), Pc(s) \notin {"exit", "exec_main"},
           Pc(s)' \notin {"exit", "exec_main"}, KernelOK(s)', EmbryosOK',
           \A q \in Slot : LastingOK(q)', s = INITPROC => Pc(s)' \in {"user", "wait"}
    PROVE  Sound'
  <1> USE Numbers
  <1>0. \A q \in Slot : Mn(q) /\ Up(q) => There(q)
    BY DEF There
  <1>1. \A q \in Slot : Up(q)' = Up(q) /\ There(q)' = There(q)
    BY DEF Quiet, Stays, Woken, Up, There
  <1>2. \A q \in Slot : There(q) => SameTies(q) /\ (q = s \/ Stays(q))
    BY DEF Quiet
  <1>3. \A q \in Slot : Thread(q)' = Thread(q) /\ Leader(q)' = Leader(q) /\ (There(q) => Chief(q)' = Chief(q))
    <2> TAKE q \in Slot
    <2>1. There(q) => Mn(q)' = Mn(q) /\ Mp(q)' = Mp(q)
      BY <1>2 DEF SameTies
    <2>2. Pc(q)' = "exit" <=> Pc(q) = "exit"
      BY DEF Quiet, SameAt
    <2> QED BY <1>1, <2>1, <2>2 DEF Leader, Chief, Thread, There
  <1>4. \A q \in Slot : Pc(q) = "exec_main" <=> Pc(q)' = "exec_main"
    BY DEF Quiet, SameAt
  <1>5. \A q \in Slot : Pc(q) # "user" => There(q)
    BY DEF Sound, IdleOK, There
  <1>6. \A m \in Slot : Replaced(m)' = Replaced(m)
    BY <1>2, <1>4, <1>5 DEF Replaced, SameTies
  <1>7. \A m \in Slot, n \in Node : There(m) =>
           Used(m, n)' = Used(m, n) /\ Using(m, n)' = Using(m, n) /\ Ended(m, n)' = Ended(m, n) /\ TT(m, n)' = TT(m, n)
    BY DEF Quiet, Used, Using, Ended, SameNode
  <1>8. ASSUME NEW q \in Slot PROVE IdleOK(q)'
    BY <1>1 DEF Sound, IdleOK, Quiet, SameAt
  <1>9. ASSUME NEW q \in Slot PROVE ThreadOK(q)'
    <2> SUFFICES ASSUME Thread(q)' PROVE \E m \in Slot : Mp(q)' = m /\ Leader(m)' /\ Placed(q, m)'
      BY DEF ThreadOK
    <2>1. PICK m \in Slot : Mp(q)' = m /\ Mp(q) = m /\ Leader(m) /\ Placed(q, m)
      BY <1>2, <1>3 DEF Sound, ThreadOK, SameTies, Thread
    <2>2. There(m)
      BY <2>1 DEF Leader, There
    <2> QED BY <1>1, <1>3, <1>7, <2>1, <2>2 DEF Placed
  <1>10. ASSUME NEW m \in Slot PROVE TableOK(m)'
    <2> SUFFICES ASSUME Leader(m)' PROVE (\A n \in Node : NodeOK(m, n)') /\ (Replaced(m)' \/ Distinct(m)')
      BY DEF TableOK
    <2>1. /\ (\A n \in Node : NodeOK(m, n)) /\ (Replaced(m) \/ Distinct(m))
          /\ There(m)
      BY <1>3 DEF Sound, TableOK, Leader, There
    <2>2. ASSUME NEW n \in Node PROVE NodeOK(m, n)'
      <3>1. CASE Used(m, n) /\ ~ Replaced(m)
        <4>1. PICK t \in Slot : t = TT(m, n) /\ Holds(m, t, TS(m, n)) /\ t # m
          BY <2>1, <3>1 DEF NodeOK, Holds
        <4>2. There(t) /\ t \in Slot
          BY <3>1, <4>1 DEF Holds, Used, Using, Ended, There
        <4>3. ~ Mn(t)' /\ Mp(t)' = m /\ Up(t)' = Up(t) /\ (t = s \/ Stays(t))
          BY <1>1, <1>2, <4>1, <4>2 DEF Holds, SameTies
        <4>4. TT(m, n)' = t /\ TS(m, n)' = TS(m, n)
          BY <2>1, <3>1, <4>1 DEF Quiet, SameNode
        <4>5. St(t) = "ZOMBIE" => St(t)' = "ZOMBIE"
          BY <4>3 DEF Stays, Woken, Quiet, Up
        <4>6. Holds(m, t, TS(m, n))'
          BY <4>1, <4>2, <4>3, <4>4, <4>5 DEF Holds
        <4> QED BY <1>6, <1>7, <2>1, <3>1, <4>1, <4>4, <4>6 DEF NodeOK
      <3>2. CASE ~ (Used(m, n) /\ ~ Replaced(m))
        BY <1>6, <1>7, <2>1, <3>2 DEF NodeOK
      <3> QED BY <3>1, <3>2
    <2>3. Replaced(m)' \/ Distinct(m)'
      BY <1>6, <1>7, <2>1 DEF Distinct
    <2> QED BY <2>2, <2>3
  <1>11. ASSUME NEW q \in Slot, q # s PROVE KernelOK(q)'
    <2>1. KernelOK(q) /\ SameAt(q) /\ (Pc(q) # "user" => SameTies(q) /\ Stays(q) /\ There(q))
      BY <1>2, <1>5, <1>11 DEF Sound, Quiet
    <2>0. \A n \in Node : There(q) => SameNode(q, n)
      BY <1>11 DEF Quiet
    <2>2. Pc(q) \in Creating => CreateOK(q)'
      BY <2>0, <2>1 DEF KernelOK, CreateOK, SameAt, SameTies, Quiet, Creating, SameNode
    <2>3. Pc(q) \in Making => MakeOK(q)' /\ Pa(Lo(q))' = Pa(Lo(q))
      <3> SUFFICES ASSUME Pc(q) \in Making PROVE MakeOK(q)' /\ Pa(Lo(q))' = Pa(Lo(q))
        OBVIOUS
      <3>1. PICK e \in Slot : e = Lo(q) /\ St(e) = "EMBRYO" /\ ~ Fills(s, e)
        BY <1>11, <2>1 DEF KernelOK, MakeOK, Fills, Sound, EmbryosOK
      <3>2. St(e)' = "EMBRYO" /\ Pa(e)' = Pa(e)
        BY <3>1 DEF Quiet, There, Up
      <3> QED BY <2>1, <3>1, <3>2 DEF MakeOK, SameAt
    <2>4. Pc(q) \in {"fork", "fork_end"} => ForkOK(q)'
      BY <1>3, <2>1, <2>3 DEF KernelOK, ForkOK, SameAt, SameTies, Making
    <2>5. Pc(q) = "join" => JoinOK(q)'
      BY <1>7, <2>1 DEF KernelOK, JoinOK, SameAt, SameTies, Stays, Woken
    <2>6. Pc(q) = "exec_main" => ReplaceOK(q)'
      <3> SUFFICES ASSUME Pc(q) = "exec_main" PROVE ReplaceOK(q)'
        OBVIOUS
      <3>1. ReplaceOK(q) /\ Thread(q)
        BY <2>1 DEF KernelOK, ReplaceOK, Thread
      <3>2. PICK m \in Slot : Mp(q) = m /\ There(m)
        BY <3>1 DEF Sound, ThreadOK, Leader, There
      <3>3. Tn(m)' = Tn(m) /\ Mp(q)' = m
        BY <1>2, <2>1, <3>2 DEF SameTies
      <3>4. \A t \in Slot \ {q} : Thread(t)' => Mp(t)' # m
        BY <1>2, <1>3, <3>1, <3>2 DEF ReplaceOK, SameTies, Thread
      <3> QED BY <1>1, <2>1, <3>1, <3>2, <3>3, <3>4 DEF ReplaceOK, SameTies, Quiet
    <2> QED BY <1>7, <2>1, <2>2, <2>3, <2>4, <2>5, <2>6 DEF KernelOK, SameAt, SameTies
  <1>12. ASSUME NEW m \in Slot PROVE ParentOK(m)'
    <2> SUFFICES ASSUME m # INITPROC, Mn(m)', There(m)'
                 PROVE  Pa(m)' \in Slot /\ Pa(m)' # m /\ Mn(Pa(m))' /\ Up(Pa(m))'
      BY DEF ParentOK
    <2>1. There(m) /\ Mn(m) /\ Pa(m)' = Pa(m)
      BY <1>1, <1>2 DEF SameTies
    <2>2. PICK p \in Slot : Pa(m) = p /\ p # m /\ Mn(p) /\ Up(p)
      BY <2>1 DEF Sound, ParentOK
    <2>3. Mn(p)' /\ Up(p)'
      BY <1>1, <1>2, <2>2 DEF SameTies, There
    <2> QED BY <2>1, <2>2, <2>3
  <1>13. ASSUME NEW q \in Slot PROVE AloneOK(q)'
    BY <1>1, <1>2 DEF Sound, AloneOK, Quiet, SameTies, There
  <1>14. InitOK'
    <2>1. Up(INITPROC)' /\ Mn(INITPROC)' /\ Pc(INITPROC)' \in {"user", "wait"}
      BY <1>1, <1>2 DEF Sound, InitOK, Quiet, SameTies, SameAt, There
    <2>2. \A t \in Slot : Thread(t)' => Mp(t)' # INITPROC
      BY <1>2, <1>3 DEF Sound, InitOK, SameTies, Thread
    <2> QED BY <2>1, <2>2 DEF InitOK
  <1> QED BY <1>8, <1>9, <1>10, <1>11, <1>12, <1>13, <1>14 DEF Sound

-----------------------------------------------------------------------------
(* Calls *)

LEMMA CallIs ==
    ASSUME AllOrderly, Types, Sound, NEW s \in Slot, NEW c, Calls(s, c), c # "wait"
    PROVE  /\ ~ panic /\ St(s) = "RUNNABLE" /\ Pc(s) = "user" /\ s # INITPROC
           /\ c \in {"create", "join", "exec"} => Mn(s)
           /\ c \in {"exec", "exec late"} /\ Mn(s) => program.threads <= 1
           /\ c \in {"exit", "kill"} => ~ Replacing(program)
           /\ c = "exec late" /\ ~ Mn(s) => Replacing(program)
           /\ c = "join" => ~ Replacing(program)
  <1>1. Orderly(program)
    BY DEF AllOrderly, Types
  <1>2. << IF Mn(s) THEN "main" ELSE "thread", c >> \in program.calls /\ s # INITPROC
    BY DEF Calls, Mn
  <1>3. ~ panic /\ St(s) = "RUNNABLE" /\ Pc(s) = "user"
    BY DEF Calls, At, St, Pc
  <1>4. (c \in {"create", "join", "exec"} => Mn(s)) /\ (c = "exec late" /\ ~ Mn(s) => Replacing(program))
    BY <1>1, <1>2 DEF Orderly, Makes, Replacing
  <1>5. c \in {"exec", "exec late"} /\ Mn(s) => program.threads <= 1
    BY <1>1, <1>2 DEF Orderly, Makes
  <1>6. (c \in {"exit", "kill"} => ~ Replacing(program)) /\ (c = "join" => ~ Replacing(program))
    BY <1>1, <1>2, <1>4 DEF Orderly, Makes
  <1> QED BY <1>2, <1>3, <1>4, <1>5, <1>6

LEMMA ChiefIs ==
    ASSUME Types, Sound, NEW s \in Slot, Up(s)
    PROVE  /\ Main(s) = Chief(s) /\ Chief(s) \in Slot /\ There(Chief(s)) /\ Mn(Chief(s)) /\ Up(Chief(s))
           /\ ~ Mn(s) => Chief(s) # s
  <1>1. Main(s) = Chief(s)
    BY DEF Main, Chief, Mn, Mp
  <1>2. CASE Mn(s)
    BY <1>1, <1>2 DEF Chief, There
  <1>3. CASE ~ Mn(s)
    <2>1. PICK m \in Slot : Mp(s) = m /\ Leader(m)
      BY <1>3 DEF Sound, ThreadOK, Thread, There
    <2> QED BY <1>1, <1>3, <2>1 DEF Chief, Leader, There
  <1> QED BY <1>2, <1>3

-----------------------------------------------------------------------------
(* What an assignment to a slot or to its locals changes *)

Untouched(q) ==
    /\ St(q)' = St(q) /\ Ch(q)' = Ch(q) /\ Ki(q)' = Ki(q) /\ SameTies(q)
    /\ \A n \in Node : SameNode(q, n)

LEMMA Kept ==
    ASSUME NEW q, proc'[q] = proc[q]
    PROVE  Untouched(q)
  BY DEF Untouched, St, Ch, Ki, SameTies, SameNode, Mn, Mp, Pa, Tn, TS, TT

LEMMA Writes ==
    ASSUME Types, NEW q \in Slot, NEW r \in SlotRec, proc' = [proc EXCEPT ![q] = r]
    PROVE  /\ proc' \in [Slot -> SlotRec] /\ proc'[q] = r
           /\ \A p \in Slot \ {q} : proc'[p] = proc[p] /\ Untouched(p)
  <1>1. proc' \in [Slot -> SlotRec] /\ proc'[q] = r /\ \A p \in Slot \ {q} : proc'[p] = proc[p]
    BY DEF Types
  <1> QED BY <1>1, Kept

LEMMA Moves ==
    ASSUME Types, NEW s \in Slot, NEW l \in Locals, at' = [at EXCEPT ![s] = l]
    PROVE  /\ at' \in [Slot -> Locals] /\ at'[s] = l
           /\ Pc(s)' = l.pc /\ Lm(s)' = l.main /\ Ln(s)' = l.node /\ Lo(s)' = l.other
           /\ \A q \in Slot \ {s} : SameAt(q)
  <1>1. at' \in [Slot -> Locals] /\ at'[s] = l /\ \A q \in Slot \ {s} : at'[q] = at[q]
    BY DEF Types
  <1> QED BY <1>1 DEF SameAt, Pc, Lm, Ln, Lo

LEMMA LocalsAre ==
    /\ User \in Locals /\ User.pc = "user"
    /\ \A l \in Locals : \A pc \in Pcs : [l EXCEPT !.pc = pc] \in Locals
  BY Numbers DEF User, Locals, Pcs

\* A node of a table is set.
LEMMA NodeWrites ==
    ASSUME Types, NEW m \in Slot, NEW k \in Node, NEW v \in NodeStates,
           proc' = [proc EXCEPT ![m].table[k].state = v]
    PROVE  /\ proc' \in [Slot -> SlotRec]
           /\ \A q \in Slot : /\ St(q)' = St(q) /\ Ch(q)' = Ch(q) /\ Ki(q)' = Ki(q) /\ SameTies(q)
                             /\ \A n \in Node : SameNode(q, n) \/ (q = m /\ n = k)
           /\ TS(m, k)' = v /\ TT(m, k)' = TT(m, k)
  <1> DEFINE node == [proc[m].table[k] EXCEPT !.state = v]
             table == [proc[m].table EXCEPT ![k] = node]
             slot == [proc[m] EXCEPT !.table = table]
  <1>1. proc[m] \in SlotRec /\ proc[m].table \in [Node -> NodeRec]
    BY DEF Types, SlotRec
  <1>2. node \in NodeRec /\ node.state = v /\ node.thread = proc[m].table[k].thread
    BY <1>1 DEF NodeRec
  <1>3. proc' = [proc EXCEPT ![m] = slot]
    OBVIOUS
  <1> HIDE DEF node
  <1>4. table \in [Node -> NodeRec] /\ table[k] = node /\ \A n \in Node \ {k} : table[n] = proc[m].table[n]
    BY <1>1, <1>2
  <1> HIDE DEF table
  <1>5. /\ slot \in SlotRec /\ slot.table = table /\ slot.state = proc[m].state
        /\ slot.chan = proc[m].chan /\ slot.killed = proc[m].killed /\ slot.is_main = proc[m].is_main
        /\ slot.main_ptr = proc[m].main_ptr /\ slot.parent = proc[m].parent
        /\ slot.thread_num = proc[m].thread_num
    BY <1>1, <1>4 DEF SlotRec
  <1> HIDE DEF slot
  <1>6. /\ proc' \in [Slot -> SlotRec] /\ proc'[m] = slot
        /\ \A q \in Slot \ {m} : Untouched(q)
    BY <1>3, <1>5, Writes
  <1>7. St(m)' = St(m) /\ Ch(m)' = Ch(m) /\ Ki(m)' = Ki(m) /\ SameTies(m)
    BY <1>5, <1>6 DEF St, Ch, Ki, SameTies, Mn, Mp, Pa, Tn
  <1>8. \A n \in Node \ {k} : SameNode(m, n)
    BY <1>4, <1>5, <1>6 DEF SameNode, TS, TT
  <1>9. TS(m, k)' = v /\ TT(m, k)' = TT(m, k)
    BY <1>2, <1>4, <1>5, <1>6 DEF TS, TT
  <1> QED BY <1>6, <1>7, <1>8, <1>9 DEF Untouched

LEMMA CreateReserveStep ==
    ASSUME AllOrderly, ThreadsInv, NEW s \in Slot, CreateReserve(s)
    PROVE  ThreadsInv'
  <1> USE Numbers
  <1>1. Calls(s, "create") /\ UNCHANGED <<nextpid, panic, program>>
    BY DEF CreateReserve
  <1>2. Types /\ Sound /\ ~ panic
    BY <1>1 DEF ThreadsInv, Calls, At
  <1>3. /\ St(s) = "RUNNABLE" /\ Pc(s) = "user" /\ s # INITPROC /\ Mn(s) /\ Main(s) = s
    BY <1>1, <1>2, CallIs, ChiefIs DEF Chief, Up
  <1> DEFINE free == {n \in Node : proc[s].table[n].state \in {"T_UNUSED", "T_ALLOCATED"}}
  <1>4. First(free) \in free /\ proc[s].thread_num < program.threads
    BY <1>3, FirstIn DEF CreateReserve
  <1>5. PICK k \in Node : k = First(free) /\ TS(s, k) \in {"T_UNUSED", "T_ALLOCATED"}
    BY <1>4 DEF TS
  <1> DEFINE local == [User EXCEPT !.pc = "create", !.main = s, !.node = k, !.arg = proc[s].sz,
                                   !.fresh = proc[s].table[k].state = "T_UNUSED"]
  <1>6. local \in Locals
    BY <1>2 DEF Types, SlotRec, Locals, User, Pcs
  <1>17. local.pc = "create" /\ local.main = s /\ local.node = k
    BY DEF User
  <1> HIDE DEF local
  <1>18. PICK l \in Locals : l = local
    BY <1>6
  <1>19. l.pc = "create" /\ l.main = s /\ l.node = k
    BY <1>17, <1>18
  <1>0. /\ proc' = [proc EXCEPT ![s].table[k].state = "T_ALLOCATED"]
        /\ at' = [at EXCEPT ![s] = l]
    BY <1>3, <1>5, <1>18 DEF CreateReserve, local
  <1>7. /\ proc' \in [Slot -> SlotRec]
        /\ \A q \in Slot : /\ St(q)' = St(q) /\ Ch(q)' = Ch(q) /\ Ki(q)' = Ki(q) /\ SameTies(q)
                          /\ \A n \in Node : SameNode(q, n) \/ (q = s /\ n = k)
        /\ TS(s, k)' = "T_ALLOCATED" /\ TT(s, k)' = TT(s, k)
    BY <1>0, <1>2, NodeWrites DEF NodeStates
  <1>21. /\ at' \in [Slot -> Locals] /\ Pc(s)' = l.pc /\ Lm(s)' = l.main /\ Ln(s)' = l.node
         /\ \A q \in Slot \ {s} : SameAt(q)
    BY <1>0, <1>2, Moves
  <1>8. /\ at' \in [Slot -> Locals] /\ Pc(s)' = "create" /\ Lm(s)' = s /\ Ln(s)' = k
        /\ \A q \in Slot \ {s} : SameAt(q)
    BY <1>19, <1>21
  <1>9. Types'
    BY <1>1, <1>2, <1>7, <1>8 DEF Types
  <1>10. ~ Used(s, k) /\ ~ Used(s, k)'
    BY <1>5, <1>7 DEF Used, Using, Ended
  <1>11. program' = program /\ Up(s) /\ Up(s)' /\ \A q \in Slot : There(q)' = There(q) /\ Stays(q)
    BY <1>1, <1>3, <1>7 DEF Up, There, Stays
  <1>12. Quiet(s)
    BY <1>7, <1>8, <1>10, <1>11 DEF Quiet, SameTies
  <1>13. Tn(s)' < program'.threads /\ Mn(s)'
    BY <1>1, <1>3, <1>4, <1>7 DEF SameTies, Tn
  <1>14. KernelOK(s)'
    BY <1>5, <1>7, <1>8, <1>13 DEF KernelOK, CreateOK, Creating, Making
  <1>15. EmbryosOK'
    BY <1>2, <1>8 DEF Sound, EmbryosOK, SameAt, Making
  <1>16. ASSUME NEW q \in Slot PROVE LastingOK(q)'
    BY <1>1, <1>2, <1>7, <1>8 DEF Sound, LastingOK, SameAt, SameTies
  <1>20. Sound'
    BY <1>2, <1>3, <1>8, <1>12, <1>14, <1>15, <1>16, QuietKeeps
  <1> QED BY <1>9, <1>20 DEF ThreadsInv

-----------------------------------------------------------------------------
(* Steps that change no table and no tie *)

LEMMA GoesTo ==
    ASSUME Types, NEW s \in Slot, NEW pc \in Pcs, at' = [at EXCEPT ![s].pc = pc]
    PROVE  /\ at' \in [Slot -> Locals] /\ Pc(s)' = pc
           /\ Lm(s)' = Lm(s) /\ Ln(s)' = Ln(s) /\ Lo(s)' = Lo(s)
           /\ \A q \in Slot \ {s} : SameAt(q)
  BY DEF Types, Locals, Pc, Lm, Ln, Lo, SameAt

LEMMA GoesHome ==
    ASSUME Types, NEW s \in Slot, at' = [at EXCEPT ![s] = User]
    PROVE  at' \in [Slot -> Locals] /\ Pc(s)' = "user" /\ \A q \in Slot \ {s} : SameAt(q)
  BY LocalsAre, Moves

LEMMA StandsStill ==
    ASSUME Types, at' = at
    PROVE  at' \in [Slot -> Locals] /\ \A q \in Slot : SameAt(q)
  BY DEF Types, SameAt, Pc, Lm, Ln, Lo

\* No slot starts or ends, and no tie or node changes.
Bare(s) ==
    /\ program' = program /\ Up(s) /\ Up(s)'
    /\ \A q \in Slot : SameTies(q) /\ \A n \in Node : SameNode(q, n)
    /\ \A q \in Slot \ {s} : Stays(q) /\ SameAt(q)

LEMMA BareIsQuiet ==
    ASSUME NEW s \in Slot, Bare(s)
    PROVE  Quiet(s)
  BY DEF Bare, Quiet, Stays, Woken, There, Up, SameTies

\* What a step leaves that goes on in a call without locals to rely on.
LEMMA QuietUser ==
    ASSUME NEW s \in Slot, Sound, Quiet(s), Pc(s) \notin {"exit", "exec_main"},
           Pc(s)' \in {"user", "wait", "setlimit"}, s = INITPROC => Pc(s)' \in {"user", "wait"},
           \A q \in Slot : Ki(q)' = Ki(q)
    PROVE  Sound'
  <1>1. KernelOK(s)'
    BY DEF KernelOK, Creating, Making
  <1>2. EmbryosOK'
    BY DEF Sound, EmbryosOK, Quiet, SameAt, Making
  <1>3. ASSUME NEW q \in Slot PROVE LastingOK(q)'
    <2>1. St(q)' = "ZOMBIE" => St(q) = "ZOMBIE" /\ Mn(q)' = Mn(q)
      BY DEF Quiet, There, Up, Stays, Woken, SameTies
    <2> QED BY <2>1 DEF Sound, LastingOK, Quiet, SameAt
  <1> QED BY <1>1, <1>2, <1>3, QuietKeeps

LEMMA UnchangedProc ==
    ASSUME Types, proc' = proc
    PROVE  proc' \in [Slot -> SlotRec] /\ \A q \in Slot : Untouched(q)
  BY Kept DEF Types

LEMMA WaitFailsStep ==
    ASSUME ThreadsInv, NEW s \in Slot, NEW m \in Slot, WaitFails(s, m)
    PROVE  ThreadsInv'
  <1>1. Types /\ Sound /\ St(s) = "RUNNABLE" /\ Pc(s) \in {"user", "wait"} /\ ~ panic
    BY DEF WaitFails, InWait, Calls, At, ThreadsInv, St, Pc
  <1>2. /\ UNCHANGED <<nextpid, panic, program>> /\ proc' = proc
        /\ at' = [at EXCEPT ![s] = User]
    BY DEF WaitFails
  <1>3. proc' \in [Slot -> SlotRec] /\ \A q \in Slot : Untouched(q)
    BY <1>1, <1>2, UnchangedProc
  <1>4. at' \in [Slot -> Locals] /\ Pc(s)' = "user" /\ \A q \in Slot \ {s} : SameAt(q)
    BY <1>1, <1>2, GoesHome
  <1>5. Types'
    BY <1>1, <1>2, <1>3, <1>4 DEF Types
  <1>6. Bare(s)
    BY <1>1, <1>2, <1>3, <1>4 DEF Bare, Untouched, Stays, Up
  <1>7. \A q \in Slot : Ki(q)' = Ki(q)
    BY <1>3 DEF Untouched
  <1>8. Sound'
    BY <1>1, <1>4, <1>6, <1>7, BareIsQuiet, QuietUser
  <1> QED BY <1>5, <1>8 DEF ThreadsInv

\* s goes to sleep.
LEMMA Dozes ==
    ASSUME Types, NEW s \in Slot, NEW c \in Chans,
           proc' = [proc EXCEPT ![s].state = "SLEEPING", ![s].chan = c]
    PROVE  /\ proc' \in [Slot -> SlotRec] /\ St(s)' = "SLEEPING" /\ Ch(s)' = c
           /\ \A q \in Slot : SameTies(q) /\ Ki(q)' = Ki(q) /\ \A n \in Node : SameNode(q, n)
           /\ \A q \in Slot \ {s} : Untouched(q)
  <1> DEFINE r == [proc[s] EXCEPT !.state = "SLEEPING", !.chan = c]
  <1>1. proc[s] \in SlotRec
    BY DEF Types
  <1>2. r \in SlotRec
    BY <1>1 DEF SlotRec, States
  <1>3. /\ r.state = "SLEEPING" /\ r.chan = c /\ r.is_main = proc[s].is_main /\ r.main_ptr = proc[s].main_ptr
        /\ r.parent = proc[s].parent /\ r.thread_num = proc[s].thread_num /\ r.killed = proc[s].killed
        /\ r.table = proc[s].table
    BY <1>1 DEF SlotRec
  <1>4. proc' = [proc EXCEPT ![s] = r]
    OBVIOUS
  <1> HIDE DEF r
  <1>5. proc' \in [Slot -> SlotRec] /\ proc'[s] = r /\ \A p \in Slot \ {s} : Untouched(p)
    BY <1>2, <1>4, Writes
  <1>6. St(s)' = "SLEEPING" /\ Ch(s)' = c /\ SameTies(s) /\ Ki(s)' = Ki(s)
    BY <1>3, <1>5 DEF St, Ch, Ki, SameTies, Mn, Mp, Pa, Tn
  <1>7. \A n \in Node : SameNode(s, n)
    BY <1>3, <1>5 DEF SameNode, TS, TT
  <1> QED BY <1>5, <1>6, <1>7 DEF Untouched

LEMMA WaitSleepsStep ==
    ASSUME ThreadsInv, NEW s \in Slot, NEW m \in Slot, WaitSleeps(s, m)
    PROVE  ThreadsInv'
  <1>1. Types /\ Sound /\ St(s) = "RUNNABLE" /\ Pc(s) \in {"user", "wait"} /\ ~ panic
    BY DEF WaitSleeps, InWait, Calls, At, ThreadsInv, St, Pc
  <1>2. /\ UNCHANGED <<nextpid, panic, program>>
        /\ proc' = [proc EXCEPT ![s].state = "SLEEPING", ![s].chan = <<"wait", m>>]
        /\ at' = [at EXCEPT ![s] = [User EXCEPT !.pc = "wait", !.main = m]]
    BY DEF WaitSleeps
  <1>3. /\ proc' \in [Slot -> SlotRec] /\ St(s)' = "SLEEPING"
        /\ \A q \in Slot : SameTies(q) /\ Ki(q)' = Ki(q) /\ \A n \in Node : SameNode(q, n)
        /\ \A q \in Slot \ {s} : Untouched(q)
    BY <1>1, <1>2, Dozes, Channels
  <1> DEFINE local == [User EXCEPT !.pc = "wait", !.main = m]
  <1>9. local \in Locals
    BY Numbers DEF User, Locals, Pcs
  <1>10. local.pc = "wait"
    BY DEF User
  <1> HIDE DEF local
  <1>4. PICK l \in Locals : l = local /\ l.pc = "wait"
    BY <1>9, <1>10
  <1>11. at' = [at EXCEPT ![s] = l]
    BY <1>2, <1>4 DEF local
  <1>5. at' \in [Slot -> Locals] /\ Pc(s)' = l.pc /\ \A q \in Slot \ {s} : SameAt(q)
    BY <1>1, <1>11, Moves
  <1>6. Types'
    BY <1>1, <1>2, <1>3, <1>5 DEF Types
  <1>7. Bare(s)
    BY <1>1, <1>2, <1>3, <1>5 DEF Bare, Untouched, Stays, Up
  <1>8. Sound'
    BY <1>1, <1>3, <1>4, <1>5, <1>7, BareIsQuiet, QuietUser
  <1> QED BY <1>6, <1>8 DEF ThreadsInv

-----------------------------------------------------------------------------
(* sleep, sbrk, setmemorylimit *)

LEMMA SleepStep ==
    ASSUME AllOrderly, ThreadsInv, NEW s \in Slot, Sleep(s)
    PROVE  ThreadsInv'
  <1>1. Types /\ Sound /\ ~ panic
    BY DEF Sleep, Calls, At, ThreadsInv
  <1>2. St(s) = "RUNNABLE" /\ Pc(s) = "user" /\ s # INITPROC
    BY <1>1, CallIs DEF Sleep
  <1>3. /\ UNCHANGED <<nextpid, panic, program>> /\ at' = at
        /\ proc' = [proc EXCEPT ![s].state = "SLEEPING", ![s].chan = <<"dev">>]
    BY DEF Sleep
  <1>4. /\ proc' \in [Slot -> SlotRec] /\ St(s)' = "SLEEPING"
        /\ \A q \in Slot : SameTies(q) /\ Ki(q)' = Ki(q) /\ \A n \in Node : SameNode(q, n)
        /\ \A q \in Slot \ {s} : Untouched(q)
    BY <1>1, <1>3, Dozes, Channels
  <1>5. at' \in [Slot -> Locals] /\ \A q \in Slot : SameAt(q)
    BY <1>1, <1>3, StandsStill
  <1>6. Types'
    BY <1>1, <1>3, <1>4, <1>5 DEF Types
  <1>7. Bare(s)
    BY <1>2, <1>3, <1>4, <1>5 DEF Bare, Untouched, Stays, Up
  <1>8. Pc(s)' = "user"
    BY <1>2, <1>5 DEF SameAt
  <1>9. Sound'
    BY <1>1, <1>2, <1>4, <1>7, <1>8, BareIsQuiet, QuietUser
  <1> QED BY <1>6, <1>9 DEF ThreadsInv

\* A wakeup changes the state and the channel of those that sleep, and no more.
AsleepOrSame(r, p) ==
    /\ r.table = p.table /\ r.is_main = p.is_main /\ r.main_ptr = p.main_ptr
    /\ r.parent = p.parent /\ r.thread_num = p.thread_num /\ r.killed = p.killed
    /\ \/ r.state = p.state /\ r.chan = p.chan
       \/ p.state = "SLEEPING" /\ r.state = "RUNNABLE"

LEMMA Rouses ==
    ASSUME NEW p \in [Slot -> SlotRec], NEW S
    PROVE  /\ Rouse(p, S) \in [Slot -> SlotRec]
           /\ \A q \in Slot : AsleepOrSame(Rouse(p, S)[q], p[q])
           /\ \A q \in Slot : q \in S => Rouse(p, S)[q].state # "SLEEPING"
           /\ \A q \in Slot : q \notin S => Rouse(p, S)[q] = p[q]
  <1>1. ASSUME NEW r \in SlotRec, r.state = "SLEEPING", NEW w, w = [r EXCEPT !.state = "RUNNABLE", !.chan = NoChan]
        PROVE  w \in SlotRec /\ AsleepOrSame(w, r) /\ w.state = "RUNNABLE"
    BY <1>1, Channels DEF SlotRec, States, AsleepOrSame
  <1>2. ASSUME NEW q \in Slot
        PROVE  /\ Rouse(p, S)[q] \in SlotRec /\ AsleepOrSame(Rouse(p, S)[q], p[q])
               /\ q \in S => Rouse(p, S)[q].state # "SLEEPING"
               /\ q \notin S => Rouse(p, S)[q] = p[q]
    <2>1. p[q] \in SlotRec
      OBVIOUS
    <2>2. CASE q \in S /\ p[q].state = "SLEEPING"
      <3>1. Rouse(p, S)[q] = [p[q] EXCEPT !.state = "RUNNABLE", !.chan = NoChan]
        BY <2>2 DEF Rouse
      <3> QED BY <1>1, <2>1, <2>2, <3>1
    <2>3. CASE ~ (q \in S /\ p[q].state = "SLEEPING")
      <3>1. Rouse(p, S)[q] = p[q]
        BY <2>3 DEF Rouse
      <3> QED BY <2>1, <2>3, <3>1 DEF AsleepOrSame
    <2> QED BY <2>2, <2>3
  <1>3. Rouse(p, S) = [q \in Slot |-> Rouse(p, S)[q]]
    BY DEF Rouse
  <1> HIDE DEF Rouse
  <1> QED BY <1>2, <1>3

LEMMA WokenOnly ==
    ASSUME NEW q, AsleepOrSame(proc'[q], proc[q])
    PROVE  /\ SameTies(q) /\ Stays(q) /\ Ki(q)' = Ki(q)
           /\ \A n \in Node : SameNode(q, n)
  BY DEF AsleepOrSame, SameTies, Stays, Woken, SameNode, Mn, Mp, Pa, Tn, Ki, St, Ch, TS, TT

LEMMA WakeupStep ==
    ASSUME ThreadsInv, Wakeup
    PROVE  ThreadsInv'
  <1> USE Numbers
  <1>1. /\ UNCHANGED <<nextpid, panic, program>> /\ at' = at
        /\ proc' = Rouse(proc, {q \in Slot : proc[q].chan = <<"dev">>})
    BY DEF Wakeup, Wakeup1
  <1>2. Types /\ Sound /\ ~ panic
    BY DEF Wakeup, ThreadsInv
  <1>3. proc' \in [Slot -> SlotRec] /\ \A q \in Slot : AsleepOrSame(proc'[q], proc[q])
    BY <1>1, <1>2, Rouses DEF Types
  <1>4. at' \in [Slot -> Locals] /\ \A q \in Slot : SameAt(q)
    BY <1>1, <1>2, StandsStill
  <1>5. Types'
    BY <1>1, <1>2, <1>3, <1>4 DEF Types
  <1>6. Up(INITPROC) /\ Pc(INITPROC) \in {"user", "wait"}
    BY <1>2 DEF Sound, InitOK
  <1>7. \A q \in Slot : SameTies(q) /\ Stays(q) /\ Ki(q)' = Ki(q) /\ \A n \in Node : SameNode(q, n)
    BY <1>3, WokenOnly
  <1>8. Bare(INITPROC)
    BY <1>1, <1>4, <1>6, <1>7 DEF Bare, Stays, Woken, Up
  <1>9. Pc(INITPROC)' \in {"user", "wait"}
    BY <1>4, <1>6 DEF SameAt
  <1>10. Sound'
    BY <1>2, <1>6, <1>7, <1>8, <1>9, BareIsQuiet, QuietUser
  <1> QED BY <1>5, <1>10 DEF ThreadsInv

\* Memory sizes are no part of the invariant.
Sized(r, p) ==
    /\ r.table = p.table /\ r.is_main = p.is_main /\ r.main_ptr = p.main_ptr
    /\ r.parent = p.parent /\ r.thread_num = p.thread_num /\ r.killed = p.killed
    /\ r.state = p.state /\ r.chan = p.chan

LEMMA Resizes ==
    ASSUME Types, NEW m \in Slot, NEW r \in SlotRec, Sized(r, proc[m]), proc' = [proc EXCEPT ![m] = r]
    PROVE  proc' \in [Slot -> SlotRec] /\ \A q \in Slot : Untouched(q)
  <1>1. proc' \in [Slot -> SlotRec] /\ proc'[m] = r /\ \A q \in Slot \ {m} : Untouched(q)
    BY Writes
  <1>2. Untouched(m)
    BY <1>1 DEF Sized, Untouched, SameTies, SameNode, Mn, Mp, Pa, Tn, Ki, St, Ch, TS, TT
  <1> QED BY <1>1, <1>2

\* A call without effect on what the invariant speaks of.
LEMMA NothingStep ==
    ASSUME Types, Sound, NEW s \in Slot, St(s) = "RUNNABLE", Pc(s) \notin {"exit", "exec_main"},
           \A q \in Slot : Untouched(q),
           \A q \in Slot \ {s} : SameAt(q),
           Pc(s)' \in {"user", "wait", "setlimit"}, s = INITPROC => Pc(s)' \in {"user", "wait"},
           program' = program
    PROVE  Sound'
  <1>1. Bare(s)
    BY DEF Bare, Untouched, Stays, Up
  <1>2. \A q \in Slot : Ki(q)' = Ki(q)
    BY DEF Untouched
  <1> QED BY <1>1, <1>2, BareIsQuiet, QuietUser

LEMMA GrowStep ==
    ASSUME AllOrderly, ThreadsInv, NEW s \in Slot, Grow(s)
    PROVE  ThreadsInv'
  <1>1. Types /\ Sound /\ ~ panic
    BY DEF Grow, Calls, At, ThreadsInv
  <1>2. St(s) = "RUNNABLE" /\ Pc(s) = "user" /\ s # INITPROC
    BY <1>1, CallIs DEF Grow
  <1>3. PICK m \in Slot : m = Main(s)
    BY <1>1, <1>2, ChiefIs DEF Up
  <1> DEFINE r == [proc[m] EXCEPT !.sz = @ + 1]
  <1>4. UNCHANGED <<nextpid, panic, program>> /\ at' = at /\ proc' = [proc EXCEPT ![m] = r]
    BY <1>3 DEF Grow
  <1>5. proc[m] \in SlotRec
    BY <1>1 DEF Types
  <1>6. r \in SlotRec /\ Sized(r, proc[m])
    BY <1>5 DEF SlotRec, Sized
  <1> HIDE DEF r
  <1>7. proc' \in [Slot -> SlotRec] /\ \A q \in Slot : Untouched(q)
    BY <1>1, <1>4, <1>6, Resizes
  <1>8. at' \in [Slot -> Locals] /\ \A q \in Slot : SameAt(q)
    BY <1>1, <1>4, StandsStill
  <1>9. Types'
    BY <1>1, <1>4, <1>7, <1>8 DEF Types
  <1>10. Pc(s)' = "user"
    BY <1>2, <1>8 DEF SameAt
  <1>11. Sound'
    BY <1>1, <1>2, <1>4, <1>7, <1>8, <1>10, NothingStep
  <1> QED BY <1>9, <1>11 DEF ThreadsInv

LEMMA SetLimitCheckStep ==
    ASSUME AllOrderly, ThreadsInv, NEW s \in Slot, NEW pid \in Targets, NEW limit \in Limits,
           SetLimitCheck(s, pid, limit)
    PROVE  ThreadsInv'
  <1>1. Types /\ Sound /\ ~ panic
    BY DEF SetLimitCheck, Calls, At, ThreadsInv
  <1>2. St(s) = "RUNNABLE" /\ Pc(s) = "user" /\ s # INITPROC
    BY <1>1, CallIs DEF SetLimitCheck
  <1> DEFINE named == {q \in Slot : proc[q].is_main /\ proc[q].pid = pid}
  <1>3. First(named) \in Slot
    BY FirstIn DEF SetLimitCheck
  <1>4. PICK p \in Slot : p = First(named)
    BY <1>3
  <1> HIDE DEF named
  <1> DEFINE local == [User EXCEPT !.pc = "setlimit", !.other = p, !.arg = limit]
  <1>5. local \in Locals
    BY Numbers, ThreadsAssumption DEF User, Locals, Pcs
  <1>6. local.pc = "setlimit"
    BY DEF User
  <1>7. UNCHANGED <<nextpid, panic, program>> /\ proc' = proc /\ at' = [at EXCEPT ![s] = local]
    BY <1>4 DEF SetLimitCheck, named
  <1> HIDE DEF local
  <1>8. PICK l \in Locals : l = local /\ l.pc = "setlimit"
    BY <1>5, <1>6
  <1>9. at' \in [Slot -> Locals] /\ Pc(s)' = l.pc /\ \A q \in Slot \ {s} : SameAt(q)
    BY <1>1, <1>7, <1>8, Moves
  <1>10. proc' \in [Slot -> SlotRec] /\ \A q \in Slot : Untouched(q)
    BY <1>1, <1>7, UnchangedProc
  <1>11. Types'
    BY <1>1, <1>7, <1>9, <1>10 DEF Types
  <1>12. Sound'
    BY <1>1, <1>2, <1>7, <1>8, <1>9, <1>10, NothingStep
  <1> QED BY <1>11, <1>12 DEF ThreadsInv

LEMMA SetLimitWriteStep ==
    ASSUME ThreadsInv, NEW s \in Slot, SetLimitWrite(s)
    PROVE  ThreadsInv'
  <1>1. Types /\ Sound /\ ~ panic /\ St(s) = "RUNNABLE" /\ Pc(s) = "setlimit"
    BY DEF SetLimitWrite, At, ThreadsInv, St, Pc
  <1>2. /\ UNCHANGED <<nextpid, panic, program>> /\ at' = [at EXCEPT ![s] = User]
        /\ proc' = [proc EXCEPT ![Lo(s)].memory_limit = at[s].arg]
    BY DEF SetLimitWrite, Lo
  <1>3. proc' \in [Slot -> SlotRec] /\ \A q \in Slot : Untouched(q)
    <2>1. CASE Lo(s) \in Slot
      <3>1. PICK p \in Slot, a \in Nat : p = Lo(s) /\ a = at[s].arg
        BY <1>1, <2>1 DEF Types, Locals
      <3> DEFINE r == [proc[p] EXCEPT !.memory_limit = a]
      <3>2. proc[p] \in SlotRec
        BY <1>1 DEF Types
      <3>3. r \in SlotRec /\ Sized(r, proc[p])
        BY <3>2 DEF SlotRec, Sized
      <3>4. proc' = [proc EXCEPT ![p] = r]
        BY <1>2, <3>1
      <3> HIDE DEF r
      <3> QED BY <1>1, <3>3, <3>4, Resizes
    <2>2. CASE Lo(s) \notin Slot
      <3>1. proc' = proc
        BY <1>1, <1>2, <2>2 DEF Types
      <3> QED BY <1>1, <3>1, UnchangedProc
    <2> QED BY <2>1, <2>2
  <1>4. at' \in [Slot -> Locals] /\ Pc(s)' = "user" /\ \A q \in Slot \ {s} : SameAt(q)
    BY <1>1, <1>2, GoesHome
  <1>5. Types'
    BY <1>1, <1>2, <1>3, <1>4 DEF Types
  <1>6. Sound'
    BY <1>1, <1>2, <1>3, <1>4, NothingStep
  <1> QED BY <1>5, <1>6 DEF ThreadsInv

LEMMA ExecEndStep ==
    ASSUME ThreadsInv, NEW s \in Slot, ExecEnd(s)
    PROVE  ThreadsInv'
  <1>1. Types /\ Sound /\ ~ panic /\ St(s) = "RUNNABLE" /\ Pc(s) = "exec"
    BY DEF ExecEnd, At, ThreadsInv, St, Pc
  <1> DEFINE r == [proc[s] EXCEPT !.sz = ImageSize, !.main_stack = ImageSize, !.memory_limit = 0]
  <1>2. /\ UNCHANGED <<nextpid, panic, program>> /\ at' = [at EXCEPT ![s] = User]
        /\ proc' = proc \/ proc' = [proc EXCEPT ![s] = r]
    BY DEF ExecEnd
  <1>3. proc[s] \in SlotRec
    BY <1>1 DEF Types
  <1>4. r \in SlotRec /\ Sized(r, proc[s])
    BY <1>3, Numbers DEF SlotRec, Sized
  <1> HIDE DEF r
  <1>5. proc' \in [Slot -> SlotRec] /\ \A q \in Slot : Untouched(q)
    BY <1>1, <1>2, <1>4, UnchangedProc, Resizes
  <1>6. at' \in [Slot -> Locals] /\ Pc(s)' = "user" /\ \A q \in Slot \ {s} : SameAt(q)
    BY <1>1, <1>2, GoesHome
  <1>7. Types'
    BY <1>1, <1>2, <1>5, <1>6 DEF Types
  <1>8. Sound'
    BY <1>1, <1>2, <1>5, <1>6, NothingStep
  <1> QED BY <1>7, <1>8 DEF ThreadsInv

-----------------------------------------------------------------------------
(* A slot that is being filled in *)

LEMMA OnlyTheSlotIsQuiet ==
    ASSUME NEW s \in Slot, NEW e \in Slot, Up(s), program' = program,
           St(e) \in {"UNUSED", "EMBRYO"}, St(e)' \in {"UNUSED", "EMBRYO"},
           St(e) = "EMBRYO" => Fills(s, e),
           \A q \in Slot \ {s, e} : Untouched(q), St(s)' = St(s), SameTies(s),
           \A n \in Node : SameNode(s, n) \/ (~ Used(s, n) /\ ~ Used(s, n)' /\ TT(s, n)' = TT(s, n)),
           \A q \in Slot \ {s} : SameAt(q)
    PROVE  Quiet(s)
  <1>1. Up(s)'
    BY DEF Up
  <1>2. ASSUME NEW q \in Slot, There(q)
        PROVE  /\ SameTies(q) /\ There(q)' /\ (q = s \/ Stays(q))
               /\ \A n \in Node : SameNode(q, n) \/
                    (q = s /\ ~ Used(q, n) /\ ~ Used(q, n)' /\ TT(q, n)' = TT(q, n))
    <2>1. q # e
      BY <1>2 DEF There, Up
    <2>2. CASE q = s
      BY <1>1, <2>2 DEF There
    <2>3. CASE q # s
      BY <1>2, <2>1, <2>3 DEF Untouched, Stays, There, Up
    <2> QED BY <2>2, <2>3
  <1>3. ASSUME NEW q \in Slot, ~ There(q)
        PROVE  /\ ~ There(q)'
               /\ St(q) = "EMBRYO" /\ ~ Fills(s, q) => St(q)' = St(q) /\ Pa(q)' = Pa(q)
    <2>1. q # s
      BY <1>3 DEF There
    <2>2. CASE q = e
      BY <2>2 DEF There, Up
    <2>3. CASE q # e
      BY <1>3, <2>1, <2>3 DEF Untouched, SameTies, There, Up
    <2> QED BY <2>2, <2>3
  <1> QED BY <1>1, <1>2, <1>3 DEF Quiet

LEMMA AllocSound ==
    ASSUME Types, Sound, ~ panic, NEW s \in Slot, St(s) = "RUNNABLE", s # INITPROC,
           Pc(s) \in {"user", "create"}, NEW l \in Locals, AllocProc(s, l),
           \/ /\ l.pc = "create_pid" /\ l.main = s /\ Mn(s) /\ l.node \in Node
              /\ TS(s, l.node) = "T_ALLOCATED" /\ Tn(s) < program.threads
           \/ l.pc = "fork" /\ l.main = Chief(s)
    PROVE  ThreadsInv'
  <1> USE Numbers
  <1>1. Unused # {} /\ UNCHANGED <<panic, program>> /\ nextpid' = nextpid + 1
    BY DEF AllocProc, CanAlloc
  <1>2. First(Unused) \in Unused
    BY <1>1, FirstIn DEF Unused
  <1>3. PICK e \in Slot : e = First(Unused) /\ St(e) = "UNUSED"
    BY <1>2 DEF Unused, St
  <1> DEFINE local == [l EXCEPT !.other = e]
             r == [proc[e] EXCEPT !.state = "EMBRYO", !.pid = nextpid]
  <1>4. local \in Locals /\ local.pc = l.pc /\ local.main = l.main /\ local.node = l.node /\ local.other = e
    BY DEF Locals
  <1>5. proc[e] \in SlotRec /\ nextpid \in Int
    BY DEF Types
  <1>6. /\ r \in SlotRec /\ r.state = "EMBRYO" /\ r.killed = proc[e].killed
    BY <1>5 DEF SlotRec, States
  <1>7. proc' = [proc EXCEPT ![e] = r] /\ at' = [at EXCEPT ![s] = local]
    BY <1>3 DEF AllocProc
  <1> HIDE DEF r, local
  <1>8. /\ proc' \in [Slot -> SlotRec] /\ proc'[e] = r
        /\ \A q \in Slot \ {e} : Untouched(q)
    BY <1>6, <1>7, Writes
  <1>9. PICK k \in Locals : k = local
    BY <1>4
  <1>10. /\ at' \in [Slot -> Locals] /\ Pc(s)' = k.pc /\ Lm(s)' = k.main /\ Ln(s)' = k.node /\ Lo(s)' = k.other
         /\ \A q \in Slot \ {s} : SameAt(q)
    BY <1>7, <1>9, Moves
  <1>11. Pc(s)' = l.pc /\ Lm(s)' = l.main /\ Ln(s)' = l.node /\ Lo(s)' = e
    BY <1>4, <1>9, <1>10
  <1>12. Types'
    BY <1>1, <1>5, <1>8, <1>10 DEF Types
  <1>13. St(e)' = "EMBRYO" /\ Ki(e)' = Ki(e)
    BY <1>6, <1>8 DEF St, Ki
  <1>14. Quiet(s)
    <2>1. s # e /\ Untouched(s)
      BY <1>3, <1>8
    <2>2. St(s)' = St(s) /\ SameTies(s) /\ \A n \in Node : SameNode(s, n)
      BY <2>1 DEF Untouched
    <2>3. Up(s)
      BY DEF Up
    <2>4. St(e) # "EMBRYO"
      BY <1>3
    <2> QED BY <1>1, <1>3, <1>8, <1>10, <1>13, <2>2, <2>3, <2>4, OnlyTheSlotIsQuiet
  <1>15. s # e /\ Untouched(s)
    BY <1>3, <1>8
  <1>16. KernelOK(s)'
    <2>1. MakeOK(s)'
      BY <1>11, <1>13 DEF MakeOK
    <2>2. CASE l.pc = "create_pid"
      <3>1. Mn(s)' /\ TS(s, l.node)' = "T_ALLOCATED" /\ Tn(s)' < program'.threads
        BY <1>1, <1>15, <2>2 DEF Untouched, SameTies, SameNode
      <3>2. CreateOK(s)'
        BY <1>11, <2>2, <3>1 DEF CreateOK
      <3> QED BY <1>11, <2>1, <2>2, <3>2 DEF KernelOK
    <2>3. CASE l.pc = "fork"
      <3>1. Chief(s)' = Chief(s)
        BY <1>15 DEF Chief, Untouched, SameTies
      <3>2. ForkOK(s)'
        BY <1>11, <2>3, <3>1 DEF ForkOK
      <3> QED BY <1>11, <2>1, <2>3, <3>2 DEF KernelOK, Creating
    <2> QED BY <2>2, <2>3
  <1>17. EmbryosOK'
    <2> SUFFICES ASSUME NEW q \in Slot, NEW p \in Slot, Pc(q)' \in Making, Pc(p)' \in Making, Lo(q)' = Lo(p)'
                 PROVE  q = p
      BY DEF EmbryosOK
    <2>1. \A x \in Slot \ {s} : Pc(x)' \in Making => Lo(x)' = Lo(x) /\ Lo(x) # e /\ Pc(x) \in Making
      BY <1>3, <1>10 DEF Sound, KernelOK, MakeOK, SameAt
    <2> QED BY <1>11, <2>1 DEF Sound, EmbryosOK
  <1>18. ASSUME NEW q \in Slot PROVE LastingOK(q)'
    <2>1. q = s => Pc(q)' \in {"create_pid", "fork"}
      BY <1>11
    <2>2. q # s => Pc(q)' = Pc(q)
      BY <1>10 DEF SameAt
    <2>3. Ki(q)' = Ki(q) /\ (St(q)' = "ZOMBIE" => St(q) = "ZOMBIE" /\ Mn(q)' = Mn(q))
      BY <1>8, <1>13 DEF Untouched, SameTies
    <2> QED BY <1>1, <2>1, <2>2, <2>3 DEF Sound, LastingOK
  <1>19. Pc(s) \notin {"exit", "exec_main"} /\ Pc(s)' \notin {"exit", "exec_main"}
    BY <1>11
  <1>20. Sound'
    BY <1>14, <1>16, <1>17, <1>18, <1>19, QuietKeeps
  <1> QED BY <1>12, <1>20 DEF ThreadsInv

LEMMA CreateAllocStep ==
    ASSUME ThreadsInv, NEW s \in Slot, CreateAlloc(s)
    PROVE  ThreadsInv'
  <1>1. Types /\ Sound /\ ~ panic /\ St(s) = "RUNNABLE" /\ Pc(s) = "create"
    BY DEF CreateAlloc, At, ThreadsInv, St, Pc
  <1>2. s # INITPROC /\ CreateOK(s)
    BY <1>1 DEF Sound, InitOK, KernelOK, Creating
  <1> DEFINE local == [at[s] EXCEPT !.pc = "create_pid"]
  <1>3. at[s] \in Locals
    BY <1>1 DEF Types
  <1>4. local \in Locals /\ local.pc = "create_pid" /\ local.main = Lm(s) /\ local.node = Ln(s)
    BY <1>3 DEF Locals, Pcs, Lm, Ln
  <1>5. AllocProc(s, local)
    BY DEF CreateAlloc
  <1> HIDE DEF local
  <1>6. PICK l \in Locals : l = local
    BY <1>4
  <1> QED BY <1>1, <1>2, <1>4, <1>5, <1>6, AllocSound DEF CreateOK

LEMMA ForkStep ==
    ASSUME AllOrderly, ThreadsInv, NEW s \in Slot, Fork(s)
    PROVE  ThreadsInv'
  <1>1. Types /\ Sound /\ ~ panic
    BY DEF Fork, Calls, CallsLate, At, ThreadsInv
  <1>2. St(s) = "RUNNABLE" /\ Pc(s) = "user" /\ s # INITPROC
    BY <1>1, CallIs DEF Fork, CallsLate
  <1>3. PICK m \in Slot : m = Main(s) /\ m = Chief(s)
    BY <1>1, <1>2, ChiefIs DEF Up
  <1> DEFINE local == [User EXCEPT !.pc = "fork", !.main = m]
  <1>4. local \in Locals
    BY Numbers DEF User, Locals, Pcs
  <1>5. local.pc = "fork" /\ local.main = m
    BY DEF User
  <1>6. AllocProc(s, local)
    BY <1>3 DEF Fork
  <1> HIDE DEF local
  <1>7. PICK l \in Locals : l = local
    BY <1>4
  <1> QED BY <1>1, <1>2, <1>3, <1>5, <1>6, <1>7, AllocSound

\* s works on the slot e that it fills in, or gives it back.
LEMMA FillingKeeps ==
    ASSUME Sound, NEW s \in Slot, NEW e \in Slot, Fills(s, e), Up(s), program' = program,
           \A q \in Slot \ {s, e} : Untouched(q),
           St(s)' = St(s), SameTies(s), Ki(s)' = Ki(s),
           \A n \in Node : SameNode(s, n) \/ (~ Used(s, n) /\ ~ Used(s, n)' /\ TT(s, n)' = TT(s, n)),
           St(e)' \in {"EMBRYO", "UNUSED"}, Ki(e)' = Ki(e),
           \A q \in Slot \ {s} : SameAt(q),
           Pc(s)' \in {"user", "create_pid", "create_end", "fork_end"},
           Pc(s)' \in Making => Lo(s)' = e, KernelOK(s)'
    PROVE  Sound'
  <1>1. s # INITPROC /\ Pc(s) \notin {"exit", "exec_main"} /\ Pc(s)' \notin {"exit", "exec_main"}
    BY DEF Sound, InitOK, Fills, Making
  <1>2. St(e) = "EMBRYO" /\ s # e
    BY DEF Sound, KernelOK, MakeOK, Fills, Up
  <1>3. Quiet(s)
    BY <1>2, OnlyTheSlotIsQuiet
  <1>4. EmbryosOK'
    <2>1. \A x \in Slot : Pc(x)' \in Making => Lo(x)' = Lo(x) /\ Pc(x) \in Making
      BY DEF SameAt, Fills
    <2> QED BY <2>1 DEF Sound, EmbryosOK
  <1>5. ASSUME NEW q \in Slot PROVE LastingOK(q)'
    <2>1. q # s => Pc(q)' = Pc(q)
      BY DEF SameAt
    <2>2. Ki(q)' = Ki(q) /\ (St(q)' = "ZOMBIE" => St(q) = "ZOMBIE" /\ Mn(q)' = Mn(q))
      BY <1>2 DEF Untouched, SameTies, Up
    <2> QED BY <2>1, <2>2 DEF Sound, LastingOK
  <1> QED BY <1>1, <1>3, <1>4, <1>5, QuietKeeps

LEMMA CreatePidStep ==
    ASSUME ThreadsInv, NEW s \in Slot, CreatePid(s)
    PROVE  ThreadsInv'
  <1> USE Numbers
  <1>1. Types /\ Sound /\ ~ panic /\ St(s) = "RUNNABLE" /\ Pc(s) = "create_pid"
    BY DEF CreatePid, At, ThreadsInv, St, Pc
  <1>2. CreateOK(s) /\ MakeOK(s)
    BY <1>1 DEF Sound, KernelOK, Creating, Making
  <1>3. PICK e \in Slot : e = Lo(s) /\ St(e) = "EMBRYO" /\ e # s
    BY <1>1, <1>2 DEF MakeOK
  <1> DEFINE r == [proc[e] EXCEPT !.kstack = TRUE, !.table = NoTable, !.pid = proc[s].pid]
  <1>4. /\ UNCHANGED <<panic, program>> /\ nextpid' = nextpid - 1 /\ at' = [at EXCEPT ![s].pc = "create_end"]
        /\ proc' = [proc EXCEPT ![e] = r]
    BY <1>2, <1>3 DEF CreatePid, CreateOK, Lm, Lo
  <1>5. proc[e] \in SlotRec /\ proc[s].pid \in Int /\ nextpid \in Int
    BY <1>1 DEF Types, SlotRec
  <1>6. NoTable \in [Node -> NodeRec]
    BY DEF NoTable, FreeNode, NodeRec, NodeStates
  <1>7. r \in SlotRec /\ r.state = proc[e].state /\ r.killed = proc[e].killed
    BY <1>5, <1>6 DEF SlotRec
  <1> HIDE DEF r
  <1>8. proc' \in [Slot -> SlotRec] /\ proc'[e] = r /\ \A q \in Slot \ {e} : Untouched(q)
    BY <1>1, <1>4, <1>7, Writes
  <1>9. /\ at' \in [Slot -> Locals] /\ Pc(s)' = "create_end" /\ Lm(s)' = Lm(s) /\ Ln(s)' = Ln(s) /\ Lo(s)' = e
        /\ \A q \in Slot \ {s} : SameAt(q)
    BY <1>1, <1>3, <1>4, GoesTo DEF Pcs
  <1>10. Types'
    BY <1>1, <1>4, <1>5, <1>8, <1>9 DEF Types
  <1>11. St(e)' = "EMBRYO" /\ Ki(e)' = Ki(e)
    BY <1>3, <1>7, <1>8 DEF St, Ki
  <1>12. Untouched(s)
    BY <1>3, <1>8
  <1>13. KernelOK(s)'
    <2>1. MakeOK(s)'
      BY <1>9, <1>11 DEF MakeOK
    <2>2. CreateOK(s)'
      BY <1>2, <1>4, <1>9, <1>12 DEF CreateOK, Untouched, SameTies, SameNode
    <2> QED BY <1>9, <2>1, <2>2 DEF KernelOK
  <1>14. Fills(s, e)
    BY <1>1, <1>3 DEF Fills, Making
  <1>15. Sound'
    BY <1>1, <1>4, <1>8, <1>9, <1>11, <1>12, <1>13, <1>14, FillingKeeps DEF Untouched, Up
  <1> QED BY <1>10, <1>15 DEF ThreadsInv

\* A slot with the state of a node set.
SetsState(w, r, k, v) == w = [r EXCEPT !.table[k].state = v]
HasState(w, r, k, v) ==
    /\ w \in SlotRec /\ w.state = r.state /\ w.is_main = r.is_main
    /\ w.main_ptr = r.main_ptr /\ w.parent = r.parent
    /\ w.thread_num = r.thread_num /\ w.killed = r.killed
    /\ w.table[k].state = v /\ w.table[k].thread = r.table[k].thread
    /\ \A n \in Node \ {k} : w.table[n] = r.table[n]

LEMMA NodeState ==
    ASSUME NEW r \in SlotRec, NEW k \in Node, NEW v \in NodeStates, NEW w, SetsState(w, r, k, v)
    PROVE  HasState(w, r, k, v)
  <1> DEFINE node == [r.table[k] EXCEPT !.state = v]
  <1>1. r.table[k] \in NodeRec
    BY DEF SlotRec
  <1>2. node \in NodeRec /\ node.state = v /\ node.thread = r.table[k].thread
    BY <1>1 DEF NodeRec
  <1>3. w = [r EXCEPT !.table[k] = node]
    BY DEF SetsState
  <1> HIDE DEF node
  <1> DEFINE table == [r.table EXCEPT ![k] = node]
  <1>4. r.table \in [Node -> NodeRec]
    BY DEF SlotRec
  <1>5. table \in [Node -> NodeRec] /\ table[k] = node /\ \A n \in Node \ {k} : table[n] = r.table[n]
    BY <1>2, <1>4
  <1>6. w = [r EXCEPT !.table = table]
    BY <1>3
  <1> HIDE DEF table
  <1> QED BY <1>2, <1>5, <1>6 DEF SlotRec, HasState

\* Two slots are set.
LEMMA WritesTwo ==
    ASSUME Types, NEW a \in Slot, NEW b \in Slot, a # b, NEW r \in SlotRec, NEW w \in SlotRec,
           proc' = [proc EXCEPT ![a] = r, ![b] = w]
    PROVE  /\ proc' \in [Slot -> SlotRec] /\ proc'[a] = r /\ proc'[b] = w
           /\ \A q \in Slot \ {a, b} : proc'[q] = proc[q] /\ Untouched(q)
  <1>1. /\ proc' \in [Slot -> SlotRec] /\ proc'[a] = r /\ proc'[b] = w
        /\ \A q \in Slot \ {a, b} : proc'[q] = proc[q]
    BY DEF Types
  <1> QED BY <1>1, Kept

\* A slot in which only nodes that are not in use have changed.
LEMMA NodeFreed ==
    ASSUME NEW s \in Slot, NEW k \in Node, NEW w, proc'[s] = w, ~ Used(s, k),
           w.state = proc[s].state, w.is_main = proc[s].is_main,
           w.main_ptr = proc[s].main_ptr, w.parent = proc[s].parent,
           w.thread_num = proc[s].thread_num, w.killed = proc[s].killed,
           w.table[k].state \in {"T_UNUSED", "T_ALLOCATED"},
           w.table[k].thread = proc[s].table[k].thread,
           \A n \in Node \ {k} : w.table[n] = proc[s].table[n]
    PROVE  /\ St(s)' = St(s) /\ SameTies(s) /\ Ki(s)' = Ki(s)
           /\ \A n \in Node : SameNode(s, n) \/ (~ Used(s, n) /\ ~ Used(s, n)' /\ TT(s, n)' = TT(s, n))
  <1>1. St(s)' = St(s) /\ SameTies(s) /\ Ki(s)' = Ki(s)
    BY DEF St, SameTies, Ki, Mn, Mp, Pa, Tn
  <1>2. ASSUME NEW n \in Node, n # k PROVE SameNode(s, n)
    BY <1>2 DEF SameNode, TS, TT
  <1>3. ~ Used(s, k)' /\ TT(s, k)' = TT(s, k)
    BY DEF Used, Using, Ended, TS, TT
  <1> QED BY <1>1, <1>2, <1>3

LEMMA CreateAllocFailsStep ==
    ASSUME ThreadsInv, NEW s \in Slot, CreateAllocFails(s)
    PROVE  ThreadsInv'
  <1> USE Numbers
  <1>1. /\ Types /\ Sound /\ ~ panic /\ St(s) = "RUNNABLE" /\ Pc(s) \in {"create", "create_pid"}
        /\ UNCHANGED <<nextpid, panic, program>> /\ at' = [at EXCEPT ![s] = User]
    BY DEF CreateAllocFails, At, ThreadsInv, St, Pc
  <1>2. CreateOK(s) /\ s # INITPROC
    BY <1>1 DEF Sound, KernelOK, Creating, InitOK
  <1>3. PICK k \in Node : k = Ln(s) /\ ~ Used(s, k) /\ Lm(s) = s
    BY <1>2 DEF CreateOK, Used, Using, Ended
  <1>4. at' \in [Slot -> Locals] /\ Pc(s)' = "user" /\ \A q \in Slot \ {s} : SameAt(q)
    BY <1>1, GoesHome
  <1>5. KernelOK(s)'
    BY <1>4 DEF KernelOK, Creating, Making
  <1> DEFINE w == [proc[s] EXCEPT !.table[k].state = "T_UNUSED"]
  <1>6. proc[s] \in SlotRec
    BY <1>1 DEF Types
  <1>7. /\ w \in SlotRec /\ w.state = proc[s].state /\ w.is_main = proc[s].is_main
        /\ w.main_ptr = proc[s].main_ptr /\ w.parent = proc[s].parent
        /\ w.thread_num = proc[s].thread_num /\ w.killed = proc[s].killed
        /\ w.table[k].state = "T_UNUSED" /\ w.table[k].thread = proc[s].table[k].thread
        /\ \A n \in Node \ {k} : w.table[n] = proc[s].table[n]
    <2>1. PICK own \in SlotRec : own = proc[s]
      BY <1>6
    <2>2. PICK u : u = w
      OBVIOUS
    <2>3. SetsState(u, own, k, "T_UNUSED") /\ "T_UNUSED" \in NodeStates
      BY <2>1, <2>2 DEF SetsState, NodeStates
    <2>4. HasState(u, own, k, "T_UNUSED")
      BY <2>3, NodeState
    <2> HIDE DEF w
    <2>5. w = u /\ proc[s] = own
      BY <2>1, <2>2
    <2>6. HasState(w, proc[s], k, "T_UNUSED")
      BY <2>4, <2>5
    <2> QED BY <2>6 DEF HasState
  <1>8. CASE proc' = [proc EXCEPT ![at[s].main].table[at[s].node].state = "T_UNUSED"]
    <2>1. proc' = [proc EXCEPT ![s] = w]
      BY <1>3, <1>8 DEF Lm, Ln
    <2> HIDE DEF w
    <2>2. proc' \in [Slot -> SlotRec] /\ proc'[s] = w /\ \A q \in Slot \ {s} : Untouched(q)
      BY <1>1, <1>7, <2>1, Writes
    <2>3. /\ St(s)' = St(s) /\ SameTies(s) /\ Ki(s)' = Ki(s)
          /\ \A n \in Node : SameNode(s, n) \/ (~ Used(s, n) /\ ~ Used(s, n)' /\ TT(s, n)' = TT(s, n))
      BY <1>3, <1>7, <2>2, NodeFreed
    <2>4. Types'
      BY <1>1, <1>4, <2>2 DEF Types
    <2>5. /\ program' = program /\ Up(s) /\ Up(s)'
          /\ \A q \in Slot \ {s} : Stays(q) /\ There(q)' = There(q) /\ St(q)' = St(q) /\ Pa(q)' = Pa(q)
      BY <1>1, <2>2, <2>3 DEF Untouched, Stays, Up, There, SameTies
    <2>6. Quiet(s)
      BY <1>4, <2>2, <2>3, <2>5 DEF Quiet, Untouched, There
    <2>7. \A q \in Slot : Ki(q)' = Ki(q)
      BY <2>2, <2>3 DEF Untouched
    <2>8. Sound'
      BY <1>1, <1>2, <1>4, <2>6, <2>7, QuietUser
    <2> QED BY <2>4, <2>8 DEF ThreadsInv
  <1>9. CASE Pc(s) = "create_pid" /\ proc' = [proc EXCEPT
               ![at[s].main].table[at[s].node].state = "T_UNUSED", ![at[s].other].state = "UNUSED"]
    <2>1. PICK e \in Slot : e = Lo(s) /\ St(e) = "EMBRYO" /\ e # s
      BY <1>1, <1>9 DEF Sound, KernelOK, MakeOK, Making
    <2> DEFINE r == [proc[e] EXCEPT !.state = "UNUSED"]
    <2>2. proc[e] \in SlotRec
      BY <1>1 DEF Types
    <2>3. r \in SlotRec /\ r.state = "UNUSED" /\ r.killed = proc[e].killed
      BY <2>2 DEF SlotRec, States
    <2>4. proc' = [proc EXCEPT ![s] = w, ![e] = r]
      BY <1>1, <1>3, <1>9, <2>1 DEF Lm, Ln, Lo, Types
    <2> HIDE DEF w, r
    <2>5. /\ proc' \in [Slot -> SlotRec] /\ proc'[s] = w /\ proc'[e] = r
          /\ \A q \in Slot \ {s, e} : Untouched(q)
      BY <1>1, <1>7, <2>1, <2>3, <2>4, WritesTwo, ZenonT(60)
    <2>6. /\ St(s)' = St(s) /\ SameTies(s) /\ Ki(s)' = Ki(s)
          /\ \A n \in Node : SameNode(s, n) \/ (~ Used(s, n) /\ ~ Used(s, n)' /\ TT(s, n)' = TT(s, n))
      BY <1>3, <1>7, <2>5, NodeFreed
    <2>7. Types'
      BY <1>1, <1>4, <2>5 DEF Types
    <2>8. St(e)' = "UNUSED" /\ Ki(e)' = Ki(e) /\ Fills(s, e)
      BY <1>9, <2>1, <2>3, <2>5 DEF St, Ki, Fills, Making
    <2>9. Sound'
      BY <1>1, <1>4, <1>5, <2>5, <2>6, <2>8, FillingKeeps DEF Up, Making
    <2> QED BY <2>7, <2>9 DEF ThreadsInv
  <1> QED BY <1>8, <1>9 DEF CreateAllocFails, At, Pc

LEMMA CreateBadStep ==
    ASSUME ThreadsInv, NEW s \in Slot, CreateBad(s)
    PROVE  ThreadsInv'
  <1> USE Numbers
  <1>1. /\ Types /\ Sound /\ ~ panic /\ St(s) = "RUNNABLE" /\ Pc(s) = "create_end"
        /\ UNCHANGED <<nextpid, panic, program>> /\ at' = [at EXCEPT ![s] = User]
    BY DEF CreateBad, At, ThreadsInv, St, Pc
  <1>2. CreateOK(s) /\ MakeOK(s)
    BY <1>1 DEF Sound, KernelOK, Creating, Making
  <1>3. PICK k \in Node : k = Ln(s) /\ ~ Used(s, k) /\ Lm(s) = s
    BY <1>2 DEF CreateOK, Used, Using, Ended
  <1>4. at' \in [Slot -> Locals] /\ Pc(s)' = "user" /\ \A q \in Slot \ {s} : SameAt(q)
    BY <1>1, GoesHome
  <1>5. KernelOK(s)'
    BY <1>4 DEF KernelOK, Creating, Making
  <1>6. proc[s] \in SlotRec /\ proc[s].table \in [Node -> NodeRec]
    BY <1>1 DEF Types, SlotRec
  <1>7. TS(s, k) = "T_ALLOCATED"
    BY <1>2, <1>3 DEF CreateOK
  <1>8. PICK v \in {"T_UNUSED", "T_ALLOCATED"} : v = IF at[s].fresh THEN "T_UNUSED" ELSE proc[s].table[k].state
    BY <1>7 DEF TS
  <1>20. PICK own \in SlotRec : own = proc[s]
    BY <1>6
  <1>21. PICK w : w = [own EXCEPT !.table[k].state = v]
    OBVIOUS
  <1>22. HasState(w, own, k, v)
    <2>1. v \in NodeStates /\ SetsState(w, own, k, v)
      BY <1>20, <1>21 DEF NodeStates, SetsState
    <2> QED BY <2>1, NodeState
  <1>9. /\ w \in SlotRec /\ w.state = proc[s].state /\ w.is_main = proc[s].is_main
        /\ w.main_ptr = proc[s].main_ptr /\ w.parent = proc[s].parent
        /\ w.thread_num = proc[s].thread_num /\ w.killed = proc[s].killed
        /\ w.table[k].state = v /\ w.table[k].thread = proc[s].table[k].thread
        /\ \A n \in Node \ {k} : w.table[n] = proc[s].table[n]
    <2>1. HasState(w, proc[s], k, v)
      BY <1>20, <1>22
    <2> QED BY <2>1 DEF HasState
  <1>10. PICK e \in Slot : e = Lo(s) /\ St(e) = "EMBRYO" /\ e # s
    BY <1>1, <1>2 DEF MakeOK
  <1> DEFINE r == [proc[e] EXCEPT !.kstack = FALSE, !.state = "UNUSED"]
  <1>11. proc[e] \in SlotRec
    BY <1>1 DEF Types
  <1>12. r \in SlotRec /\ r.state = "UNUSED" /\ r.killed = proc[e].killed
    BY <1>11, ZenonT(60) DEF SlotRec, States
  <1>13. proc' = [proc EXCEPT ![s] = w, ![e] = r]
    <2>1. proc' = [proc EXCEPT ![s].table[k].state = IF at[s].fresh THEN "T_UNUSED" ELSE @,
                               ![e].kstack = FALSE, ![e].state = "UNUSED"]
      BY <1>3, <1>10 DEF CreateBad, Lm, Ln, Lo
    <2>2. [proc EXCEPT ![s].table[k].state = IF at[s].fresh THEN "T_UNUSED" ELSE @] = [proc EXCEPT ![s] = w]
      BY <1>1, <1>6, <1>8, <1>20, <1>21 DEF Types
    <2> QED BY <1>1, <1>10, <2>1, <2>2 DEF Types
  <1> HIDE DEF r
  <1>14. /\ proc' \in [Slot -> SlotRec] /\ proc'[s] = w /\ proc'[e] = r
         /\ \A q \in Slot \ {s, e} : Untouched(q)
    BY <1>1, <1>9, <1>10, <1>12, <1>13, WritesTwo, ZenonT(60)
  <1>19. w.table[k].state \in {"T_UNUSED", "T_ALLOCATED"}
    BY <1>9
  <1>15. /\ St(s)' = St(s) /\ SameTies(s) /\ Ki(s)' = Ki(s)
         /\ \A n \in Node : SameNode(s, n) \/ (~ Used(s, n) /\ ~ Used(s, n)' /\ TT(s, n)' = TT(s, n))
    <2>1. proc'[s] = w /\ ~ Used(s, k)
      BY <1>3, <1>14
    <2> QED BY <1>9, <1>19, <2>1, NodeFreed
  <1>16. Types'
    BY <1>1, <1>4, <1>14 DEF Types
  <1>17. St(e)' = "UNUSED" /\ Ki(e)' = Ki(e) /\ Fills(s, e)
    BY <1>1, <1>10, <1>12, <1>14 DEF St, Ki, Fills, Making
  <1>18. Sound'
    BY <1>1, <1>4, <1>5, <1>14, <1>15, <1>17, FillingKeeps DEF Up, Making
  <1> QED BY <1>16, <1>18 DEF ThreadsInv

LEMMA ForkFillStep ==
    ASSUME ThreadsInv, NEW s \in Slot, ForkFill(s)
    PROVE  ThreadsInv'
  <1> USE Numbers
  <1>1. /\ Types /\ Sound /\ ~ panic /\ St(s) = "RUNNABLE" /\ Pc(s) = "fork"
        /\ UNCHANGED <<nextpid, panic, program>>
    BY DEF ForkFill, At, ThreadsInv, St, Pc
  <1>2. ForkOK(s) /\ MakeOK(s)
    BY <1>1 DEF Sound, KernelOK, Creating, Making
  <1>3. PICK e \in Slot : e = Lo(s) /\ St(e) = "EMBRYO" /\ e # s
    BY <1>1, <1>2 DEF MakeOK
  <1>4. PICK m \in Slot : m = Lm(s) /\ m = Chief(s)
    BY <1>1, <1>2, ChiefIs DEF ForkOK, Up
  <1>5. Fills(s, e) /\ Up(s)
    BY <1>1, <1>3 DEF Fills, Making, Up
  <1>6. proc[e] \in SlotRec /\ proc[m].sz \in Nat
    BY <1>1 DEF Types, SlotRec
  <1>7. CASE /\ proc' = [proc EXCEPT ![Lo(s)].kstack = TRUE, ![Lo(s)].table = NoTable,
                                     ![Lo(s)].sz = proc[Lm(s)].sz, ![Lo(s)].parent = Lm(s)]
             /\ at' = [at EXCEPT ![s].pc = "fork_end"]
    <2> DEFINE a == [proc[e] EXCEPT !.kstack = TRUE, !.table = NoTable]
               r == [a EXCEPT !.sz = proc[m].sz, !.parent = m]
    <2>1. NoTable \in [Node -> NodeRec]
      BY DEF NoTable, FreeNode, NodeRec, NodeStates
    <2>2. a \in SlotRec /\ a.state = proc[e].state /\ a.killed = proc[e].killed
      BY <1>6, <2>1 DEF SlotRec
    <2>3. proc' = [proc EXCEPT ![e] = r]
      BY <1>3, <1>4, <1>7
    <2> HIDE DEF a
    <2>4. r \in SlotRec /\ r.state = proc[e].state /\ r.killed = proc[e].killed /\ r.parent = m
      BY <1>6, <2>2 DEF SlotRec
    <2> HIDE DEF r
    <2>5. proc' \in [Slot -> SlotRec] /\ proc'[e] = r /\ \A q \in Slot \ {e} : Untouched(q)
      BY <1>1, <2>3, <2>4, Writes
    <2>6. /\ at' \in [Slot -> Locals] /\ Pc(s)' = "fork_end" /\ Lm(s)' = m /\ Ln(s)' = Ln(s) /\ Lo(s)' = e
          /\ \A q \in Slot \ {s} : SameAt(q)
      BY <1>1, <1>3, <1>4, <1>7, GoesTo DEF Pcs
    <2>7. Types'
      BY <1>1, <2>5, <2>6 DEF Types
    <2>8. St(e)' = "EMBRYO" /\ Ki(e)' = Ki(e) /\ Pa(e)' = m
      BY <1>3, <2>4, <2>5 DEF St, Ki, Pa
    <2>9. Untouched(s)
      BY <1>3, <2>5
    <2>10. KernelOK(s)'
      <3>1. MakeOK(s)'
        BY <2>6, <2>8 DEF MakeOK
      <3>2. ForkOK(s)'
        BY <1>4, <2>6, <2>8, <2>9 DEF ForkOK, Chief, Untouched, SameTies
      <3> QED BY <2>6, <3>1, <3>2 DEF KernelOK, Creating
    <2>11. Sound'
      BY <1>1, <1>5, <2>5, <2>6, <2>8, <2>9, <2>10, FillingKeeps DEF Untouched
    <2> QED BY <2>7, <2>11 DEF ThreadsInv
  <1>8. CASE proc' = [proc EXCEPT ![Lo(s)].state = "UNUSED"] /\ at' = [at EXCEPT ![s] = User]
    <2> DEFINE r == [proc[e] EXCEPT !.state = "UNUSED"]
    <2>1. r \in SlotRec /\ r.state = "UNUSED" /\ r.killed = proc[e].killed
      BY <1>6 DEF SlotRec, States
    <2>2. proc' = [proc EXCEPT ![e] = r]
      BY <1>3, <1>8
    <2> HIDE DEF r
    <2>3. proc' \in [Slot -> SlotRec] /\ proc'[e] = r /\ \A q \in Slot \ {e} : Untouched(q)
      BY <1>1, <2>1, <2>2, Writes
    <2>4. at' \in [Slot -> Locals] /\ Pc(s)' = "user" /\ \A q \in Slot \ {s} : SameAt(q)
      BY <1>1, <1>8, GoesHome
    <2>5. Types'
      BY <1>1, <2>3, <2>4 DEF Types
    <2>6. St(e)' = "UNUSED" /\ Ki(e)' = Ki(e)
      BY <2>1, <2>3 DEF St, Ki
    <2>7. Untouched(s)
      BY <1>3, <2>3
    <2>8. KernelOK(s)'
      BY <2>4 DEF KernelOK, Creating, Making
    <2>9. Sound'
      BY <1>1, <1>5, <2>3, <2>4, <2>6, <2>7, <2>8, FillingKeeps DEF Untouched, Making
    <2> QED BY <2>5, <2>9 DEF ThreadsInv
  <1> QED BY <1>7, <1>8 DEF ForkFill, Lm, Lo

-----------------------------------------------------------------------------
(* kill, thread_join before the thread has ended, exit by a thread, exec *)

\* The invariant after a step of s that changes no table and no tie.
LEMMA BareKeeps ==
    ASSUME NEW s \in Slot, Sound, Bare(s), Pc(s) \notin {"exit", "exec_main"}, ~ Replacing(program),
           Pc(s)' \notin {"exit", "exec_main"}, Pc(s)' \notin Making, KernelOK(s)',
           s = INITPROC => Pc(s)' \in {"user", "wait"}
    PROVE  Sound'
  <1>1. EmbryosOK'
    BY DEF Sound, EmbryosOK, Bare, SameAt
  <1>2. \A q \in Slot : LastingOK(q)'
    BY DEF LastingOK, Bare, Replacing, Makes
  <1> QED BY <1>1, <1>2, BareIsQuiet, QuietKeeps

LEMMA Marked ==
    ASSUME NEW p \in SlotRec, NEW r \in SlotRec, AsleepOrSame(p, r), NEW q, proc[q] = r,
           proc'[q] = p \/ proc'[q] = [p EXCEPT !.killed = TRUE]
    PROVE  /\ proc'[q] \in SlotRec /\ SameTies(q) /\ Stays(q)
           /\ \A n \in Node : SameNode(q, n)
  <1> DEFINE w == [p EXCEPT !.killed = TRUE]
  <1>1. /\ w \in SlotRec /\ w.table = p.table /\ w.is_main = p.is_main /\ w.main_ptr = p.main_ptr
        /\ w.parent = p.parent /\ w.thread_num = p.thread_num /\ w.state = p.state /\ w.chan = p.chan
    BY DEF SlotRec
  <1> HIDE DEF w
  <1>2. /\ proc'[q] \in SlotRec /\ proc'[q].table = r.table /\ proc'[q].is_main = r.is_main
        /\ proc'[q].main_ptr = r.main_ptr /\ proc'[q].parent = r.parent
        /\ proc'[q].thread_num = r.thread_num
        /\ (proc'[q].state = r.state /\ proc'[q].chan = r.chan)
           \/ (r.state = "SLEEPING" /\ proc'[q].state = "RUNNABLE")
    <2>1. CASE proc'[q] = p
      BY <2>1 DEF AsleepOrSame
    <2>2. CASE proc'[q] = w
      BY <1>1, <2>2 DEF AsleepOrSame
    <2> QED BY <2>1, <2>2 DEF w
  <1> QED BY <1>2 DEF SameTies, Stays, Woken, SameNode, Mn, Mp, Pa, Tn, St, Ch, TS, TT

LEMMA KillStep ==
    ASSUME AllOrderly, ThreadsInv, NEW s \in Slot, NEW pid \in Targets, Kill(s, pid)
    PROVE  ThreadsInv'
  <1>1. Types /\ Sound /\ ~ panic
    BY DEF Kill, Calls, At, ThreadsInv
  <1>2. St(s) = "RUNNABLE" /\ Pc(s) = "user" /\ s # INITPROC /\ ~ Replacing(program)
    BY <1>1, CallIs DEF Kill
  <1>3. \E hit : proc' = [q \in Slot |-> IF q \in hit THEN [Rouse(proc, hit)[q] EXCEPT !.killed = TRUE]
                                                       ELSE Rouse(proc, hit)[q]]
    BY DEF Kill
  <1>4. PICK hit : proc' = [q \in Slot |-> IF q \in hit THEN [Rouse(proc, hit)[q] EXCEPT !.killed = TRUE]
                                                         ELSE Rouse(proc, hit)[q]]
    BY <1>3
  <1>5. UNCHANGED <<nextpid, panic, program>> /\ at' = at
    BY DEF Kill
  <1>6. proc \in [Slot -> SlotRec]
    BY <1>1 DEF Types
  <1>7. /\ Rouse(proc, hit) \in [Slot -> SlotRec]
        /\ \A q \in Slot : AsleepOrSame(Rouse(proc, hit)[q], proc[q])
    BY <1>6, Rouses
  <1>8. ASSUME NEW q \in Slot
        PROVE  proc'[q] \in SlotRec /\ SameTies(q) /\ Stays(q) /\ \A n \in Node : SameNode(q, n)
    <2>1. PICK p \in SlotRec, r \in SlotRec : p = Rouse(proc, hit)[q] /\ r = proc[q]
      BY <1>6, <1>7
    <2>2. proc'[q] = p \/ proc'[q] = [p EXCEPT !.killed = TRUE]
      BY <1>4, <2>1
    <2>3. AsleepOrSame(p, r)
      BY <1>7, <2>1
    <2> QED BY <2>1, <2>2, <2>3, Marked
  <1>9. proc' \in [Slot -> SlotRec]
    BY <1>4, <1>8
  <1>10. at' \in [Slot -> Locals] /\ \A q \in Slot : SameAt(q)
    BY <1>1, <1>5, StandsStill
  <1>11. Types'
    BY <1>1, <1>5, <1>9, <1>10 DEF Types
  <1>12. Pc(s)' = "user"
    BY <1>2, <1>10 DEF SameAt
  <1>13. Bare(s)
    BY <1>2, <1>5, <1>8, <1>10 DEF Bare, Stays, Woken, Up
  <1>14. KernelOK(s)'
    BY <1>12 DEF KernelOK, Creating, Making
  <1>15. Sound'
    BY <1>1, <1>2, <1>12, <1>13, <1>14, BareKeeps DEF Making
  <1> QED BY <1>11, <1>15 DEF ThreadsInv

LEMMA AskMainStep ==
    ASSUME Types, Sound, ~ panic, NEW s \in Slot, St(s) = "RUNNABLE", Pc(s) = "user", ~ Mn(s),
           ~ Replacing(program), NEW m \in Slot, s # m, AskMain(s, m), UNCHANGED <<nextpid, program>>
    PROVE  ThreadsInv'
  <1>1. s # INITPROC
    BY DEF Sound, InitOK
  <1> DEFINE p == Rouse(proc, {m})
             a == [p[m] EXCEPT !.killed = TRUE]
             b == [p[s] EXCEPT !.state = "SLEEPING", !.chan = <<"exit", s>>]
  <1>2. proc \in [Slot -> SlotRec]
    BY DEF Types
  <1>3. /\ p \in [Slot -> SlotRec] /\ \A q \in Slot : AsleepOrSame(p[q], proc[q])
        /\ \A q \in Slot \ {m} : p[q] = proc[q]
    BY <1>2, Rouses
  <1>4. proc' = [p EXCEPT ![m].killed = TRUE, ![s].state = "SLEEPING", ![s].chan = <<"exit", s>>]
    BY DEF AskMain
  <1> HIDE DEF p
  <1>5. proc' = [q \in Slot |-> IF q = m THEN a ELSE IF q = s THEN b ELSE p[q]]
    <2> DEFINE c == [p EXCEPT ![m] = a]
    <2>1. c = [q \in Slot |-> IF q = m THEN a ELSE p[q]] /\ c[s] = p[s]
      BY <1>3
    <2>2. proc' = [c EXCEPT ![s].state = "SLEEPING", ![s].chan = <<"exit", s>>]
      BY <1>4
    <2>3. proc' = [c EXCEPT ![s] = [c[s] EXCEPT !.state = "SLEEPING", !.chan = <<"exit", s>>]]
      BY <2>2
    <2>4. proc' = [c EXCEPT ![s] = b]
      BY <2>1, <2>3
    <2> HIDE DEF a, b, c
    <2> QED BY <2>1, <2>4
  <1>6. ASSUME NEW q \in Slot, q # s
        PROVE  proc'[q] \in SlotRec /\ SameTies(q) /\ Stays(q) /\ \A n \in Node : SameNode(q, n)
    <2>1. PICK x \in SlotRec, r \in SlotRec : x = p[q] /\ r = proc[q]
      BY <1>2, <1>3
    <2>2. proc'[q] = x \/ proc'[q] = [x EXCEPT !.killed = TRUE]
      BY <1>5, <1>6, <2>1
    <2>3. AsleepOrSame(x, r)
      BY <1>3, <2>1
    <2> QED BY <2>1, <2>2, <2>3, Marked
  <1>7. proc'[s] \in SlotRec /\ SameTies(s) /\ St(s)' = "SLEEPING" /\ \A n \in Node : SameNode(s, n)
    <2>1. p[s] \in SlotRec /\ p[s] = proc[s]
      BY <1>3
    <2>2. /\ b \in SlotRec /\ b.state = "SLEEPING" /\ b.table = p[s].table /\ b.is_main = p[s].is_main
          /\ b.main_ptr = p[s].main_ptr /\ b.parent = p[s].parent /\ b.thread_num = p[s].thread_num
      BY <2>1, Channels DEF SlotRec, States
    <2>3. proc'[s] = b
      BY <1>5
    <2> HIDE DEF b
    <2> QED BY <2>1, <2>2, <2>3 DEF SameTies, SameNode, Mn, Mp, Pa, Tn, St, TS, TT
  <1>8. proc' \in [Slot -> SlotRec]
    BY <1>5, <1>6, <1>7
  <1> DEFINE local == [User EXCEPT !.pc = "exit_woken", !.main = m]
  <1>9. local \in Locals
    BY Numbers DEF User, Locals, Pcs
  <1>10. local.pc = "exit_woken"
    BY DEF User
  <1>11. at' = [at EXCEPT ![s] = local] /\ panic' = FALSE
    BY DEF AskMain
  <1> HIDE DEF local
  <1>12. PICK l \in Locals : l = local /\ l.pc = "exit_woken"
    BY <1>9, <1>10
  <1>13. at' \in [Slot -> Locals] /\ Pc(s)' = l.pc /\ \A q \in Slot \ {s} : SameAt(q)
    BY <1>11, <1>12, Moves
  <1>14. nextpid' \in Int /\ panic' \in BOOLEAN /\ program' \in Programs
    <2>1. nextpid' \in Int /\ program' \in Programs
      BY DEF Types
    <2>2. panic' \in BOOLEAN
      BY <1>11
    <2> QED BY <2>1, <2>2
  <1>15. Types'
    BY <1>8, <1>13, <1>14 DEF Types
  <1>16. \A q \in Slot : SameTies(q) /\ \A n \in Node : SameNode(q, n)
    BY <1>6, <1>7
  <1>17. Bare(s)
    BY <1>6, <1>7, <1>13, <1>16 DEF Bare, Up
  <1>18. KernelOK(s)'
    BY <1>7, <1>12, <1>13 DEF KernelOK, Creating, Making, SameTies
  <1>19. Sound'
    BY <1>1, <1>12, <1>13, <1>17, <1>18, BareKeeps DEF Making
  <1> QED BY <1>15, <1>19 DEF ThreadsInv

\* The main thread sleeps until its thread ends.
LEMMA JoinSleepsStep ==
    ASSUME Types, Sound, ~ panic, NEW s \in Slot, St(s) = "RUNNABLE", Pc(s) = "user", Mn(s), s # INITPROC,
           ~ Replacing(program), NEW k \in Node, TS(s, k) = "T_USING", NEW tid \in Nat,
           proc' = [proc EXCEPT ![s].state = "SLEEPING", ![s].chan = <<"join", s, k>>],
           at' = [at EXCEPT ![s] = [User EXCEPT !.pc = "join", !.main = s, !.node = k,
                                       !.other = proc[s].table[k].thread, !.arg = tid]],
           UNCHANGED <<nextpid, panic, program>>
    PROVE  ThreadsInv'
  <1> USE Numbers
  <1>1. PICK t \in Maybe : t = TT(s, k) /\ t = proc[s].table[k].thread
    BY DEF Types, SlotRec, NodeRec, TT
  <1> DEFINE local == [User EXCEPT !.pc = "join", !.main = s, !.node = k, !.other = t, !.arg = tid]
  <1>2. local \in Locals
    BY DEF User, Locals, Pcs
  <1>3. local.pc = "join" /\ local.main = s /\ local.node = k /\ local.other = t
    BY DEF User
  <1>4. at' = [at EXCEPT ![s] = local]
    BY <1>1
  <1> HIDE DEF local
  <1>5. PICK l \in Locals : l = local
    BY <1>2
  <1>6. /\ at' \in [Slot -> Locals] /\ Pc(s)' = l.pc /\ Lm(s)' = l.main /\ Ln(s)' = l.node /\ Lo(s)' = l.other
        /\ \A q \in Slot \ {s} : SameAt(q)
    BY <1>4, <1>5, Moves, ZenonT(60)
  <1>7. Pc(s)' = "join" /\ Lm(s)' = s /\ Ln(s)' = k /\ Lo(s)' = t
    BY <1>3, <1>5, <1>6
  <1>8. PICK c \in Chans : c = <<"join", s, k>>
    BY Channels
  <1>9. /\ proc' \in [Slot -> SlotRec] /\ St(s)' = "SLEEPING" /\ Ch(s)' = c
        /\ \A q \in Slot : SameTies(q) /\ \A n \in Node : SameNode(q, n)
        /\ \A q \in Slot \ {s} : Untouched(q)
    BY <1>8, Dozes
  <1>10. Types'
    BY <1>6, <1>9 DEF Types
  <1>11. Bare(s)
    BY <1>6, <1>9 DEF Bare, Untouched, Stays, Up
  <1>12. TS(s, k)' = "T_USING" /\ TT(s, k)' = t /\ Mn(s)'
    BY <1>1, <1>9 DEF SameNode, SameTies
  <1>13. JoinOK(s)'
    BY <1>7, <1>8, <1>9, <1>12 DEF JoinOK, Used, Using
  <1>14. KernelOK(s)'
    BY <1>7, <1>13 DEF KernelOK, Creating, Making
  <1>15. Sound'
    BY <1>7, <1>11, <1>14, BareKeeps DEF Making
  <1> QED BY <1>10, <1>15 DEF ThreadsInv

\* A process without threads holds none.
LEMMA AloneHoldsNone ==
    ASSUME Types, Sound, NEW s \in Slot, St(s) = "RUNNABLE", Pc(s) = "user", Mn(s), program.threads <= 1
    PROVE  (\A n \in Node : ~ Used(s, n)) /\ Held(s) = {}
  <1>1. Leader(s)
    BY DEF Leader, Up
  <1>2. ~ Replaced(s)
    BY DEF Replaced, Sound, KernelOK, ReplaceOK, AloneOK, There
  <1>3. ASSUME NEW n \in Node PROVE ~ Used(s, n)
    <2> SUFFICES ASSUME Used(s, n) PROVE FALSE
      OBVIOUS
    <2>1. Holds(s, TT(s, n), TS(s, n))
      BY <1>1, <1>2 DEF Sound, TableOK, NodeOK
    <2>2. PICK t \in Slot : t = TT(s, n) /\ ~ Mn(t) /\ There(t)
      BY <2>1 DEF Holds, There, Used, Using, Ended
    <2> QED BY <2>2 DEF Sound, AloneOK
  <1>4. Held(s) = {}
    BY <1>3 DEF Held, Used, Using, Ended, TS
  <1> QED BY <1>3, <1>4

\* The main thread calls exec() when it has no threads.
LEMMA ExecAloneStep ==
    ASSUME Types, Sound, ~ panic, NEW s \in Slot, St(s) = "RUNNABLE", Pc(s) = "user", Mn(s), s # INITPROC,
           program.threads <= 1, Exec(s)
    PROVE  ThreadsInv'
  <1>1. (\A n \in Node : ~ Used(s, n)) /\ Held(s) = {} /\ Main(s) = s
    BY AloneHoldsNone DEF Main, Mn
  <1>2. /\ UNCHANGED <<nextpid, program>> /\ proc' = InitThreadData(proc, {})
        /\ Destroy({}, s, [User EXCEPT !.pc = "exec"])
    <2>1. Held(Main(s)) \ {s} = {}
      BY <1>1
    <2>2. proc[s].is_main
      BY DEF Mn
    <2> QED BY <2>1, <2>2 DEF Exec
  <1>3. proc' = proc
    BY <1>2 DEF InitThreadData, Types
  <1>4. panic' = FALSE /\ at' = [at EXCEPT ![s] = [User EXCEPT !.pc = "exec"]]
    <2>1. at \in [Slot -> Locals]
      BY DEF Types
    <2>2. panic' = (\E t \in {} : ~ proc[t].kstack)
      BY <1>2 DEF Destroy
    <2>3. panic' = FALSE
      BY <2>2
    <2>4. at' = [t \in Slot |-> IF t = s THEN [User EXCEPT !.pc = "exec"] ELSE at[t]]
      BY <1>2 DEF Destroy
    <2> QED BY <2>1, <2>3, <2>4
  <1>5. PICK l \in Locals : l = [User EXCEPT !.pc = "exec"]
    BY LocalsAre DEF Pcs
  <1>6. l.pc = "exec"
    BY <1>5 DEF User
  <1>7. at' \in [Slot -> Locals] /\ Pc(s)' = l.pc /\ \A q \in Slot \ {s} : SameAt(q)
    BY <1>4, <1>5, Moves
  <1>8. proc' \in [Slot -> SlotRec] /\ \A q \in Slot : Untouched(q)
    BY <1>3, UnchangedProc
  <1>9. nextpid' \in Int /\ program' \in Programs
    BY <1>2 DEF Types
  <1>10. panic' \in BOOLEAN
    BY <1>4
  <1>11. Types'
    BY <1>7, <1>8, <1>9, <1>10 DEF Types
  <1>12. Bare(s)
    BY <1>2, <1>7, <1>8 DEF Bare, Untouched, Stays, Up
  <1>13. KernelOK(s)'
    BY <1>1, <1>6, <1>7, <1>8 DEF KernelOK, Creating, Making, Untouched, SameTies, SameNode, Used, Using, Ended
  <1>14. EmbryosOK'
    BY <1>6, <1>7 DEF Sound, EmbryosOK, SameAt, Making
  <1>15. ASSUME NEW q \in Slot PROVE LastingOK(q)'
    BY <1>2, <1>6, <1>7, <1>8 DEF Sound, LastingOK, SameAt, Untouched, SameTies
  <1>16. Sound'
    BY <1>6, <1>7, <1>12, <1>13, <1>14, <1>15, BareIsQuiet, QuietKeeps
  <1> QED BY <1>11, <1>16 DEF ThreadsInv

-----------------------------------------------------------------------------
(* A slot is ready: a new thread, or a new process *)

LEMMA StartKeeps ==
    ASSUME Types, Sound, NEW s \in Slot, NEW e \in Slot, Fills(s, e), St(s) = "RUNNABLE",
           program' = program,
           St(e)' = "RUNNABLE", Ki(e)' = Ki(e), St(s)' = St(s), Ki(s)' = Ki(s),
           Mn(s)' = Mn(s), Mp(s)' = Mp(s), Pa(s)' = Pa(s),
           \A q \in Slot \ {s, e} : Untouched(q),
           \A n \in Node : SameNode(s, n) \/ ~ Used(s, n),
           (Tn(s)' = Tn(s) /\ \A n \in Node : SameNode(s, n)) \/ (Tn(s) < program.threads /\ TableOK(s)'),
           Pc(s)' = "user", \A q \in Slot \ {s} : SameAt(q),
           Mn(e)' \/ (Mp(e)' = s /\ Mn(s) /\ Tn(s) < program.threads),
           ThreadOK(e)', TableOK(e)', ParentOK(e)', AloneOK(e)', AloneOK(s)'
    PROVE  Sound'
  <1> USE Numbers
  <1>1. St(e) = "EMBRYO" /\ s # e /\ Pc(s) \in Making /\ Pc(s) \notin {"exit", "exec_main"} /\ Up(s)
    BY DEF Fills, Sound, KernelOK, MakeOK, Up, Making
  <1>2. ~ There(e) /\ ~ Up(e) /\ Pc(e) = "user" /\ Pc(e)' = "user" /\ e # INITPROC /\ s # INITPROC
    BY <1>1 DEF Sound, IdleOK, SameAt, There, Up, InitOK, Making
  <1>3. \A q \in Slot \ {e} :
           /\ St(q)' = St(q) /\ Mn(q)' = Mn(q) /\ Mp(q)' = Mp(q) /\ Pa(q)' = Pa(q) /\ Ki(q)' = Ki(q)
           /\ q # s => Tn(q)' = Tn(q) /\ \A n \in Node : SameNode(q, n)
    BY DEF Untouched, SameTies
  <1>4. \A q \in Slot \ {e} :
           Up(q)' = Up(q) /\ There(q)' = There(q) /\ Thread(q)' = Thread(q) /\ Chief(q)' = Chief(q)
    BY <1>3 DEF Up, There, Thread, Chief
  <1>5. \A q \in Slot : Pc(q)' = "exec_main" <=> Pc(q) = "exec_main"
    BY <1>1 DEF SameAt
  <1>6. \A m \in Slot : Replaced(m)' = Replaced(m)
    BY <1>2, <1>3, <1>5 DEF Replaced
  <1>7. \A q \in Slot \ {e} : Leader(q)' = Leader(q)
    BY <1>1, <1>3, <1>4 DEF Leader, SameAt
  <1>8. ASSUME NEW q \in Slot PROVE IdleOK(q)'
    BY <1>2, <1>4 DEF Sound, IdleOK, SameAt
  <1>9. ASSUME NEW t \in Slot PROVE ThreadOK(t)'
    <2> SUFFICES ASSUME t # e, Thread(t)' PROVE \E m \in Slot : Mp(t)' = m /\ Leader(m)' /\ Placed(t, m)'
      BY DEF ThreadOK
    <2>1. PICK m \in Slot : Mp(t)' = m /\ Leader(m) /\ Placed(t, m)
      BY <1>3, <1>4 DEF Sound, ThreadOK
    <2>2. m # e /\ Leader(m)'
      BY <1>2, <1>7, <2>1 DEF Leader
    <2>3. PICK n \in Node : TT(m, n) = t /\ (IF Up(t) THEN Using(m, n) ELSE Ended(m, n))
      BY <2>1 DEF Placed
    <2>4. SameNode(m, n)
      BY <1>3, <2>2, <2>3 DEF Used
    <2>5. Placed(t, m)'
      BY <1>4, <2>3, <2>4 DEF Placed, SameNode, Using, Ended
    <2> QED BY <2>1, <2>2, <2>5
  <1>10. ASSUME NEW m \in Slot PROVE TableOK(m)'
    <2> SUFFICES ASSUME m # e, \A n \in Node : SameNode(m, n) PROVE TableOK(m)'
      BY <1>3
    <2>1. ASSUME NEW n \in Node, NodeOK(m, n) PROVE NodeOK(m, n)'
      <3>1. ASSUME Used(m, n), ~ Replaced(m) PROVE Holds(m, TT(m, n), TS(m, n))'
        <4>1. PICK t \in Slot : t = TT(m, n) /\ Holds(m, t, TS(m, n))
          BY <2>1, <3>1 DEF NodeOK, Holds
        <4>2. t # e
          BY <1>2, <3>1, <4>1 DEF Holds, Used, Using, Ended, There
        <4>3. TT(m, n)' = t /\ TS(m, n)' = TS(m, n)
          BY <4>1 DEF SameNode
        <4> QED BY <1>3, <1>4, <4>1, <4>2, <4>3 DEF Holds
      <3> QED BY <1>6, <2>1, <3>1 DEF NodeOK, SameNode, Used, Using, Ended
    <2>2. Distinct(m) => Distinct(m)'
      BY DEF Distinct, SameNode, Used, Using, Ended
    <2> QED BY <1>6, <1>7, <2>1, <2>2 DEF Sound, TableOK
  <1>11. ASSUME NEW q \in Slot PROVE KernelOK(q)'
    <2>1. CASE q \in {s, e}
      BY <1>2, <2>1 DEF KernelOK, Creating, Making
    <2>2. CASE q \notin {s, e}
      <3>1. KernelOK(q) /\ SameAt(q) /\ Untouched(q)
        BY <2>2 DEF Sound
      <3>2. Pc(q) \in Creating => CreateOK(q)'
        BY <3>1 DEF KernelOK, CreateOK, SameAt, Untouched, SameTies, SameNode
      <3>3. Pc(q) \in Making => MakeOK(q)' /\ Pa(Lo(q))' = Pa(Lo(q))
        <4> SUFFICES ASSUME Pc(q) \in Making PROVE MakeOK(q)' /\ Pa(Lo(q))' = Pa(Lo(q))
          OBVIOUS
        <4>1. PICK x \in Slot : x = Lo(q) /\ St(x) = "EMBRYO" /\ x # e
          BY <1>1, <2>2, <3>1 DEF KernelOK, MakeOK, Fills, Sound, EmbryosOK
        <4>2. St(x)' = "EMBRYO" /\ Pa(x)' = Pa(x)
          BY <1>3, <4>1
        <4> QED BY <3>1, <4>1, <4>2 DEF MakeOK, SameAt
      <3>4. Pc(q) \in {"fork", "fork_end"} => ForkOK(q)'
        BY <1>4, <2>2, <3>1, <3>3 DEF KernelOK, ForkOK, SameAt, Making
      <3>5. Pc(q) = "join" => JoinOK(q)'
        BY <3>1 DEF KernelOK, JoinOK, SameAt, Untouched, SameTies, SameNode, Used, Using, Ended
      <3>6. Pc(q) = "exec_main" => ReplaceOK(q)'
        <4> SUFFICES ASSUME Pc(q) = "exec_main" PROVE ReplaceOK(q)'
          OBVIOUS
        <4>1. ReplaceOK(q) /\ Thread(q)
          BY <3>1 DEF KernelOK, ReplaceOK, Thread, There
        <4>2. PICK m \in Slot : Mp(q) = m /\ Leader(m)
          BY <4>1 DEF Sound, ThreadOK
        <4>3. m # e /\ Mp(q)' = m
          BY <1>2, <2>2, <1>3, <4>2 DEF Leader
        <4>4. Tn(m) = program.threads /\ Tn(m) \in Nat
          BY <4>1, <4>2 DEF ReplaceOK, Types, SlotRec, Tn
        <4>5. Tn(m)' = program.threads /\ ~ (Mp(e)' = m /\ ~ Mn(e)')
          BY <1>3, <4>3, <4>4
        <4>6. \A t \in Slot \ {q} : Thread(t)' => Mp(t)' # m
          BY <1>3, <1>4, <4>1, <4>2, <4>5 DEF ReplaceOK, Thread
        <4> QED BY <1>4, <2>2, <3>1, <4>1, <4>3, <4>5, <4>6 DEF ReplaceOK, Untouched, SameTies
      <3> QED BY <3>1, <3>2, <3>3, <3>4, <3>5, <3>6
              DEF KernelOK, SameAt, Untouched, SameTies, SameNode, Used, Using, Ended
    <2> QED BY <2>1, <2>2
  <1>12. EmbryosOK'
    <2>1. \A x \in Slot : Pc(x)' \in Making => Lo(x)' = Lo(x) /\ Pc(x) \in Making
      BY DEF SameAt, Making
    <2> QED BY <2>1 DEF Sound, EmbryosOK
  <1>13. ASSUME NEW m \in Slot PROVE ParentOK(m)'
    <2> SUFFICES ASSUME m # e, m # INITPROC, Mn(m)', There(m)'
                 PROVE  Pa(m)' \in Slot /\ Pa(m)' # m /\ Mn(Pa(m))' /\ Up(Pa(m))'
      BY DEF ParentOK
    <2>1. PICK p \in Slot : Pa(m)' = p /\ p # m /\ Mn(p) /\ Up(p)
      BY <1>3, <1>4 DEF Sound, ParentOK
    <2>2. Mn(p)' /\ Up(p)'
      BY <1>2, <1>3, <1>4, <2>1
    <2> QED BY <2>1, <2>2
  <1>14. InitOK'
    <2>1. Up(INITPROC)' /\ Mn(INITPROC)' /\ Pc(INITPROC)' \in {"user", "wait"}
      BY <1>2, <1>3, <1>4 DEF Sound, InitOK, SameAt
    <2>2. \A t \in Slot : Thread(t)' => Mp(t)' # INITPROC
      BY <1>2, <1>3, <1>4 DEF Sound, InitOK, Thread
    <2> QED BY <2>1, <2>2 DEF InitOK
  <1>15. ASSUME NEW q \in Slot PROVE AloneOK(q)'
    BY <1>3, <1>4 DEF Sound, AloneOK
  <1>16. ASSUME NEW q \in Slot PROVE LastingOK(q)'
    <2>1. CASE q \in {s, e}
      BY <1>2, <2>1, <1>1 DEF Sound, LastingOK
    <2>2. CASE q \notin {s, e}
      BY <2>2 DEF Sound, LastingOK, SameAt, Untouched, SameTies
    <2> QED BY <2>1, <2>2
  <1> QED BY <1>8, <1>9, <1>10, <1>11, <1>12, <1>13, <1>14, <1>15, <1>16 DEF Sound

LEMMA CreateEndStep ==
    ASSUME ThreadsInv, NEW s \in Slot, CreateEnd(s)
    PROVE  ThreadsInv'
  <1> USE Numbers
  <1>1. /\ Types /\ Sound /\ ~ panic /\ St(s) = "RUNNABLE" /\ Pc(s) = "create_end"
        /\ UNCHANGED <<nextpid, program>> /\ at' = [at EXCEPT ![s] = User]
    BY DEF CreateEnd, At, ThreadsInv, St, Pc
  <1>2. CreateOK(s) /\ MakeOK(s) /\ s # INITPROC
    BY <1>1 DEF Sound, KernelOK, Creating, Making, InitOK
  <1>3. PICK k \in Node : k = Ln(s) /\ Lm(s) = s /\ TS(s, k) = "T_ALLOCATED" /\ ~ Used(s, k)
    BY <1>2 DEF CreateOK, Used, Using, Ended
  <1>4. PICK e \in Slot : e = Lo(s) /\ St(e) = "EMBRYO" /\ e # s
    BY <1>1, <1>2 DEF MakeOK
  <1>5. proc[s] \in SlotRec /\ proc[e] \in SlotRec /\ proc[s].table[k] \in NodeRec /\ at[s] \in Locals
    BY <1>1 DEF Types, SlotRec
  <1>6. PICK top \in Nat : top = IF at[s].fresh THEN at[s].arg + 2 ELSE proc[s].table[k].ustack
    BY <1>5 DEF Locals, NodeRec
  <1>7. PICK size \in Nat : size = IF at[s].fresh THEN top ELSE proc[s].sz
    BY <1>5 DEF SlotRec
  <1>8. PICK id \in Nat : id = proc[s].thread_num
    BY <1>5 DEF SlotRec
  <1> DEFINE node == [proc[s].table[k] EXCEPT !.state = "T_USING", !.thread = e, !.ustack = top]
             a == [proc[s] EXCEPT !.sz = size, !.thread_num = id + 1]
             w == [a EXCEPT !.table[k] = node]
             b == [proc[e] EXCEPT !.state = "RUNNABLE", !.is_main = FALSE]
             r == [b EXCEPT !.main_ptr = s, !.thread_id = id]
  <1>9. node \in NodeRec /\ node.state = "T_USING" /\ node.thread = e
    BY <1>5 DEF NodeRec, NodeStates
  <1>10. /\ a \in SlotRec /\ a.state = proc[s].state /\ a.is_main = proc[s].is_main
         /\ a.main_ptr = proc[s].main_ptr /\ a.parent = proc[s].parent /\ a.killed = proc[s].killed
         /\ a.thread_num = id + 1 /\ a.table = proc[s].table
    <2>1. PICK num \in Nat : num = id + 1
      OBVIOUS
    <2>2. proc[s] \in SlotRec
      BY <1>5
    <2> QED BY <2>1, <2>2 DEF SlotRec
  <1>11. b \in SlotRec /\ b.state = "RUNNABLE" /\ ~ b.is_main /\ b.killed = proc[e].killed
    BY <1>5, ZenonT(60) DEF SlotRec, States
  <1>12. r \in SlotRec /\ r.state = "RUNNABLE" /\ ~ r.is_main /\ r.killed = proc[e].killed /\ r.main_ptr = s
    <2> HIDE DEF b
    <2> QED BY <1>11 DEF SlotRec
  <1>13. proc' = [proc EXCEPT ![s] = w, ![e] = r]
    <2>1. proc' = [proc EXCEPT ![s].sz = size, ![s].thread_num = id + 1, ![s].table[k] = node,
                               ![e].state = "RUNNABLE", ![e].is_main = FALSE,
                               ![e].main_ptr = s, ![e].thread_id = id]
      BY <1>1, <1>3, <1>4, <1>5, <1>6, <1>7, <1>8 DEF CreateEnd, Lm, Ln, Lo, Types
    <2> HIDE DEF node
    <2>2. [proc EXCEPT ![s].sz = size, ![s].thread_num = id + 1, ![s].table[k] = node] = [proc EXCEPT ![s] = w]
      BY <1>1, <1>5 DEF Types
    <2> DEFINE p == [proc EXCEPT ![s] = w]
    <2>3. p[e] = proc[e] /\ p \in [Slot -> {p[q] : q \in Slot}]
      BY <1>1, <1>4 DEF Types
    <2>4. proc' = [p EXCEPT ![e].state = "RUNNABLE", ![e].is_main = FALSE, ![e].main_ptr = s, ![e].thread_id = id]
      BY <2>1, <2>2
    <2>5. proc' = [p EXCEPT ![e] = [p[e] EXCEPT !.state = "RUNNABLE", !.is_main = FALSE, !.main_ptr = s,
                                               !.thread_id = id]]
      BY <2>4, ZenonT(60)
    <2>6. proc' = [p EXCEPT ![e] = r]
      BY <2>3, <2>5
    <2> QED BY <2>6
  <1> HIDE DEF node, a, b, r
  <1>20. /\ w \in SlotRec /\ w.state = proc[s].state /\ w.is_main = proc[s].is_main
         /\ w.main_ptr = proc[s].main_ptr /\ w.parent = proc[s].parent
         /\ w.thread_num = id + 1 /\ w.killed = proc[s].killed
         /\ w.table[k].state = "T_USING" /\ w.table[k].thread = e
         /\ \A n \in Node \ {k} : w.table[n] = proc[s].table[n]
    <2> DEFINE table == [a.table EXCEPT ![k] = node]
    <2>1. a.table \in [Node -> NodeRec]
      BY <1>10 DEF SlotRec
    <2>2. table \in [Node -> NodeRec] /\ table[k] = node /\ \A n \in Node \ {k} : table[n] = a.table[n]
      BY <1>9, <2>1
    <2>3. w = [a EXCEPT !.table = table]
      OBVIOUS
    <2> HIDE DEF table
    <2>4. /\ w \in SlotRec /\ w.state = a.state /\ w.is_main = a.is_main
          /\ w.main_ptr = a.main_ptr /\ w.parent = a.parent /\ w.thread_num = a.thread_num
          /\ w.killed = a.killed /\ w.table = table
      BY <1>10, <2>2, <2>3 DEF SlotRec
    <2> QED BY <1>9, <1>10, <2>2, <2>4
  <1> HIDE DEF w
  <1>21. /\ proc' \in [Slot -> SlotRec] /\ proc'[s] = w /\ proc'[e] = r
         /\ \A q \in Slot \ {s, e} : Untouched(q)
    <2>1. PICK x \in SlotRec, y \in SlotRec : x = w /\ y = r
      BY <1>12, <1>20
    <2>2. proc' = [proc EXCEPT ![s] = x, ![e] = y]
      BY <1>13, <2>1
    <2>3. /\ proc' \in [Slot -> SlotRec] /\ proc'[s] = x /\ proc'[e] = y
          /\ \A q \in Slot \ {s, e} : Untouched(q)
      BY <1>1, <1>4, <2>2, WritesTwo, ZenonT(60)
    <2> QED BY <2>1, <2>3
  <1>22. at' \in [Slot -> Locals] /\ Pc(s)' = "user" /\ \A q \in Slot \ {s} : SameAt(q)
    BY <1>1, GoesHome
  <1>23. panic' \in BOOLEAN
    <2>1. panic' = (at[s].fresh /\ proc[at[s].main].sz > at[s].arg)
      BY DEF CreateEnd
    <2>2. at[s].fresh \in BOOLEAN
      BY <1>5 DEF Locals
    <2> QED BY <2>1, <2>2
  <1>24. nextpid' \in Int /\ program' \in Programs
    BY <1>1 DEF Types
  <1>25. Types'
    BY <1>21, <1>22, <1>23, <1>24 DEF Types
  <1>26. /\ St(s)' = St(s) /\ Ki(s)' = Ki(s) /\ Mn(s)' = Mn(s) /\ Mp(s)' = Mp(s) /\ Pa(s)' = Pa(s)
         /\ \A n \in Node \ {k} : SameNode(s, n)
    BY <1>20, <1>21 DEF St, Ki, Mn, Mp, Pa, SameNode, TS, TT
  <1>27. TS(s, k)' = "T_USING" /\ TT(s, k)' = e
    BY <1>20, <1>21 DEF TS, TT
  <1>28. St(e)' = "RUNNABLE" /\ Ki(e)' = Ki(e) /\ ~ Mn(e)' /\ Mp(e)' = s
    BY <1>12, <1>21 DEF St, Ki, Mn, Mp
  <1>29. Fills(s, e)
    BY <1>1, <1>4 DEF Fills, Making
  <1>30. Mn(s) /\ Tn(s) < program.threads /\ Leader(s) /\ Leader(s)'
    BY <1>1, <1>2, <1>22, <1>26 DEF CreateOK, Leader, Up
  <1>31. ~ There(e) /\ Pc(e) = "user" /\ Pc(e)' = "user"
    <2>1. ~ There(e) /\ ~ Up(e)
      BY <1>4 DEF There, Up
    <2>2. Pc(e) = "user"
      BY <1>1, <2>1 DEF Sound, IdleOK
    <2> QED BY <1>4, <1>22, <2>1, <2>2 DEF SameAt
  <1>32. ThreadOK(e)'
    <2>1. Using(s, k)'
      BY <1>27 DEF Using
    <2>2. Placed(e, s)'
      BY <1>27, <1>28, <2>1 DEF Placed, Up
    <2> QED BY <1>28, <1>30, <2>2 DEF ThreadOK
  <1>33. TableOK(e)'
    BY <1>28 DEF TableOK, Leader
  <1>34. TableOK(s)'
    <2>1. Replaced(s)' => Replaced(s)
      BY <1>21, <1>22, <1>26, <1>28, <1>31 DEF Replaced, SameAt, Untouched, SameTies
    <2>2. (\A n \in Node : NodeOK(s, n)) /\ (Replaced(s) \/ Distinct(s))
      BY <1>1, <1>30 DEF Sound, TableOK
    <2>11. Replaced(s) => Replaced(s)'
      <3> SUFFICES ASSUME NEW q \in Slot, Mp(q) = s, Pc(q) = "exec_main" PROVE Replaced(s)'
        BY DEF Replaced
      <3>1. q # s /\ q # e
        BY <1>1, <1>31
      <3> QED BY <1>21, <1>22, <3>1 DEF Replaced, SameAt, Untouched, SameTies
    <2>3. ASSUME NEW n \in Node, n # k, Used(s, n), ~ Replaced(s)
          PROVE  Holds(s, TT(s, n), TS(s, n))' /\ TT(s, n) # e
      <3>1. PICK t \in Slot : t = TT(s, n) /\ Holds(s, t, TS(s, n)) /\ t # s
        BY <2>2, <2>3 DEF NodeOK, Holds
      <3>2. t # e
        BY <1>31, <2>3, <3>1 DEF Holds, Used, Using, Ended, There
      <3>3. TT(s, n)' = t /\ TS(s, n)' = TS(s, n)
        BY <1>26, <2>3, <3>1 DEF SameNode
      <3>4. Untouched(t)
        BY <1>21, <3>1, <3>2
      <3> QED BY <3>1, <3>2, <3>3, <3>4 DEF Holds, Untouched, SameTies, Up
    <2>4. ASSUME NEW n \in Node PROVE NodeOK(s, n)'
      <3>1. CASE n = k
        <4>1. Holds(s, e, "T_USING")'
          BY <1>28 DEF Holds, Up
        <4>2. Used(s, k)'
          BY <1>27 DEF Used, Using
        <4> QED BY <1>4, <1>27, <3>1, <4>1, <4>2 DEF NodeOK
      <3>2. CASE n # k
        <4>1. SameNode(s, n) /\ NodeOK(s, n)
          BY <1>26, <2>2, <3>2
        <4> QED BY <2>3, <2>11, <3>2, <4>1 DEF NodeOK, SameNode, Used, Using, Ended
      <3> QED BY <3>1, <3>2
    <2>5. Replaced(s)' \/ Distinct(s)'
      <3> SUFFICES ASSUME ~ Replaced(s), NEW n \in Node, NEW j \in Node, Used(s, n)', Used(s, j)', TT(s, n)' = TT(s, j)'
                   PROVE  n = j
        BY <2>11 DEF Distinct
      <3>1. \A i \in Node \ {k} : (Used(s, i)' <=> Used(s, i)) /\ TT(s, i)' = TT(s, i)
        BY <1>26 DEF SameNode, Used, Using, Ended
      <3>2. \A i \in Node \ {k} : Used(s, i) => TT(s, i) # e
        BY <2>3
      <3>3. Distinct(s)
        BY <2>2
      <3> QED BY <1>27, <3>1, <3>2, <3>3 DEF Distinct
    <2> QED BY <2>4, <2>5 DEF TableOK
  <1>35. ParentOK(e)'
    BY <1>28 DEF ParentOK
  <1>36. program.threads > 1 /\ program' = program
    <2>1. program.threads \in Nat /\ Tn(s) \in Nat
      BY <1>1, <1>5, ThreadsAssumption DEF Types, SlotRec, Tn
    <2>2. program.threads <= 1 => Tn(s) >= 1
      BY <1>1 DEF Sound, AloneOK, Up
    <2> QED BY <1>1, <1>30, <2>1, <2>2
  <1>37. AloneOK(e)' /\ AloneOK(s)'
    <2>1. program.threads \in Nat
      BY <1>1, ThreadsAssumption DEF Types
    <2> QED BY <1>36, <2>1 DEF AloneOK
  <1>38. \A n \in Node : SameNode(s, n) \/ ~ Used(s, n)
    BY <1>3, <1>26
  <1>39. Sound'
    BY <1>1, <1>21, <1>22, <1>26, <1>28, <1>29, <1>30, <1>32, <1>33, <1>34, <1>35, <1>37, <1>38, StartKeeps
  <1> QED BY <1>25, <1>39 DEF ThreadsInv

LEMMA ForkEndStep ==
    ASSUME ThreadsInv, NEW s \in Slot, ForkEnd(s)
    PROVE  ThreadsInv'
  <1> USE Numbers
  <1>1. /\ Types /\ Sound /\ ~ panic /\ St(s) = "RUNNABLE" /\ Pc(s) = "fork_end"
        /\ UNCHANGED <<nextpid, panic, program>> /\ at' = [at EXCEPT ![s] = User]
    BY DEF ForkEnd, At, ThreadsInv, St, Pc
  <1>2. ForkOK(s) /\ MakeOK(s)
    BY <1>1 DEF Sound, KernelOK, Making
  <1>3. PICK e \in Slot : e = Lo(s) /\ St(e) = "EMBRYO" /\ e # s
    BY <1>1, <1>2 DEF MakeOK
  <1>4. PICK m \in Slot : m = Lm(s) /\ m = Chief(s) /\ Mn(m) /\ Up(m) /\ Pa(e) = m
    BY <1>1, <1>2, <1>3, ChiefIs DEF ForkOK, Up
  <1>5. m # e
    BY <1>3, <1>4 DEF Up
  <1>6. /\ proc[e] \in SlotRec /\ proc[m] \in SlotRec
        /\ \A n \in Node : proc[m].table[n] \in NodeRec
    BY <1>1 DEF Types, SlotRec
  <1> DEFINE own == {n \in Node : proc[m].table[n].state # "T_UNUSED" /\ proc[m].table[n].thread = s}
             table == [n \in Node |-> Copied(s, proc[m].table[n])]
  <1>7. Main(s) = m
    BY <1>1, <1>4, ChiefIs DEF Up
  <1>8. ASSUME NEW node \in NodeRec
        PROVE  Copied(s, node) \in NodeRec /\ Copied(s, node).state \in {"T_UNUSED", "T_ALLOCATED"}
               /\ Copied(s, node).thread = NULL
    <2>1. ASSUME NEW u \in Nat
          PROVE  LET c == [FreeNode EXCEPT !.state = "T_ALLOCATED", !.ustack = u]
                 IN  c \in NodeRec /\ c.state = "T_ALLOCATED" /\ c.thread = NULL
      BY DEF FreeNode, NodeRec, NodeStates
    <2>2. FreeNode \in NodeRec /\ FreeNode.state = "T_UNUSED" /\ FreeNode.thread = NULL
      BY DEF FreeNode, NodeRec, NodeStates
    <2>3. PICK u \in Nat, v \in Nat : u = node.ustack /\ v = proc[Main(s)].main_stack
      BY <1>6, <1>7 DEF NodeRec, SlotRec
    <2>4. Copied(s, node) \in {FreeNode, [FreeNode EXCEPT !.state = "T_ALLOCATED", !.ustack = u],
                               [FreeNode EXCEPT !.state = "T_ALLOCATED", !.ustack = v]}
      BY <2>3 DEF Copied
    <2> QED BY <2>1, <2>2, <2>4
  <1>9. /\ table \in [Node -> NodeRec]
        /\ \A n \in Node : table[n].state \in {"T_UNUSED", "T_ALLOCATED"} /\ table[n].thread = NULL
    BY <1>6, <1>8
  <1>10. PICK stack \in Nat : stack = IF m = s THEN proc[m].main_stack
                                      ELSE IF own = {} THEN proc[e].main_stack
                                      ELSE proc[m].table[First(own)].ustack
    <2>1. proc[m].main_stack \in Nat /\ proc[e].main_stack \in Nat
      BY <1>6 DEF SlotRec
    <2>2. own # {} => First(own) \in Node
      <3>1. own \in SUBSET Slot
        OBVIOUS
      <3> HIDE DEF own
      <3> QED BY <3>1, FirstIn
    <2>3. own # {} => proc[m].table[First(own)].ustack \in Nat
      <3> HIDE DEF own
      <3> QED BY <1>6, <2>2 DEF NodeRec
    <2> HIDE DEF own
    <2> QED BY <2>1, <2>3
  <1>11. PICK limit \in Nat : limit = proc[m].memory_limit
    BY <1>6 DEF SlotRec
  <1>12. PICK ta \in [Node -> NodeRec] :
            ta = table /\ \A n \in Node : ta[n].state \in {"T_UNUSED", "T_ALLOCATED"} /\ ta[n].thread = NULL
    BY <1>9
  <1> DEFINE a == [proc[e] EXCEPT !.state = "RUNNABLE", !.memory_limit = limit, !.table = ta]
             b == [a EXCEPT !.main_stack = stack, !.thread_num = 1, !.thread_id = 0]
             r == [b EXCEPT !.is_main = TRUE, !.main_ptr = e]
  <1>13. proc' = [proc EXCEPT ![e] = r]
    <2> DEFINE Ends(c, f) ==
                 LET owned == {n \in Node : proc[c].table[n].state # "T_UNUSED" /\ proc[c].table[n].thread = s}
                 IN  proc' = [proc EXCEPT
             ![f].state = "RUNNABLE", ![f].memory_limit = proc[c].memory_limit,
             ![f].table = [n \in Node |-> Copied(s, proc[c].table[n])],
             ![f].main_stack = IF c = s THEN proc[c].main_stack
                                ELSE IF owned = {} THEN @
                                ELSE proc[c].table[First(owned)].ustack,
             ![f].thread_num = 1, ![f].thread_id = 0,
             ![f].is_main = TRUE, ![f].main_ptr = f]
    <2>3. Ends(at[s].main, at[s].other)
      BY DEF ForkEnd
    <2>4. Ends(m, e)
      <3> HIDE DEF Ends
      <3> QED BY <1>3, <1>4, <2>3 DEF Lm, Lo
    <2>1. proc' = [proc EXCEPT
             ![e].state = "RUNNABLE", ![e].memory_limit = proc[m].memory_limit,
             ![e].table = table,
             ![e].main_stack = IF m = s THEN proc[m].main_stack
                                ELSE IF own = {} THEN @
                                ELSE proc[m].table[First(own)].ustack,
             ![e].thread_num = 1, ![e].thread_id = 0,
             ![e].is_main = TRUE, ![e].main_ptr = e]
      BY <2>4
    <2> HIDE DEF own, table
    <2>2. proc' = [proc EXCEPT
             ![e].state = "RUNNABLE", ![e].memory_limit = limit,
             ![e].table = ta, ![e].main_stack = stack,
             ![e].thread_num = 1, ![e].thread_id = 0,
             ![e].is_main = TRUE, ![e].main_ptr = e]
      BY <1>1, <1>6, <1>10, <1>11, <1>12, <2>1 DEF Types, SlotRec
    <2> QED BY <2>2
  <1>14. a \in SlotRec /\ a.state = "RUNNABLE" /\ a.table = ta /\ a.killed = proc[e].killed /\ a.parent = proc[e].parent
    BY <1>6 DEF SlotRec, States
  <1> HIDE DEF a
  <1>15. /\ b \in SlotRec /\ b.state = "RUNNABLE" /\ b.table = ta /\ b.killed = proc[e].killed
         /\ b.parent = proc[e].parent /\ b.thread_num = 1
    BY <1>14 DEF SlotRec
  <1> HIDE DEF b
  <1>16. /\ r \in SlotRec /\ r.state = "RUNNABLE" /\ r.table = ta /\ r.killed = proc[e].killed
         /\ r.parent = proc[e].parent /\ r.thread_num = 1 /\ r.is_main /\ r.main_ptr = e
    BY <1>15 DEF SlotRec
  <1> HIDE DEF r
  <1>17. proc' \in [Slot -> SlotRec] /\ proc'[e] = r /\ \A q \in Slot \ {e} : Untouched(q)
    BY <1>1, <1>13, <1>16, Writes
  <1>18. at' \in [Slot -> Locals] /\ Pc(s)' = "user" /\ \A q \in Slot \ {s} : SameAt(q)
    BY <1>1, GoesHome
  <1>19. Types'
    BY <1>1, <1>17, <1>18 DEF Types
  <1>20. /\ St(e)' = "RUNNABLE" /\ Ki(e)' = Ki(e) /\ Mn(e)' /\ Mp(e)' = e /\ Pa(e)' = m /\ Tn(e)' = 1
         /\ \A n \in Node : TS(e, n)' \in {"T_UNUSED", "T_ALLOCATED"} /\ TT(e, n)' = NULL
    BY <1>4, <1>12, <1>16, <1>17 DEF St, Ki, Mn, Mp, Pa, Tn, TS, TT
  <1>21. Untouched(s) /\ Untouched(m)
    BY <1>3, <1>5, <1>17
  <1>22. ThreadOK(e)'
    BY <1>20 DEF ThreadOK, Thread
  <1>23. TableOK(e)'
    <2>1. \A n \in Node : ~ Used(e, n)' /\ TT(e, n)' # e
      BY <1>20 DEF Used, Using, Ended
    <2> QED BY <1>20, <2>1 DEF TableOK, NodeOK, Distinct
  <1>24. ParentOK(e)'
    BY <1>4, <1>5, <1>20, <1>21 DEF ParentOK, Untouched, SameTies, Up
  <1>25. AloneOK(e)'
    BY <1>20 DEF AloneOK
  <1>26. AloneOK(s)'
    BY <1>1, <1>21 DEF Sound, AloneOK, Untouched, SameTies, Up, There
  <1>27. Fills(s, e)
    BY <1>1, <1>3 DEF Fills, Making
  <1>28. Sound'
    BY <1>1, <1>17, <1>18, <1>20, <1>21, <1>22, <1>23, <1>24, <1>25, <1>26, <1>27, StartKeeps DEF Untouched, SameTies
  <1> QED BY <1>19, <1>28 DEF ThreadsInv

-----------------------------------------------------------------------------
(* Threads are ended by the main thread or by one of them *)

LEMMA Cleared ==
    ASSUME NEW p \in [Slot -> SlotRec], NEW S
    PROVE  /\ InitThreadData(p, S) \in [Slot -> SlotRec]
           /\ \A q \in Slot : q \notin S => InitThreadData(p, S)[q] = p[q]
           /\ \A q \in Slot : q \in S =>
                LET r == InitThreadData(p, S)[q]
                IN  r.state = "UNUSED" /\ ~ r.is_main /\ r.main_ptr = NULL /\ r.parent = NULL /\ ~ r.killed
  <1> USE Numbers
  <1>1. ASSUME NEW r \in SlotRec, NEW w,
               w = [r EXCEPT !.state = "UNUSED", !.chan = NoChan, !.kstack = FALSE,
                             !.pid = 0, !.parent = NULL, !.killed = FALSE,
                             !.is_main = FALSE, !.main_ptr = NULL, !.thread_id = 0,
                             !.main_stack = 0]
        PROVE  /\ w \in SlotRec /\ w.state = "UNUSED" /\ ~ w.is_main /\ w.main_ptr = NULL
               /\ w.parent = NULL /\ ~ w.killed
    <2> DEFINE a == [r EXCEPT !.state = "UNUSED", !.chan = NoChan, !.kstack = FALSE]
               b == [a EXCEPT !.pid = 0, !.parent = NULL, !.killed = FALSE]
               c == [b EXCEPT !.is_main = FALSE, !.main_ptr = NULL, !.thread_id = 0]
    <2>1. a \in SlotRec /\ a.state = "UNUSED"
      BY Channels DEF SlotRec, States
    <2>2. w = [c EXCEPT !.main_stack = 0]
      BY <1>1
    <2> HIDE DEF a
    <2>3. b \in SlotRec /\ b.state = "UNUSED" /\ b.parent = NULL /\ ~ b.killed
      <3>1. NULL \in Maybe /\ 0 \in Int
        OBVIOUS
      <3>2. b \in SlotRec
        BY <2>1, <3>1, ZenonT(60) DEF SlotRec
      <3> QED BY <2>1, <3>2 DEF SlotRec
    <2> HIDE DEF b
    <2>4. c \in SlotRec /\ c.state = "UNUSED" /\ c.parent = NULL /\ ~ c.killed /\ ~ c.is_main /\ c.main_ptr = NULL
      BY <2>3 DEF SlotRec
    <2> HIDE DEF c
    <2> QED BY <2>2, <2>4 DEF SlotRec
  <1>2. ASSUME NEW q \in Slot
        PROVE  /\ InitThreadData(p, S)[q] \in SlotRec
               /\ q \notin S => InitThreadData(p, S)[q] = p[q]
               /\ q \in S => LET r == InitThreadData(p, S)[q]
                             IN  /\ r.state = "UNUSED" /\ ~ r.is_main /\ r.main_ptr = NULL
                                 /\ r.parent = NULL /\ ~ r.killed
    <2>1. CASE q \in S
      <3>1. PICK r \in SlotRec : r = p[q]
        OBVIOUS
      <3>2. InitThreadData(p, S)[q] =
               [r EXCEPT !.state = "UNUSED", !.chan = NoChan, !.kstack = FALSE,
                         !.pid = 0, !.parent = NULL, !.killed = FALSE,
                         !.is_main = FALSE, !.main_ptr = NULL, !.thread_id = 0,
                         !.main_stack = 0]
        BY <2>1, <3>1 DEF InitThreadData
      <3> QED BY <1>1, <2>1, <3>2
    <2>2. CASE q \notin S
      BY <2>2 DEF InitThreadData
    <2> QED BY <2>1, <2>2
  <1>3. InitThreadData(p, S) = [q \in Slot |-> InitThreadData(p, S)[q]]
    BY DEF InitThreadData
  <1> HIDE DEF InitThreadData
  <1> QED BY <1>2, <1>3

LEMMA Leaves ==
    ASSUME Types, NEW S, NEW s \in Slot, NEW next \in Locals, Destroy(S, s, next)
    PROVE  /\ at' \in [Slot -> Locals] /\ panic' \in BOOLEAN
           /\ Pc(s)' = next.pc /\ Lm(s)' = next.main
           /\ \A t \in Slot : t \in S /\ t # s => Pc(t)' = "user"
           /\ \A t \in Slot : t \notin S /\ t # s => SameAt(t)
  <1>1. at' = [t \in Slot |-> IF t = s THEN next ELSE IF t \in S THEN User ELSE at[t]]
    BY DEF Destroy
  <1>2. at \in [Slot -> Locals] /\ User \in Locals /\ User.pc = "user"
    BY LocalsAre DEF Types
  <1>3. at' \in [Slot -> Locals]
    BY <1>1, <1>2
  <1>4. panic' \in BOOLEAN
    BY DEF Destroy
  <1>5. Pc(s)' = next.pc /\ Lm(s)' = next.main
    BY <1>1 DEF Pc, Lm
  <1>6. \A t \in Slot : t \in S /\ t # s => Pc(t)' = "user"
    BY <1>1, <1>2 DEF Pc
  <1>7. \A t \in Slot : t \notin S /\ t # s => SameAt(t)
    BY <1>1 DEF SameAt, Pc, Lm, Ln, Lo
  <1> QED BY <1>3, <1>4, <1>5, <1>6, <1>7

\* The threads H of m end, by a step of s.
LEMMA EndsKeep ==
    ASSUME Sound, NEW s \in Slot, NEW m \in Slot, NEW H \in SUBSET Slot, s \notin H, m \notin H,
           Up(s), Mn(m), Up(m), Pc(s) \in {"user", "join"}, s # INITPROC, program' = program,
           \A t \in H : There(t) /\ ~ Mn(t) /\ Mp(t) = m,
           \A t \in H : St(t)' = "UNUSED" /\ ~ Mn(t)' /\ ~ Ki(t)' /\ Pc(t)' = "user",
           \A q \in Slot \ H : St(q)' = St(q) /\ Ch(q)' = Ch(q) /\ Ki(q)' = Ki(q) /\ SameTies(q),
           \A q \in Slot : q \notin H /\ q # s => SameAt(q) /\ \A n \in Node : SameNode(q, n),
           Pc(s)' \notin Making, Pc(s)' = "exec_main" => Mp(s) = m,
           m = s \/ ~ Mn(s), m = s \/ Pc(s)' # "exit",
           TableOK(m)', KernelOK(s)', LastingOK(s)',
           \A t \in Slot \ H : Thread(t) /\ Mp(t) = m => ThreadOK(t)'
    PROVE  Sound'
  <1> USE Numbers
  <1>1. \A q \in Slot \ H :
           Up(q)' = Up(q) /\ There(q)' = There(q) /\ Thread(q)' = Thread(q) /\ Chief(q)' = Chief(q)
           /\ Mn(q)' = Mn(q) /\ Mp(q)' = Mp(q) /\ Pa(q)' = Pa(q)
    BY DEF Up, There, Thread, Chief, SameTies
  <1>2. \A q \in H : ~ Up(q)' /\ ~ There(q)' /\ ~ Thread(q)'
    BY DEF Up, There, Thread
  <1>3. \A q \in Slot : Mn(q) => q \notin H
    OBVIOUS
  <1>4. \A q \in Slot \ {m} : q \notin H => Leader(q)' = Leader(q)
    BY <1>1 DEF Leader, SameAt
  <1>5. ASSUME NEW q \in Slot \ {m} PROVE Replaced(q)' = Replaced(q)
    <2>1. ASSUME NEW r \in Slot, Mp(r)' = q, Pc(r)' = "exec_main" PROVE Replaced(q)
      <3>1. r \notin H /\ r # s
        BY <1>1, <2>1
      <3> QED BY <1>1, <2>1, <3>1 DEF Replaced, SameAt
    <2>2. ASSUME NEW r \in Slot, Mp(r) = q, Pc(r) = "exec_main" PROVE Replaced(q)'
      <3>1. r \notin H /\ r # s
        BY <2>2
      <3> QED BY <1>1, <2>2, <3>1 DEF Replaced, SameAt
    <2>3. Replaced(q)' \in BOOLEAN /\ Replaced(q) \in BOOLEAN
      BY DEF Replaced
    <2>4. Replaced(q)' => Replaced(q)
      BY <2>1 DEF Replaced
    <2>5. Replaced(q) => Replaced(q)'
      BY <2>2 DEF Replaced
    <2> QED BY <2>3, <2>4, <2>5
  <1>6. ASSUME NEW q \in Slot PROVE IdleOK(q)'
    BY <1>1 DEF Sound, IdleOK, SameAt
  <1>7. ASSUME NEW t \in Slot PROVE ThreadOK(t)'
    <2> SUFFICES ASSUME Thread(t)', Mp(t) # m
                 PROVE  \E k \in Slot : Mp(t)' = k /\ Leader(k)' /\ Placed(t, k)'
      BY <1>1, <1>2 DEF ThreadOK
    <2>1. t \notin H /\ Thread(t)
      BY <1>1, <1>2
    <2>2. PICK k \in Slot : Mp(t) = k /\ Leader(k) /\ Placed(t, k)
      BY <2>1 DEF Sound, ThreadOK
    <2>3. k \notin H /\ k # m /\ k # s
      BY <2>2 DEF Leader
    <2>4. \A n \in Node : SameNode(k, n)
      BY <2>3
    <2>5. Placed(t, k)'
      BY <1>1, <2>1, <2>2, <2>4 DEF Placed, SameNode, Using, Ended
    <2> QED BY <1>1, <1>4, <2>1, <2>2, <2>3, <2>5
  <1>8. ASSUME NEW q \in Slot PROVE TableOK(q)'
    <2>1. CASE q = m \/ q \in H
      BY <1>2, <2>1 DEF TableOK, Leader
    <2>2. CASE q = s /\ q # m
      BY <1>1, <2>2 DEF TableOK, Leader
    <2>3. CASE q # m /\ q \notin H /\ q # s
      <3>1. \A n \in Node : SameNode(q, n)
        BY <2>3
      <3>2. ASSUME NEW n \in Node, NodeOK(q, n) PROVE NodeOK(q, n)'
        <4>1. ASSUME Used(q, n), ~ Replaced(q) PROVE Holds(q, TT(q, n), TS(q, n))'
          <5>1. PICK t \in Slot : t = TT(q, n) /\ Holds(q, t, TS(q, n))
            BY <3>2, <4>1 DEF NodeOK, Holds
          <5>2. t \notin H
            BY <2>3, <5>1 DEF Holds
          <5>3. TT(q, n)' = t /\ TS(q, n)' = TS(q, n)
            BY <3>1, <5>1 DEF SameNode
          <5> QED BY <1>1, <5>1, <5>2, <5>3 DEF Holds
        <4> QED BY <1>5, <2>3, <3>1, <3>2, <4>1 DEF NodeOK, SameNode, Used, Using, Ended
      <3>3. Distinct(q) => Distinct(q)'
        BY <3>1 DEF Distinct, SameNode, Used, Using, Ended
      <3> QED BY <1>4, <1>5, <2>3, <3>2, <3>3 DEF Sound, TableOK
    <2> QED BY <2>1, <2>2, <2>3
  <1>9. ASSUME NEW q \in Slot PROVE KernelOK(q)'
    <2>1. CASE q \in H
      BY <2>1 DEF KernelOK, Creating, Making
    <2>2. CASE q \notin H /\ q # s
      <3>1. KernelOK(q) /\ SameAt(q) /\ SameTies(q) /\ St(q)' = St(q) /\ Ch(q)' = Ch(q)
        BY <2>2 DEF Sound
      <3>2. \A n \in Node : SameNode(q, n)
        BY <2>2
      <3>3. Pc(q) \in Creating => CreateOK(q)'
        BY <3>1, <3>2 DEF KernelOK, CreateOK, SameAt, SameTies, SameNode
      <3>4. Pc(q) \in Making => MakeOK(q)' /\ Pa(Lo(q))' = Pa(Lo(q))
        <4> SUFFICES ASSUME Pc(q) \in Making PROVE MakeOK(q)' /\ Pa(Lo(q))' = Pa(Lo(q))
          OBVIOUS
        <4>1. PICK x \in Slot : x = Lo(q) /\ St(x) = "EMBRYO"
          BY <3>1 DEF KernelOK, MakeOK
        <4>2. x \notin H
          BY <4>1 DEF There, Up
        <4>3. St(x)' = "EMBRYO" /\ Pa(x)' = Pa(x)
          BY <4>1, <4>2 DEF SameTies
        <4> QED BY <3>1, <4>1, <4>3 DEF MakeOK, SameAt
      <3>5. Pc(q) \in {"fork", "fork_end"} => ForkOK(q)'
        BY <1>1, <2>2, <3>1, <3>4 DEF KernelOK, ForkOK, SameAt, Making
      <3>6. Pc(q) = "join" => JoinOK(q)'
        BY <3>1, <3>2 DEF KernelOK, JoinOK, SameAt, SameTies, SameNode, Used, Using, Ended
      <3>7. Pc(q) = "exec_main" => ReplaceOK(q)'
        <4> SUFFICES ASSUME Pc(q) = "exec_main" PROVE ReplaceOK(q)'
          OBVIOUS
        <4>1. ReplaceOK(q) /\ Thread(q)
          BY <3>1 DEF KernelOK, ReplaceOK, Thread, There
        <4>2. PICK k \in Slot : Mp(q) = k /\ Leader(k)
          BY <4>1 DEF Sound, ThreadOK
        <4>3. k \notin H
          BY <4>2 DEF Leader
        <4>4. Tn(k)' = Tn(k) /\ Mp(q)' = k
          BY <3>1, <4>2, <4>3 DEF SameTies
        <4>5. \A t \in Slot \ {q} : Thread(t)' => Mp(t)' # k
          BY <1>1, <1>2, <4>1, <4>2 DEF ReplaceOK
        <4> QED BY <1>1, <2>2, <3>1, <4>1, <4>2, <4>4, <4>5 DEF ReplaceOK
      <3> QED BY <3>1, <3>2, <3>3, <3>4, <3>5, <3>6, <3>7
              DEF KernelOK, SameAt, SameTies, SameNode, Used, Using, Ended
    <2> QED BY <2>1, <2>2
  <1>10. EmbryosOK'
    <2>1. \A x \in Slot : Pc(x)' \in Making => Lo(x)' = Lo(x) /\ Pc(x) \in Making
      BY DEF SameAt, Making
    <2> QED BY <2>1 DEF Sound, EmbryosOK
  <1>11. ASSUME NEW c \in Slot PROVE ParentOK(c)'
    <2> SUFFICES ASSUME c # INITPROC, Mn(c)', There(c)'
                 PROVE  Pa(c)' \in Slot /\ Pa(c)' # c /\ Mn(Pa(c))' /\ Up(Pa(c))'
      BY DEF ParentOK
    <2>1. c \notin H
      BY <1>2
    <2>2. PICK p \in Slot : Pa(c)' = p /\ p # c /\ Mn(p) /\ Up(p)
      BY <1>1, <2>1 DEF Sound, ParentOK
    <2>3. Mn(p)' /\ Up(p)'
      BY <1>1, <1>3, <2>2
    <2> QED BY <2>2, <2>3
  <1>12. InitOK'
    <2>1. INITPROC \notin H /\ INITPROC # s
      BY <1>3 DEF Sound, InitOK
    <2>2. Up(INITPROC)' /\ Mn(INITPROC)' /\ Pc(INITPROC)' \in {"user", "wait"}
      BY <1>1, <2>1 DEF Sound, InitOK, SameAt
    <2>3. \A t \in Slot : Thread(t)' => Mp(t)' # INITPROC
      BY <1>1, <1>2 DEF Sound, InitOK
    <2> QED BY <2>2, <2>3 DEF InitOK
  <1>13. ASSUME NEW q \in Slot PROVE AloneOK(q)'
    <2>1. q \in H => ~ There(q)' /\ ~ Up(q)'
      BY <1>2
    <2>2. q \notin H => Tn(q)' = Tn(q)
      BY DEF SameTies
    <2> QED BY <1>1, <2>1, <2>2 DEF Sound, AloneOK
  <1>14. ASSUME NEW q \in Slot PROVE LastingOK(q)'
    <2>1. CASE q \in H
      BY <2>1 DEF LastingOK
    <2>2. CASE q \notin H /\ q # s
      BY <2>2, <1>1 DEF Sound, LastingOK, SameAt
    <2> QED BY <2>1, <2>2
  <1> QED BY <1>6, <1>7, <1>8, <1>9, <1>10, <1>11, <1>12, <1>13, <1>14 DEF Sound

LEMMA NoneReplaced ==
    ASSUME Sound, ~ Replacing(program)
    PROVE  \A m \in Slot : ~ Replaced(m)
  BY DEF Replaced, Sound, KernelOK, ReplaceOK

\* The table of a main thread holds its threads, and no other.
LEMMA HeldAreThreads ==
    ASSUME Sound, NEW m \in Slot, Leader(m), ~ Replaced(m)
    PROVE  /\ Held(m) \in SUBSET Slot /\ m \notin Held(m)
           /\ \A t \in Held(m) : There(t) /\ ~ Mn(t) /\ Mp(t) = m
           /\ \A t \in Slot : Thread(t) /\ Mp(t) = m => t \in Held(m)
  <1>1. Held(m) = {TT(m, n) : n \in {k \in Node : Used(m, k)}}
    BY DEF Held, Used, Using, Ended, TT, TS
  <1>2. ASSUME NEW t \in Held(m)
        PROVE  t \in Slot /\ t # m /\ There(t) /\ ~ Mn(t) /\ Mp(t) = m
    <2>1. PICK n \in Node : Used(m, n) /\ t = TT(m, n)
      BY <1>1
    <2>2. Holds(m, t, TS(m, n)) /\ t # m
      BY <2>1 DEF Sound, TableOK, NodeOK
    <2> QED BY <2>1, <2>2 DEF Holds, There, Used, Using, Ended
  <1>3. ASSUME NEW t \in Slot, Thread(t), Mp(t) = m PROVE t \in Held(m)
    <2>1. Placed(t, m)
      BY <1>3 DEF Sound, ThreadOK
    <2> QED BY <1>1, <2>1 DEF Placed, Used
  <1> QED BY <1>2, <1>3

\* The main thread frees the slot of a thread that has ended.
LEMMA JoinedKeeps ==
    ASSUME Types, Sound, NEW s \in Slot, Mn(s), Up(s), s # INITPROC, Pc(s) \in {"user", "join"},
           ~ Replacing(program), NEW n \in Node, TS(s, n) = "T_ZOMBIE",
           NEW tid, Joined(s, s, n, TT(s, n), tid), UNCHANGED <<nextpid, program>>
    PROVE  ThreadsInv'
  <1> USE Numbers
  <1>1. Leader(s) /\ ~ Replaced(s)
    BY NoneReplaced DEF Leader
  <1>2. PICK t \in Slot : t = TT(s, n) /\ t # s /\ There(t) /\ ~ Mn(t) /\ Mp(t) = s
    <2>1. Used(s, n)
      BY DEF Used, Ended
    <2>2. Holds(s, TT(s, n), TS(s, n)) /\ TT(s, n) # s
      BY <1>1, <2>1 DEF Sound, TableOK, NodeOK
    <2> QED BY <2>2 DEF Holds, There
  <1> DEFINE p == InitThreadData(proc, {t})
             node == [proc[s].table[n] EXCEPT !.retval = 0, !.state = "T_ALLOCATED", !.thread = NULL]
             table == [proc[s].table EXCEPT ![n] = node]
             w == [proc[s] EXCEPT !.table = table]
  <1>3. proc \in [Slot -> SlotRec] /\ proc[s] \in SlotRec /\ proc[s].table \in [Node -> NodeRec]
    BY DEF Types, SlotRec
  <1>4. /\ p \in [Slot -> SlotRec] /\ \A q \in Slot \ {t} : p[q] = proc[q]
        /\ p[t].state = "UNUSED" /\ ~ p[t].is_main /\ ~ p[t].killed
    BY <1>3, Cleared
  <1>5. proc' = [p EXCEPT ![s] = w]
    <2>1. proc' = [p EXCEPT ![s].table[n].retval = 0, ![s].table[n].state = "T_ALLOCATED",
                            ![s].table[n].thread = NULL]
      BY <1>2 DEF Joined
    <2>2. p[s] = proc[s]
      BY <1>2, <1>4
    <2> HIDE DEF p
    <2>3. proc' = [p EXCEPT ![s] = [p[s] EXCEPT !.table[n].retval = 0, !.table[n].state = "T_ALLOCATED",
                                                !.table[n].thread = NULL]]
      <3> DEFINE q == [p EXCEPT ![s].table[n].retval = 0]
                 x == [q EXCEPT ![s].table[n].state = "T_ALLOCATED"]
                 a == [p[s] EXCEPT !.table[n].retval = 0]
                 b == [a EXCEPT !.table[n].state = "T_ALLOCATED"]
      <3>1. proc' = [x EXCEPT ![s].table[n].thread = NULL]
        BY <2>1
      <3>2. q = [p EXCEPT ![s] = a] /\ q[s] = a
        BY <1>4
      <3>3. x = [q EXCEPT ![s] = [q[s] EXCEPT !.table[n].state = "T_ALLOCATED"]]
        OBVIOUS
      <3> HIDE DEF q, a
      <3>4. x = [p EXCEPT ![s] = b] /\ x[s] = b
        BY <1>4, <3>2, <3>3
      <3>5. proc' = [x EXCEPT ![s] = [x[s] EXCEPT !.table[n].thread = NULL]]
        BY <3>1
      <3> HIDE DEF x, b
      <3>6. proc' = [p EXCEPT ![s] = [b EXCEPT !.table[n].thread = NULL]]
        BY <1>4, <3>4, <3>5
      <3> QED BY <3>6 DEF a, b
    <2>4. PICK r \in SlotRec : r = p[s]
      BY <1>4
    <2>5. r.table \in [Node -> NodeRec] /\ r.table[n] \in NodeRec
      BY DEF SlotRec
    <2>6. [r.table EXCEPT ![n].retval = 0, ![n].state = "T_ALLOCATED", ![n].thread = NULL]
            = [r.table EXCEPT ![n] = [r.table[n] EXCEPT !.retval = 0, !.state = "T_ALLOCATED", !.thread = NULL]]
      BY <2>5
    <2>7. [r EXCEPT !.table[n].retval = 0, !.table[n].state = "T_ALLOCATED", !.table[n].thread = NULL]
            = [r EXCEPT !.table = [r.table EXCEPT ![n].retval = 0, ![n].state = "T_ALLOCATED", ![n].thread = NULL]]
      BY <2>5 DEF SlotRec
    <2>8. [r EXCEPT !.table[n].retval = 0, !.table[n].state = "T_ALLOCATED", !.table[n].thread = NULL] = w
      BY <2>2, <2>4, <2>6, <2>7
    <2> HIDE DEF w
    <2> QED BY <2>3, <2>4, <2>8
  <1> HIDE DEF p
  <1>6. node \in NodeRec /\ node.state = "T_ALLOCATED" /\ node.thread = NULL
    BY <1>3, ZenonT(60) DEF NodeRec, NodeStates
  <1> HIDE DEF node
  <1>7. table \in [Node -> NodeRec] /\ table[n] = node /\ \A k \in Node \ {n} : table[k] = proc[s].table[k]
    BY <1>3, <1>6
  <1> HIDE DEF table
  <1>8. /\ w \in SlotRec /\ w.table = table /\ w.state = proc[s].state
        /\ w.chan = proc[s].chan /\ w.killed = proc[s].killed /\ w.is_main = proc[s].is_main
        /\ w.main_ptr = proc[s].main_ptr /\ w.parent = proc[s].parent
        /\ w.thread_num = proc[s].thread_num
    BY <1>3, <1>7 DEF SlotRec
  <1> HIDE DEF w
  <1>9. /\ proc' \in [Slot -> SlotRec] /\ proc'[s] = w /\ \A q \in Slot \ {s} : proc'[q] = p[q]
    BY <1>4, <1>5, <1>8
  <1>10. /\ at' \in [Slot -> Locals] /\ panic' \in BOOLEAN /\ Pc(s)' = User.pc
         /\ \A q \in Slot : q \in {t} /\ q # s => Pc(q)' = "user"
         /\ \A q \in Slot : q \notin {t} /\ q # s => SameAt(q)
    <2>1. Destroy({t}, s, User)
      BY <1>2 DEF Joined
    <2>2. PICK u \in Locals : u = User
      BY LocalsAre
    <2>5. PICK S : S = {t}
      OBVIOUS
    <2>3. Destroy(S, s, u)
      BY <2>1, <2>2, <2>5
    <2> HIDE DEF Destroy
    <2>4. /\ at' \in [Slot -> Locals] /\ panic' \in BOOLEAN /\ Pc(s)' = u.pc
          /\ \A q \in Slot : q \in S /\ q # s => Pc(q)' = "user"
          /\ \A q \in Slot : q \notin S /\ q # s => SameAt(q)
      BY <2>3, Leaves
    <2> QED BY <2>2, <2>4, <2>5
  <1>11. nextpid' \in Int /\ program' \in Programs /\ program' = program
    BY DEF Types
  <1>12. Types'
    BY <1>9, <1>10, <1>11 DEF Types
  <1>13. St(t)' = "UNUSED" /\ ~ Mn(t)' /\ ~ Ki(t)' /\ Pc(t)' = "user"
    BY <1>2, <1>4, <1>9, <1>10 DEF St, Mn, Ki
  <1>14. /\ St(s)' = St(s) /\ Ch(s)' = Ch(s) /\ Ki(s)' = Ki(s) /\ SameTies(s)
         /\ \A k \in Node \ {n} : SameNode(s, k)
         /\ TS(s, n)' = "T_ALLOCATED" /\ TT(s, n)' = NULL
    BY <1>6, <1>7, <1>8, <1>9 DEF St, Ch, Ki, SameTies, Mn, Mp, Pa, Tn, SameNode, TS, TT
  <1>15. \A q \in Slot : q \notin {t} /\ q # s => Untouched(q)
    BY <1>4, <1>9, Kept
  <1>16. Pc(s)' = "user"
    BY <1>10, LocalsAre
  <1>17. \A q \in Slot : ~ Replaced(q) /\ ~ Replaced(q)'
    <2>1. \A q \in Slot : Pc(q) # "exec_main"
      BY DEF Sound, KernelOK, ReplaceOK
    <2>2. \A q \in Slot : Pc(q)' # "exec_main"
      BY <1>10, <1>13, <1>16, <2>1 DEF SameAt
    <2> QED BY <2>1, <2>2 DEF Replaced
  <1>18. (\A k \in Node : NodeOK(s, k)) /\ Distinct(s)
    BY <1>1 DEF Sound, TableOK
  <1>19. ASSUME NEW k \in Node, k # n, Used(s, k) PROVE TT(s, k) # t
    <2>1. Used(s, n)
      BY DEF Used, Ended
    <2> QED BY <1>2, <1>18, <1>19, <2>1 DEF Distinct
  <1>20. TableOK(s)'
    <2>1. ASSUME NEW k \in Node PROVE NodeOK(s, k)'
      <3>1. CASE k = n
        <4>1. ~ Used(s, n)'
          BY <1>14 DEF Used, Using, Ended
        <4> QED BY <1>14, <3>1, <4>1 DEF NodeOK
      <3>2. CASE k # n
        <4>1. SameNode(s, k) /\ NodeOK(s, k)
          BY <1>14, <1>18, <3>2
        <4>2. ASSUME Used(s, k) PROVE Holds(s, TT(s, k), TS(s, k))'
          <5>1. PICK x \in Slot : x = TT(s, k) /\ Holds(s, x, TS(s, k)) /\ x # s
            BY <1>17, <4>1, <4>2 DEF NodeOK, Holds
          <5>2. Untouched(x)
            BY <1>15, <1>19, <3>2, <4>2, <5>1
          <5>3. TT(s, k)' = x /\ TS(s, k)' = TS(s, k)
            BY <4>1, <5>1 DEF SameNode
          <5> QED BY <5>1, <5>2, <5>3 DEF Holds, Untouched, SameTies, Up
        <4> QED BY <4>1, <4>2 DEF NodeOK, SameNode, Used, Using, Ended
      <3> QED BY <3>1, <3>2
    <2>2. Distinct(s)'
      <3>1. ~ Used(s, n)'
        BY <1>14 DEF Used, Using, Ended
      <3>2. \A k \in Node \ {n} : (Used(s, k)' <=> Used(s, k)) /\ TT(s, k)' = TT(s, k)
        BY <1>14 DEF SameNode, Used, Using, Ended
      <3> QED BY <1>18, <3>1, <3>2 DEF Distinct
    <2> QED BY <2>1, <2>2 DEF TableOK
  <1>21. KernelOK(s)'
    BY <1>16 DEF KernelOK, Creating, Making
  <1>22. LastingOK(s)'
    BY <1>11 DEF LastingOK
  <1>23. ASSUME NEW x \in Slot, x # t, Thread(x), Mp(x) = s PROVE ThreadOK(x)'
    <2>1. PICK k \in Node : TT(s, k) = x /\ (IF Up(x) THEN Using(s, k) ELSE Ended(s, k))
      BY <1>23 DEF Sound, ThreadOK, Placed
    <2>2. k # n
      BY <1>2, <1>23, <2>1
    <2>3. x # s
      BY <1>23 DEF Thread
    <2>4. Untouched(x) /\ SameNode(s, k)
      BY <1>14, <1>15, <1>23, <2>2, <2>3
    <2>5. Placed(x, s)'
      BY <2>1, <2>4 DEF Placed, SameNode, Using, Ended, Untouched, Up
    <2>6. Leader(s)'
      BY <1>1, <1>14, <1>16 DEF Leader, Up, SameTies
    <2> QED BY <1>23, <2>4, <2>5, <2>6 DEF ThreadOK, Untouched, SameTies
  <1>24. \A q \in Slot \ {t} : St(q)' = St(q) /\ Ch(q)' = Ch(q) /\ Ki(q)' = Ki(q) /\ SameTies(q)
    BY <1>14, <1>15 DEF Untouched
  <1>25. \A q \in Slot : q \notin {t} /\ q # s => SameAt(q) /\ \A k \in Node : SameNode(q, k)
    BY <1>10, <1>15 DEF Untouched
  <1> DEFINE H == {t}
  <1>26. H \in SUBSET Slot /\ s \notin H /\ \A x \in H : x = t
    BY <1>2
  <1>27. \A q \in Slot : q \notin H => q \in Slot \ {t}
    OBVIOUS
  <1> HIDE DEF H
  <1>28. Sound'
    <2>1. \A x \in H : There(x) /\ ~ Mn(x) /\ Mp(x) = s
      BY <1>2, <1>26
    <2>2. \A x \in H : St(x)' = "UNUSED" /\ ~ Mn(x)' /\ ~ Ki(x)' /\ Pc(x)' = "user"
      BY <1>13, <1>26
    <2>3. \A q \in Slot \ H : St(q)' = St(q) /\ Ch(q)' = Ch(q) /\ Ki(q)' = Ki(q) /\ SameTies(q)
      BY <1>24, <1>27
    <2>4. \A q \in Slot : q \notin H /\ q # s => SameAt(q) /\ \A k \in Node : SameNode(q, k)
      BY <1>25, <1>27
    <2>5. \A x \in Slot \ H : Thread(x) /\ Mp(x) = s => ThreadOK(x)'
      BY <1>23, <1>27
    <2>6. Pc(s)' \notin Making /\ Pc(s)' # "exec_main"
      BY <1>16 DEF Making
    <2> QED BY <1>11, <1>20, <1>21, <1>22, <1>26, <2>1, <2>2, <2>3, <2>4, <2>5, <2>6, EndsKeep
  <1> QED BY <1>12, <1>28 DEF ThreadsInv

LEMMA JoinStep ==
    ASSUME AllOrderly, ThreadsInv, NEW s \in Slot, NEW tid \in 0 .. MaxThreads, Join(s, tid)
    PROVE  ThreadsInv'
  <1> USE Numbers
  <1>1. Types /\ Sound /\ ~ panic
    BY DEF Join, Calls, At, ThreadsInv
  <1>2. St(s) = "RUNNABLE" /\ Pc(s) = "user" /\ s # INITPROC /\ Mn(s) /\ ~ Replacing(program)
    BY <1>1, CallIs DEF Join
  <1>3. Main(s) = s /\ Up(s)
    BY <1>2 DEF Main, Mn, Up
  <1> DEFINE found == {n \in Node : /\ proc[s].table[n].state \in {"T_USING", "T_ZOMBIE"}
                                    /\ proc[proc[s].table[n].thread].thread_id = tid}
  <1>4. First(found) \in found
    BY <1>3, FirstIn DEF Join
  <1>5. PICK n \in Node : n = First(found)
    BY <1>4
  <1> HIDE DEF found
  <1>6. /\ \/ /\ proc[s].table[n].state = "T_USING"
              /\ proc' = [proc EXCEPT ![s].state = "SLEEPING", ![s].chan = <<"join", s, n>>]
              /\ at' = [at EXCEPT ![s] =
                          [User EXCEPT !.pc = "join", !.main = s, !.node = n,
                             !.other = proc[s].table[n].thread, !.arg = tid]]
              /\ UNCHANGED <<panic, got>>
           \/ /\ proc[s].table[n].state = "T_ZOMBIE"
              /\ Joined(s, s, n, proc[s].table[n].thread, tid)
        /\ UNCHANGED <<nextpid, program>>
    BY <1>3, <1>5 DEF Join, found
  <1>7. tid \in Nat
    BY ThreadsAssumption
  <1>8. CASE /\ proc[s].table[n].state = "T_USING"
             /\ proc' = [proc EXCEPT ![s].state = "SLEEPING", ![s].chan = <<"join", s, n>>]
             /\ at' = [at EXCEPT ![s] =
                         [User EXCEPT !.pc = "join", !.main = s, !.node = n,
                            !.other = proc[s].table[n].thread, !.arg = tid]]
             /\ UNCHANGED <<panic, got>>
    <2>1. TS(s, n) = "T_USING"
      BY <1>8 DEF TS
    <2> QED BY <1>1, <1>2, <1>6, <1>7, <1>8, <2>1, JoinSleepsStep
  <1>9. CASE proc[s].table[n].state = "T_ZOMBIE" /\ Joined(s, s, n, proc[s].table[n].thread, tid)
    <2>1. TS(s, n) = "T_ZOMBIE" /\ Joined(s, s, n, TT(s, n), tid)
      BY <1>9 DEF TS, TT
    <2> QED BY <1>1, <1>2, <1>3, <1>6, <2>1, JoinedKeeps
  <1> QED BY <1>6, <1>8, <1>9

LEMMA JoinEndStep ==
    ASSUME ThreadsInv, NEW s \in Slot, JoinEnd(s)
    PROVE  ThreadsInv'
  <1> USE Numbers
  <1>1. Types /\ Sound /\ ~ panic /\ St(s) = "RUNNABLE" /\ Pc(s) = "join" /\ Up(s)
    BY DEF JoinEnd, At, ThreadsInv, St, Pc, Up
  <1>2. JoinOK(s) /\ s # INITPROC /\ ~ Replacing(program)
    BY <1>1 DEF Sound, KernelOK, InitOK, LastingOK
  <1>3. PICK n \in Node : n = Ln(s) /\ Lm(s) = s /\ Lo(s) = TT(s, n) /\ Mn(s)
    BY <1>2 DEF JoinOK
  <1>4. UNCHANGED <<nextpid, program>>
    BY DEF JoinEnd
  <1>5. CASE TS(s, n) = "T_ZOMBIE"
    <2>1. Joined(s, at[s].main, at[s].node, at[s].other, at[s].arg)
      BY <1>3, <1>5 DEF JoinEnd, TS, Lm, Ln
    <2> HIDE DEF Joined
    <2>2. PICK tid : tid = at[s].arg
      OBVIOUS
    <2>3. Joined(s, s, n, TT(s, n), tid)
      BY <1>3, <2>1, <2>2 DEF Lm, Ln, Lo
    <2> QED BY <1>1, <1>2, <1>3, <1>4, <1>5, <2>3, JoinedKeeps
  <1>6. CASE TS(s, n) # "T_ZOMBIE"
    <2>1. panic' = TRUE /\ UNCHANGED <<proc, at>>
      BY <1>3, <1>6 DEF JoinEnd, TS, Lm, Ln
    <2> QED BY <1>1, <1>4, <2>1 DEF ThreadsInv, Types
  <1> QED BY <1>5, <1>6

\* What is left when the slots of H are cleared.
LEMMA EndsSlots ==
    ASSUME Types, NEW H \in SUBSET Slot, proc' = InitThreadData(proc, H)
    PROVE  /\ proc' \in [Slot -> SlotRec]
           /\ \A t \in H : St(t)' = "UNUSED" /\ ~ Mn(t)' /\ ~ Ki(t)' /\ Mp(t)' = NULL
           /\ \A q \in Slot : q \notin H => proc'[q] = proc[q] /\ Untouched(q)
  <1>1. proc \in [Slot -> SlotRec]
    BY DEF Types
  <1>2. /\ proc' \in [Slot -> SlotRec]
        /\ \A q \in Slot : q \notin H => proc'[q] = proc[q]
        /\ \A q \in Slot : q \in H =>
             proc'[q].state = "UNUSED" /\ ~ proc'[q].is_main /\ ~ proc'[q].killed /\ proc'[q].main_ptr = NULL
    BY <1>1, Cleared
  <1>3. \A t \in H : St(t)' = "UNUSED" /\ ~ Mn(t)' /\ ~ Ki(t)' /\ Mp(t)' = NULL
    BY <1>2 DEF St, Mn, Ki, Mp
  <1>4. \A q \in Slot : q \notin H => Untouched(q)
    BY <1>2, Kept
  <1> QED BY <1>2, <1>3, <1>4

\* The main thread ends its threads, and with them the process.
LEMMA ExitMainKeeps ==
    ASSUME Types, Sound, NEW s \in Slot, Mn(s), Up(s), s # INITPROC, Pc(s) = "user", ~ Replacing(program),
           proc' = InitThreadData(proc, Held(s)), Destroy(Held(s), s, [User EXCEPT !.pc = "exit", !.main = s]),
           UNCHANGED <<nextpid, program>>
    PROVE  ThreadsInv'
  <1> USE Numbers
  <1>1. Leader(s) /\ ~ Replaced(s)
    BY NoneReplaced DEF Leader
  <1>2. PICK H \in SUBSET Slot :
           /\ H = Held(s) /\ s \notin H
           /\ \A t \in H : There(t) /\ ~ Mn(t) /\ Mp(t) = s
           /\ \A t \in Slot : Thread(t) /\ Mp(t) = s => t \in H
    BY <1>1, HeldAreThreads
  <1>3. /\ proc' \in [Slot -> SlotRec]
        /\ \A t \in H : St(t)' = "UNUSED" /\ ~ Mn(t)' /\ ~ Ki(t)' /\ Mp(t)' = NULL
        /\ \A q \in Slot : q \notin H => Untouched(q)
    BY <1>2, EndsSlots
  <1> DEFINE local == [User EXCEPT !.pc = "exit", !.main = s]
  <1>4. local \in Locals
    BY DEF User, Locals, Pcs
  <1>5. local.pc = "exit"
    BY DEF User
  <1>6. Destroy(H, s, local)
    BY <1>2
  <1> HIDE DEF local
  <1>7. PICK l \in Locals : l = local /\ l.pc = "exit"
    BY <1>4, <1>5
  <1>8. /\ at' \in [Slot -> Locals] /\ panic' \in BOOLEAN /\ Pc(s)' = l.pc
        /\ \A q \in Slot : q \in H /\ q # s => Pc(q)' = "user"
        /\ \A q \in Slot : q \notin H /\ q # s => SameAt(q)
    BY <1>6, <1>7, Leaves
  <1>9. Types'
    BY <1>3, <1>8 DEF Types
  <1>10. Pc(s)' = "exit"
    BY <1>7, <1>8
  <1>11. TableOK(s)'
    BY <1>10 DEF TableOK, Leader
  <1>12. KernelOK(s)'
    BY <1>2, <1>3, <1>10 DEF KernelOK, Creating, Making, Untouched, SameTies
  <1>13. LastingOK(s)'
    BY DEF LastingOK
  <1>14. \A q \in Slot \ H : St(q)' = St(q) /\ Ch(q)' = Ch(q) /\ Ki(q)' = Ki(q) /\ SameTies(q)
    BY <1>3 DEF Untouched
  <1>15. \A q \in Slot : q \notin H /\ q # s => SameAt(q) /\ \A n \in Node : SameNode(q, n)
    BY <1>3, <1>8 DEF Untouched
  <1>16. \A t \in H : St(t)' = "UNUSED" /\ ~ Mn(t)' /\ ~ Ki(t)' /\ Pc(t)' = "user"
    BY <1>2, <1>3, <1>8
  <1>17. \A t \in Slot \ H : Thread(t) /\ Mp(t) = s => ThreadOK(t)'
    BY <1>2
  <1>18. Pc(s)' \notin Making
    BY <1>10 DEF Making
  <1>19. Sound'
    BY <1>2, <1>10, <1>11, <1>12, <1>13, <1>14, <1>15, <1>16, <1>17, <1>18, EndsKeep
  <1> QED BY <1>9, <1>19 DEF ThreadsInv

LEMMA ExitStep ==
    ASSUME AllOrderly, ThreadsInv, NEW s \in Slot, Exit(s)
    PROVE  ThreadsInv'
  <1>1. Types /\ Sound /\ ~ panic
    BY DEF Exit, Calls, At, ThreadsInv
  <1>2. St(s) = "RUNNABLE" /\ Pc(s) = "user" /\ ~ Replacing(program)
    <2>1. CASE Calls(s, "exit")
      BY <1>1, <2>1, CallIs
    <2>2. CASE At(s, "user") /\ proc[s].killed
      <3>1. Ki(s)
        BY <2>2 DEF Ki
      <3> QED BY <1>1, <2>2, <3>1 DEF At, St, Pc, Sound, LastingOK
    <2> QED BY <2>1, <2>2 DEF Exit
  <1>3. Up(s) /\ UNCHANGED <<nextpid, program>>
    BY <1>2 DEF Up, Exit
  <1>4. PICK m \in Slot : m = Main(s) /\ m = Chief(s)
    BY <1>1, <1>3, ChiefIs
  <1>5. m # INITPROC
    BY <1>4 DEF Exit
  <1>6. CASE s # m /\ AskMain(s, m)
    <2>1. ~ Mn(s)
      BY <1>4, <1>6 DEF Chief
    <2> QED BY <1>1, <1>2, <1>3, <1>6, <2>1, AskMainStep
  <1>7. CASE s = m /\ proc' = InitThreadData(proc, Held(m)) /\ Destroy(Held(m), s, [User EXCEPT !.pc = "exit", !.main = m])
    <2>1. Mn(s)
      BY <1>1, <1>3, <1>4, <1>7, ChiefIs
    <2> QED BY <1>1, <1>2, <1>3, <1>5, <1>7, <2>1, ExitMainKeeps
  <1> QED BY <1>4, <1>6, <1>7 DEF Exit

\* A thread calls exec(), and all other threads end but the main thread.
LEMMA ExecThreadKeeps ==
    ASSUME Types, Sound, NEW s \in Slot, St(s) = "RUNNABLE", ~ Mn(s), Pc(s) = "user", Replacing(program),
           NEW m \in Slot, Mp(s) = m, Tn(m) = program.threads,
           proc' = InitThreadData(proc, Held(m) \ {s}),
           Destroy(Held(m) \ {s}, s, [User EXCEPT !.pc = "exec_main"]),
           UNCHANGED <<nextpid, program>>
    PROVE  ThreadsInv'
  <1> USE Numbers
  <1>1. Thread(s) /\ Up(s) /\ s # INITPROC
    BY DEF Thread, There, Up, Sound, InitOK
  <1>2. Leader(m) /\ m # s /\ ThreadOK(s)
    BY <1>1 DEF Sound, ThreadOK, Leader
  <1>3. ~ Replaced(m)
    BY <1>1 DEF Replaced, Sound, KernelOK, ReplaceOK
  <1>4. /\ Held(m) \in SUBSET Slot /\ m \notin Held(m)
        /\ \A t \in Held(m) : There(t) /\ ~ Mn(t) /\ Mp(t) = m
        /\ \A t \in Slot : Thread(t) /\ Mp(t) = m => t \in Held(m)
    BY <1>2, <1>3, HeldAreThreads
  <1>5. PICK H \in SUBSET Slot :
           /\ H = Held(m) \ {s} /\ s \notin H /\ m \notin H
           /\ \A t \in H : There(t) /\ ~ Mn(t) /\ Mp(t) = m
           /\ \A t \in Slot : Thread(t) /\ Mp(t) = m /\ t # s => t \in H
    BY <1>4
  <1>6. /\ proc' \in [Slot -> SlotRec]
        /\ \A t \in H : St(t)' = "UNUSED" /\ ~ Mn(t)' /\ ~ Ki(t)' /\ Mp(t)' = NULL
        /\ \A q \in Slot : q \notin H => Untouched(q)
    BY <1>5, EndsSlots
  <1>7. PICK l \in Locals : l = [User EXCEPT !.pc = "exec_main"]
    BY LocalsAre DEF Pcs
  <1>8. l.pc = "exec_main"
    BY <1>7 DEF User
  <1>9. Destroy(H, s, l)
    BY <1>5, <1>7
  <1>10. /\ at' \in [Slot -> Locals] /\ panic' \in BOOLEAN /\ Pc(s)' = l.pc
         /\ \A q \in Slot : q \in H /\ q # s => Pc(q)' = "user"
         /\ \A q \in Slot : q \notin H /\ q # s => SameAt(q)
    BY <1>9, Leaves
  <1>11. Types'
    BY <1>6, <1>10 DEF Types
  <1>12. Pc(s)' = "exec_main"
    BY <1>8, <1>10
  <1>13. Untouched(s) /\ Untouched(m) /\ SameAt(m)
    BY <1>2, <1>5, <1>6, <1>10
  <1>14. Replaced(m)'
    BY <1>12, <1>13 DEF Replaced, Untouched, SameTies
  <1>15. Leader(m)'
    BY <1>2, <1>13 DEF Leader, Untouched, SameTies, SameAt, Up
  <1>16. TableOK(m)'
    <2>1. \A n \in Node : NodeOK(m, n)
      BY <1>2 DEF Sound, TableOK
    <2>2. ASSUME NEW n \in Node PROVE NodeOK(m, n)'
      BY <1>13, <1>14, <2>1 DEF NodeOK, Untouched, SameNode, Used, Using, Ended
    <2> QED BY <1>14, <2>2 DEF TableOK
  <1>17. ThreadOK(s)'
    <2>1. Placed(s, m)
      BY <1>1, <1>2 DEF ThreadOK
    <2>2. PICK n \in Node : TT(m, n) = s /\ Using(m, n)
      BY <1>1, <2>1 DEF Placed
    <2>3. TT(m, n)' = s /\ Using(m, n)' /\ Up(s)' /\ Mp(s)' = m
      BY <1>1, <1>13, <2>2 DEF Untouched, SameNode, SameTies, Using, Up
    <2> QED BY <1>15, <2>3 DEF ThreadOK, Placed
  <1>18. KernelOK(s)'
    <2>1. ~ Mn(s)' /\ Up(s)' /\ Mp(s)' = m /\ Tn(m)' = program'.threads /\ Replacing(program)'
      BY <1>1, <1>13 DEF Untouched, SameTies, Up, Replacing, Makes
    <2>2. ASSUME NEW t \in Slot \ {s}, Thread(t)' PROVE Mp(t)' # m
      <3>1. t \notin H
        BY <1>6, <2>2 DEF Thread, There, Up
      <3>2. Thread(t) /\ Mp(t)' = Mp(t)
        BY <1>6, <2>2, <3>1 DEF Thread, There, Up, Untouched, SameTies
      <3> QED BY <1>5, <3>1, <3>2
    <2>3. ReplaceOK(s)'
      BY <2>1, <2>2 DEF ReplaceOK
    <2> QED BY <1>12, <2>3 DEF KernelOK, Creating, Making
  <1>19. LastingOK(s)'
    <2>1. ~ Ki(s) /\ St(s)' # "ZOMBIE" /\ Ki(s)' = Ki(s)
      BY <1>13 DEF Sound, LastingOK, Untouched
    <2> QED BY <1>12, <2>1 DEF LastingOK
  <1>20. \A q \in Slot \ H : St(q)' = St(q) /\ Ch(q)' = Ch(q) /\ Ki(q)' = Ki(q) /\ SameTies(q)
    BY <1>6 DEF Untouched
  <1>21. \A q \in Slot : q \notin H /\ q # s => SameAt(q) /\ \A n \in Node : SameNode(q, n)
    BY <1>6, <1>10 DEF Untouched
  <1>22. \A t \in H : St(t)' = "UNUSED" /\ ~ Mn(t)' /\ ~ Ki(t)' /\ Pc(t)' = "user"
    BY <1>5, <1>6, <1>10
  <1>23. \A t \in Slot \ H : Thread(t) /\ Mp(t) = m => ThreadOK(t)'
    BY <1>5, <1>17
  <1>24. Pc(s)' \notin Making /\ Pc(s)' # "exit"
    BY <1>12 DEF Making
  <1>25. Mn(m) /\ Up(m)
    BY <1>2 DEF Leader
  <1>26. Sound'
    BY <1>1, <1>5, <1>16, <1>18, <1>19, <1>20, <1>21, <1>22, <1>23, <1>24, <1>25, EndsKeep
  <1> QED BY <1>11, <1>26 DEF ThreadsInv

LEMMA ExecStep ==
    ASSUME AllOrderly, ThreadsInv, NEW s \in Slot, Exec(s)
    PROVE  ThreadsInv'
  <1>1. Types /\ Sound /\ ~ panic
    BY DEF Exec, Calls, CallsLate, At, ThreadsInv
  <1>2. /\ St(s) = "RUNNABLE" /\ Pc(s) = "user" /\ s # INITPROC
        /\ Mn(s) => program.threads <= 1
        /\ ~ Mn(s) => CallsLate(s, "exec late") /\ Replacing(program)
    BY <1>1, CallIs DEF Exec, CallsLate
  <1>3. Up(s)
    BY <1>2 DEF Up
  <1>4. PICK m \in Slot : m = Main(s) /\ m = Chief(s)
    BY <1>1, <1>3, ChiefIs
  <1>5. CASE Mn(s)
    BY <1>1, <1>2, <1>5, ExecAloneStep
  <1>6. CASE ~ Mn(s)
    <2>1. Mp(s) = m
      BY <1>4, <1>6 DEF Chief
    <2>2. Tn(m) = program.threads
      BY <1>2, <1>4, <1>6 DEF CallsLate, Tn
    <2>3. ~ proc[s].is_main
      BY <1>6 DEF Mn
    <2>4. /\ proc' = InitThreadData(proc, Held(m) \ {s}) /\ UNCHANGED <<nextpid, program>>
          /\ Destroy(Held(m) \ {s}, s, [User EXCEPT !.pc = "exec_main"])
      BY <1>4, <2>3 DEF Exec
    <2> QED BY <1>1, <1>2, <1>6, <2>1, <2>2, <2>4, ExecThreadKeeps
  <1> QED BY <1>5, <1>6

-----------------------------------------------------------------------------
(* thread_exit *)

\* A thread finds the one node that has it.
LEMMA OwnNode ==
    ASSUME Sound, NEW s \in Slot, Thread(s), Up(s), Pc(s) # "exec_main", NEW m \in Slot, Mp(s) = m
    PROVE  /\ Leader(m) /\ m # s /\ ~ Replaced(m)
           /\ \E n \in Node : Using(m, n) /\ \A k \in Node : TT(m, k) = s <=> k = n
  <1> USE Numbers
  <1>1. Leader(m) /\ m # s /\ Placed(s, m)
    BY DEF Sound, ThreadOK, Leader, Thread
  <1>2. ~ Replaced(m)
    BY DEF Replaced, Sound, KernelOK, ReplaceOK
  <1>3. PICK n \in Node : TT(m, n) = s /\ Using(m, n)
    BY <1>1 DEF Placed
  <1>4. (\A k \in Node : NodeOK(m, k)) /\ Distinct(m)
    BY <1>1, <1>2 DEF Sound, TableOK
  <1>5. ASSUME NEW k \in Node, TT(m, k) = s PROVE k = n
    <2>1. Used(m, k) /\ Used(m, n)
      BY <1>3, <1>4, <1>5 DEF NodeOK, Used
    <2> QED BY <1>3, <1>4, <1>5, <2>1 DEF Distinct
  <1> QED BY <1>1, <1>2, <1>3, <1>5

\* The slot and the node of a thread that ends are set together.
LEMMA ThreadExitKeeps ==
    ASSUME Sound, NEW s \in Slot, Thread(s), Up(s), Pc(s) = "user", NEW m \in Slot, Mp(s) = m, m # s,
           Leader(m), ~ Replaced(m), NEW n \in Node, Using(m, n),
           \A k \in Node : TT(m, k) = s <=> k = n,
           program' = program, \A q \in Slot : SameAt(q),
           \A q \in Slot : SameTies(q) /\ Ki(q)' = Ki(q) /\ (q = s \/ Stays(q)),
           \A q \in Slot : Ch(q) = <<"join", m, n>> => St(q)' # "SLEEPING",
           St(s)' = "ZOMBIE",
           \A q \in Slot, k \in Node : SameNode(q, k) \/ (q = m /\ k = n),
           TS(m, n)' = "T_ZOMBIE", TT(m, n)' = TT(m, n)
    PROVE  Sound'
  <1> USE Numbers
  <1>1. \A q \in Slot : Mn(q)' = Mn(q) /\ Mp(q)' = Mp(q) /\ Pa(q)' = Pa(q) /\ Tn(q)' = Tn(q)
    BY DEF SameTies
  <1>2. ~ Mn(s) /\ There(s) /\ ~ Up(s)' /\ There(s)'
    BY DEF Thread, Up, There
  <1>3. \A q \in Slot \ {s} : Up(q)' = Up(q) /\ There(q)' = There(q)
    BY DEF Stays, Woken, Up, There
  <1>4. \A q \in Slot : There(q)' = There(q) /\ Thread(q)' = Thread(q) /\ Chief(q)' = Chief(q)
    BY <1>1, <1>2, <1>3 DEF Thread, Chief, There, Up
  <1>5. \A q \in Slot : Leader(q)' = Leader(q)
    BY <1>1, <1>2, <1>3 DEF Leader, SameAt
  <1>6. \A q \in Slot : Replaced(q)' = Replaced(q)
    BY <1>1 DEF Replaced, SameAt
  <1>7. \A q \in Slot, k \in Node :
           /\ Used(q, k)' = Used(q, k) /\ TT(q, k)' = TT(q, k)
           /\ (q # m \/ k # n) => TS(q, k)' = TS(q, k)
    BY DEF SameNode, Used, Using, Ended
  <1>8. ASSUME NEW q \in Slot PROVE IdleOK(q)'
    BY <1>3 DEF Sound, IdleOK, SameAt
  <1>9. ASSUME NEW t \in Slot PROVE ThreadOK(t)'
    <2> SUFFICES ASSUME Thread(t)' PROVE \E k \in Slot : Mp(t)' = k /\ Leader(k)' /\ Placed(t, k)'
      BY DEF ThreadOK
    <2>1. PICK k \in Slot : Mp(t)' = k /\ Mp(t) = k /\ Leader(k)' /\ Placed(t, k)
      BY <1>1, <1>4, <1>5 DEF Sound, ThreadOK
    <2>2. CASE t = s
      <3>1. Placed(s, m)'
        BY <1>2, <1>7, <2>2 DEF Placed, Ended
      <3> QED BY <2>1, <2>2, <3>1
    <2>3. CASE t # s
      <3>1. PICK j \in Node : TT(k, j) = t /\ (IF Up(t) THEN Using(k, j) ELSE Ended(k, j))
        BY <2>1 DEF Placed
      <3>2. k # m \/ j # n
        BY <2>3, <3>1
      <3>3. TT(k, j)' = t /\ TS(k, j)' = TS(k, j)
        BY <1>7, <3>1, <3>2
      <3>4. Placed(t, k)'
        BY <1>3, <2>3, <3>1, <3>3 DEF Placed, Using, Ended
      <3> QED BY <2>1, <3>4
    <2> QED BY <2>2, <2>3
  <1>10. ASSUME NEW q \in Slot PROVE TableOK(q)'
    <2> SUFFICES ASSUME Leader(q)' PROVE (\A k \in Node : NodeOK(q, k)') /\ (Replaced(q)' \/ Distinct(q)')
      BY DEF TableOK
    <2>1. (\A k \in Node : NodeOK(q, k)) /\ (Replaced(q) \/ Distinct(q))
      BY <1>5 DEF Sound, TableOK
    <2>2. ASSUME NEW k \in Node, Used(q, k), ~ Replaced(q) PROVE Holds(q, TT(q, k), TS(q, k))'
      <3>1. PICK t \in Slot : t = TT(q, k) /\ Holds(q, t, TS(q, k))
        BY <2>1, <2>2 DEF NodeOK, Holds
      <3>2. TT(q, k)' = t /\ ~ Mn(t)' /\ Mp(t)' = q
        BY <1>1, <1>7, <3>1 DEF Holds
      <3>3. CASE q = m /\ k = n
        <4>1. t = s
          BY <3>1, <3>3
        <4> QED BY <3>2, <3>3, <4>1 DEF Holds
      <3>4. CASE q # m \/ k # n
        <4>1. t # s
          BY <3>1, <3>4 DEF Holds
        <4>2. TS(q, k)' = TS(q, k)
          BY <1>7, <3>4
        <4>3. Up(t)' = Up(t) /\ (St(t) = "ZOMBIE" => St(t)' = "ZOMBIE")
          BY <1>3, <4>1 DEF Stays, Woken
        <4> QED BY <3>1, <3>2, <4>2, <4>3 DEF Holds
      <3> QED BY <3>3, <3>4
    <2>3. ASSUME NEW k \in Node PROVE NodeOK(q, k)'
      BY <1>6, <1>7, <2>1, <2>2 DEF NodeOK
    <2>4. Replaced(q)' \/ Distinct(q)'
      BY <1>6, <1>7, <2>1 DEF Distinct
    <2> QED BY <2>3, <2>4
  <1>11. ASSUME NEW q \in Slot PROVE KernelOK(q)'
    <2>1. CASE q = s
      BY <2>1 DEF KernelOK, Creating, Making, SameAt
    <2>2. CASE q # s
      <3>1. KernelOK(q) /\ SameAt(q) /\ Stays(q)
        BY <2>2 DEF Sound
      <3>2. Pc(q) \in Creating => CreateOK(q)'
        <4> SUFFICES ASSUME Pc(q) \in Creating PROVE CreateOK(q)'
          OBVIOUS
        <4>1. PICK j \in Node : j = Ln(q) /\ TS(q, j) = "T_ALLOCATED"
          BY <3>1 DEF KernelOK, CreateOK
        <4>2. q # m \/ j # n
          BY <4>1 DEF Using
        <4>3. TS(q, j)' = "T_ALLOCATED"
          BY <1>7, <4>1, <4>2
        <4> QED BY <1>1, <3>1, <4>1, <4>3 DEF KernelOK, CreateOK, SameAt
      <3>3. Pc(q) \in Making => MakeOK(q)'
        <4> SUFFICES ASSUME Pc(q) \in Making PROVE MakeOK(q)'
          OBVIOUS
        <4>1. PICK x \in Slot : x = Lo(q) /\ St(x) = "EMBRYO" /\ x # s
          BY <3>1 DEF KernelOK, MakeOK, Up
        <4>2. St(x)' = "EMBRYO"
          BY <4>1 DEF Stays, Woken
        <4> QED BY <3>1, <4>1, <4>2 DEF MakeOK, SameAt
      <3>4. Pc(q) \in {"fork", "fork_end"} => ForkOK(q)'
        <4> SUFFICES ASSUME Pc(q) \in {"fork", "fork_end"} PROVE ForkOK(q)'
          OBVIOUS
        <4>1. Lo(q) \in Slot /\ ForkOK(q)
          BY <3>1 DEF KernelOK, MakeOK, Making
        <4> QED BY <1>1, <1>4, <3>1, <4>1 DEF ForkOK, SameAt
      <3>5. Pc(q) = "join" => JoinOK(q)'
        <4> SUFFICES ASSUME Pc(q) = "join" PROVE JoinOK(q)'
          OBVIOUS
        <4>1. PICK j \in Node : j = Ln(q) /\ JoinOK(q)
          BY <3>1 DEF KernelOK, JoinOK
        <4>2. Ln(q)' = j /\ Lm(q)' = q /\ Lo(q)' = TT(q, j)' /\ Mn(q)' /\ Used(q, j)'
          BY <1>1, <1>7, <3>1, <4>1 DEF JoinOK, SameAt
        <4>3. ASSUME St(q)' = "SLEEPING" PROVE Using(q, j)' /\ Ch(q)' = <<"join", q, j>>
          <5>1. St(q) = "SLEEPING" /\ Ch(q)' = Ch(q)
            BY <3>1, <4>3 DEF Stays, Woken
          <5>2. Using(q, j) /\ Ch(q) = <<"join", q, j>>
            BY <4>1, <5>1 DEF JoinOK
          <5>3. q # m \/ j # n
            BY <4>3, <5>2
          <5> QED BY <1>7, <5>1, <5>2, <5>3 DEF Using
        <4> QED BY <4>2, <4>3 DEF JoinOK
      <3>6. Pc(q) = "exec_main" => ReplaceOK(q)'
        <4> SUFFICES ASSUME Pc(q) = "exec_main" PROVE ReplaceOK(q)'
          OBVIOUS
        <4>1. ReplaceOK(q) /\ Thread(q)
          BY <3>1 DEF KernelOK, ReplaceOK, Thread, There
        <4>2. PICK k \in Slot : Mp(q) = k
          BY <4>1 DEF Sound, ThreadOK
        <4> QED BY <1>1, <1>3, <1>4, <2>2, <4>1, <4>2 DEF ReplaceOK
      <3> QED BY <1>1, <1>7, <3>1, <3>2, <3>3, <3>4, <3>5, <3>6 DEF KernelOK, SameAt
    <2> QED BY <2>1, <2>2
  <1>12. EmbryosOK'
    BY DEF Sound, EmbryosOK, SameAt
  <1>13. ASSUME NEW c \in Slot PROVE ParentOK(c)'
    <2> SUFFICES ASSUME c # INITPROC, Mn(c)', There(c)'
                 PROVE  Pa(c)' \in Slot /\ Pa(c)' # c /\ Mn(Pa(c))' /\ Up(Pa(c))'
      BY DEF ParentOK
    <2>1. PICK p \in Slot : Pa(c)' = p /\ p # c /\ Mn(p) /\ Up(p)
      BY <1>1, <1>4 DEF Sound, ParentOK
    <2> QED BY <1>1, <1>2, <1>3, <2>1
  <1>14. InitOK'
    BY <1>1, <1>2, <1>3, <1>4 DEF Sound, InitOK, SameAt
  <1>15. ASSUME NEW q \in Slot PROVE AloneOK(q)'
    BY <1>1, <1>2, <1>3, <1>4 DEF Sound, AloneOK
  <1>16. ASSUME NEW q \in Slot PROVE LastingOK(q)'
    <2>1. q # s => (St(q)' = "ZOMBIE" => St(q) = "ZOMBIE")
      BY DEF Stays, Woken
    <2> QED BY <1>1, <1>2, <2>1 DEF Sound, LastingOK, SameAt
  <1> QED BY <1>8, <1>9, <1>10, <1>11, <1>12, <1>13, <1>14, <1>15, <1>16 DEF Sound

LEMMA ThreadExitStep ==
    ASSUME AllOrderly, ThreadsInv, NEW s \in Slot, ThreadExit(s)
    PROVE  ThreadsInv'
  <1> USE Numbers
  <1>1. Types /\ Sound /\ ~ panic
    BY DEF ThreadExit, Calls, At, ThreadsInv
  <1>2. St(s) = "RUNNABLE" /\ Pc(s) = "user" /\ Up(s) /\ Thread(s)
    <2>1. St(s) = "RUNNABLE" /\ Pc(s) = "user" /\ ~ Mn(s)
      BY <1>1, CallIs DEF ThreadExit, Mn
    <2> QED BY <2>1 DEF Up, Thread, There
  <1>3. PICK m \in Slot : Mp(s) = m
    BY <1>1, <1>2 DEF Sound, ThreadOK
  <1>4. /\ Leader(m) /\ m # s /\ ~ Replaced(m)
        /\ \E n \in Node : Using(m, n) /\ \A k \in Node : TT(m, k) = s <=> k = n
    BY <1>1, <1>2, <1>3, OwnNode
  <1>5. PICK n \in Node : Using(m, n) /\ \A k \in Node : TT(m, k) = s <=> k = n
    BY <1>4
  <1> DEFINE mine == {k \in Node : proc[m].table[k].thread = s}
  <1>6. mine = {n}
    BY <1>5 DEF TT
  <1>7. First(mine) = n
    <2>1. mine \in SUBSET Slot /\ mine # {}
      BY <1>6
    <2> HIDE DEF mine
    <2> QED BY <1>6, <2>1, FirstIn
  <1> DEFINE p == Wakeup1(proc, <<"join", m, n>>)
             node == [p[m].table[n] EXCEPT !.retval = proc[s].thread_id, !.state = "T_ZOMBIE"]
             table == [p[m].table EXCEPT ![n] = node]
             w == [p[m] EXCEPT !.table = table]
             r == [p[s] EXCEPT !.state = "ZOMBIE"]
  <1>8. /\ UNCHANGED <<nextpid, program>> /\ at' = at /\ panic' = (mine = {})
        /\ proc' = IF mine = {} THEN proc
                   ELSE [Wakeup1(proc, <<"join", m, First(mine)>>) EXCEPT
                           ![m].table[First(mine)].retval = proc[s].thread_id,
                           ![m].table[First(mine)].state = "T_ZOMBIE",
                           ![s].state = "ZOMBIE"]
    <2> DEFINE Ends(c) ==
                 LET own == {k \in Node : proc[c].table[k].thread = s}
                 IN  /\ panic' = (own = {})
                     /\ proc' = IF own = {} THEN proc
                                ELSE [Wakeup1(proc, <<"join", c, First(own)>>) EXCEPT
                                        ![c].table[First(own)].retval = proc[s].thread_id,
                                        ![c].table[First(own)].state = "T_ZOMBIE",
                                        ![s].state = "ZOMBIE"]
    <2>1. Ends(proc[s].main_ptr) /\ UNCHANGED <<nextpid, program>> /\ at' = at
      BY DEF ThreadExit
    <2>2. Ends(m)
      <3> HIDE DEF Ends
      <3> QED BY <1>3, <2>1 DEF Mp
    <2> QED BY <2>1, <2>2
  <1>9. /\ panic' = FALSE
        /\ proc' = [p EXCEPT ![m].table[n].retval = proc[s].thread_id,
                             ![m].table[n].state = "T_ZOMBIE", ![s].state = "ZOMBIE"]
    <2>1. mine # {}
      BY <1>6
    <2> HIDE DEF mine
    <2> QED BY <1>7, <1>8, <2>1
  <1> HIDE DEF mine
  <1>10. proc \in [Slot -> SlotRec]
    BY <1>1 DEF Types
  <1>11. /\ p \in [Slot -> SlotRec] /\ \A q \in Slot : AsleepOrSame(p[q], proc[q])
         /\ \A q \in Slot : Ch(q) = <<"join", m, n>> => p[q].state # "SLEEPING"
    <2>1. PICK S : S = {q \in Slot : proc[q].chan = <<"join", m, n>>}
      OBVIOUS
    <2>2. p = Rouse(proc, S)
      BY <2>1 DEF Wakeup1
    <2> HIDE DEF p
    <2> QED BY <1>10, <2>1, <2>2, Rouses DEF Ch
  <1> HIDE DEF p
  <1>12. p[m] \in SlotRec /\ p[m].table \in [Node -> NodeRec] /\ p[m].table[n] \in NodeRec /\ p[s] \in SlotRec
    BY <1>11 DEF SlotRec
  <1>13. PICK id \in Nat : id = proc[s].thread_id
    BY <1>10 DEF SlotRec
  <1>14. /\ node \in NodeRec /\ node.state = "T_ZOMBIE" /\ node.thread = p[m].table[n].thread
    BY <1>12, <1>13 DEF NodeRec, NodeStates
  <1>15. proc' = [p EXCEPT ![m] = w, ![s] = r]
    <2> DEFINE a == [p EXCEPT ![m].table[n].retval = id]
               b == [a EXCEPT ![m].table[n].state = "T_ZOMBIE"]
               x == [p[m] EXCEPT !.table[n].retval = id]
               y == [x EXCEPT !.table[n].state = "T_ZOMBIE"]
    <2>1. proc' = [b EXCEPT ![s].state = "ZOMBIE"]
      BY <1>9, <1>13
    <2>2. a = [p EXCEPT ![m] = x] /\ a[m] = x
      BY <1>11
    <2>3. b = [a EXCEPT ![m] = [a[m] EXCEPT !.table[n].state = "T_ZOMBIE"]]
      OBVIOUS
    <2> HIDE DEF a, x
    <2>4. b = [p EXCEPT ![m] = y]
      BY <1>11, <2>2, <2>3
    <2> HIDE DEF b
    <2>5. y = w
      <3>1. PICK z \in SlotRec : z = p[m]
        BY <1>12
      <3>2. z.table \in [Node -> NodeRec] /\ z.table[n] \in NodeRec
        BY DEF SlotRec
      <3>3. [[z EXCEPT !.table[n].retval = id] EXCEPT !.table[n].state = "T_ZOMBIE"]
              = [z EXCEPT !.table = [[z.table EXCEPT ![n].retval = id] EXCEPT ![n].state = "T_ZOMBIE"]]
        BY <3>2 DEF SlotRec
      <3>4. [[z.table EXCEPT ![n].retval = id] EXCEPT ![n].state = "T_ZOMBIE"]
              = [z.table EXCEPT ![n] = [z.table[n] EXCEPT !.retval = id, !.state = "T_ZOMBIE"]]
        BY <3>2
      <3>5. y = [z EXCEPT !.table = [z.table EXCEPT ![n] = [z.table[n] EXCEPT !.retval = id, !.state = "T_ZOMBIE"]]]
        BY <3>1, <3>3, <3>4 DEF x
      <3> QED BY <1>13, <3>1, <3>5
    <2> HIDE DEF y, w
    <2>6. b[s] = p[s]
      BY <1>4, <1>11, <2>4
    <2>7. proc' = [b EXCEPT ![s] = [b[s] EXCEPT !.state = "ZOMBIE"]]
      BY <2>1
    <2> QED BY <2>4, <2>5, <2>6, <2>7
  <1> HIDE DEF node
  <1>16. table \in [Node -> NodeRec] /\ table[n] = node /\ \A k \in Node \ {n} : table[k] = p[m].table[k]
    BY <1>12, <1>14
  <1> HIDE DEF table
  <1>17. /\ w \in SlotRec /\ w.table = table /\ w.state = p[m].state
         /\ w.chan = p[m].chan /\ w.killed = p[m].killed /\ w.is_main = p[m].is_main
         /\ w.main_ptr = p[m].main_ptr /\ w.parent = p[m].parent
         /\ w.thread_num = p[m].thread_num
    BY <1>12, <1>16 DEF SlotRec
  <1>18. /\ r \in SlotRec /\ r.state = "ZOMBIE" /\ r.killed = p[s].killed /\ r.is_main = p[s].is_main
         /\ r.main_ptr = p[s].main_ptr /\ r.parent = p[s].parent
         /\ r.thread_num = p[s].thread_num /\ r.table = p[s].table
    BY <1>12 DEF SlotRec, States
  <1> HIDE DEF w, r
  <1>19. /\ proc' \in [Slot -> SlotRec] /\ proc'[m] = w /\ proc'[s] = r
         /\ \A q \in Slot \ {m, s} : proc'[q] = p[q]
    BY <1>4, <1>11, <1>15, <1>17, <1>18
  <1>20. at' \in [Slot -> Locals] /\ \A q \in Slot : SameAt(q)
    BY <1>1, <1>8, StandsStill
  <1>21. nextpid' \in Int /\ program' \in Programs /\ program' = program
    BY <1>1, <1>8 DEF Types
  <1>22. panic' \in BOOLEAN
    BY <1>9
  <1>23. Types'
    BY <1>19, <1>20, <1>21, <1>22 DEF Types
  <1>24. \A q \in Slot \ {m, s} :
            SameTies(q) /\ Ki(q)' = Ki(q) /\ Stays(q) /\ \A k \in Node : SameNode(q, k)
    BY <1>11, <1>19, WokenOnly
  <1>25. /\ SameTies(m) /\ Ki(m)' = Ki(m) /\ Stays(m)
         /\ \A k \in Node \ {n} : SameNode(m, k)
    <2>1. SameTies(m) /\ Ki(m)' = Ki(m) /\ Stays(m)
      BY <1>11, <1>17, <1>19 DEF AsleepOrSame, SameTies, Stays, Woken, Mn, Mp, Pa, Tn, Ki, St, Ch
    <2>2. \A k \in Node \ {n} : SameNode(m, k)
      BY <1>11, <1>16, <1>17, <1>19 DEF AsleepOrSame, SameNode, TS, TT
    <2> QED BY <2>1, <2>2
  <1>26. TS(m, n)' = "T_ZOMBIE" /\ TT(m, n)' = TT(m, n)
    BY <1>11, <1>14, <1>16, <1>17, <1>19 DEF AsleepOrSame, TS, TT
  <1>27. SameTies(s) /\ Ki(s)' = Ki(s) /\ St(s)' = "ZOMBIE" /\ \A k \in Node : SameNode(s, k)
    BY <1>11, <1>18, <1>19 DEF AsleepOrSame, SameTies, Mn, Mp, Pa, Tn, Ki, St, SameNode, TS, TT
  <1>28. \A q \in Slot : Ch(q) = <<"join", m, n>> => St(q)' # "SLEEPING"
    BY <1>11, <1>17, <1>18, <1>19 DEF St
  <1>29. \A q \in Slot : SameTies(q) /\ Ki(q)' = Ki(q) /\ (q = s \/ Stays(q))
    BY <1>24, <1>25, <1>27
  <1>30. \A q \in Slot, k \in Node : SameNode(q, k) \/ (q = m /\ k = n)
    BY <1>24, <1>25, <1>27
  <1>31. Sound'
    BY <1>1, <1>2, <1>3, <1>4, <1>5, <1>20, <1>21, <1>26, <1>27, <1>28, <1>29, <1>30, ThreadExitKeeps
  <1> QED BY <1>23, <1>31 DEF ThreadsInv

-----------------------------------------------------------------------------
(* wait and the end of exit *)

\* The slot z of a process that has ended is free.
LEMMA ReapKeeps ==
    ASSUME Sound, NEW s \in Slot, Up(s), Pc(s) \in {"user", "wait"}, NEW z \in Slot,
           St(z) = "ZOMBIE", Mn(z), St(z)' = "UNUSED", ~ Ki(z)', Mn(z)' = Mn(z), Mp(z)' = Mp(z),
           \A q \in Slot \ {z} : Untouched(q),
           Pc(s)' = "user", \A q \in Slot \ {s} : SameAt(q), program' = program
    PROVE  Sound'
  <1> USE Numbers
  <1>1. z # s /\ ~ Up(z) /\ ~ Up(z)' /\ ~ There(z)' /\ ~ Thread(z)' /\ z # INITPROC
    BY DEF Up, There, Thread, Sound, InitOK
  <1>2. \A q \in Slot \ {z} :
           /\ Up(q)' = Up(q) /\ There(q)' = There(q) /\ Thread(q)' = Thread(q) /\ Chief(q)' = Chief(q)
           /\ St(q)' = St(q) /\ Ch(q)' = Ch(q) /\ Mn(q)' = Mn(q) /\ Mp(q)' = Mp(q) /\ Pa(q)' = Pa(q)
           /\ Tn(q)' = Tn(q) /\ Ki(q)' = Ki(q)
           /\ \A n \in Node : SameNode(q, n)
    BY DEF Untouched, SameTies, Up, There, Thread, Chief
  <1>3. \A q \in Slot : Pc(q)' = Pc(q) \/ (q = s /\ Pc(q)' = "user")
    BY DEF SameAt
  <1>4. \A q \in Slot : Pc(q)' = "exec_main" <=> Pc(q) = "exec_main"
    BY DEF SameAt
  <1>5. \A q \in Slot \ {z} : Leader(q)' = Leader(q)
    BY <1>2, <1>3 DEF Leader
  <1>6. \A q \in Slot : Replaced(q)' = Replaced(q)
    BY <1>2, <1>4 DEF Replaced
  <1>7. ASSUME NEW q \in Slot PROVE IdleOK(q)'
    <2>1. Pc(z) = "user"
      BY <1>1 DEF Sound, IdleOK
    <2> QED BY <1>2, <1>3, <2>1 DEF Sound, IdleOK
  <1>8. ASSUME NEW t \in Slot PROVE ThreadOK(t)'
    <2> SUFFICES ASSUME Thread(t)' PROVE \E k \in Slot : Mp(t)' = k /\ Leader(k)' /\ Placed(t, k)'
      BY DEF ThreadOK
    <2>1. PICK k \in Slot : Mp(t)' = k /\ Leader(k) /\ Placed(t, k) /\ t # z
      BY <1>1, <1>2 DEF Sound, ThreadOK
    <2>2. k # z
      BY <1>1, <2>1 DEF Leader
    <2>3. Placed(t, k)'
      BY <1>2, <2>1, <2>2 DEF Placed, SameNode, Using, Ended
    <2> QED BY <1>5, <2>1, <2>2, <2>3
  <1>9. ASSUME NEW q \in Slot PROVE TableOK(q)'
    <2> SUFFICES ASSUME Leader(q)', q # z PROVE (\A n \in Node : NodeOK(q, n)') /\ (Replaced(q)' \/ Distinct(q)')
      BY <1>1 DEF TableOK, Leader
    <2>1. (\A n \in Node : NodeOK(q, n)) /\ (Replaced(q) \/ Distinct(q))
      BY <1>5 DEF Sound, TableOK
    <2>2. \A n \in Node : TS(q, n)' = TS(q, n) /\ TT(q, n)' = TT(q, n)
      BY <1>2 DEF SameNode
    <2>3. \A n \in Node : Used(q, n)' = Used(q, n)
      BY <2>2 DEF Used, Using, Ended
    <2>4. ASSUME NEW n \in Node, Used(q, n), ~ Replaced(q) PROVE Holds(q, TT(q, n), TS(q, n))'
      <3>1. PICK t \in Slot : t = TT(q, n) /\ Holds(q, t, TS(q, n)) /\ t # z
        BY <2>1, <2>4 DEF NodeOK, Holds
      <3> QED BY <1>2, <2>2, <3>1 DEF Holds
    <2>5. ASSUME NEW n \in Node PROVE NodeOK(q, n)'
      BY <1>6, <2>1, <2>2, <2>3, <2>4 DEF NodeOK
    <2>6. Replaced(q)' \/ Distinct(q)'
      BY <1>6, <2>1, <2>2, <2>3 DEF Distinct
    <2> QED BY <2>5, <2>6
  <1>10. ASSUME NEW q \in Slot PROVE KernelOK(q)'
    <2>1. CASE q = s \/ Pc(q) = "user"
      BY <1>3, <2>1 DEF KernelOK, Creating, Making
    <2>2. CASE q # s /\ Pc(q) # "user"
      <3>1. KernelOK(q) /\ SameAt(q) /\ q # z /\ Up(q)
        BY <1>1, <2>2 DEF Sound, IdleOK
      <3>2. \A n \in Node : TS(q, n)' = TS(q, n) /\ TT(q, n)' = TT(q, n)
        BY <1>2, <3>1 DEF SameNode
      <3>3. Pc(q) \in Creating => CreateOK(q)'
        BY <1>2, <3>1, <3>2 DEF KernelOK, CreateOK, SameAt
      <3>4. Pc(q) \in Making => MakeOK(q)' /\ Pa(Lo(q))' = Pa(Lo(q))
        <4> SUFFICES ASSUME Pc(q) \in Making PROVE MakeOK(q)' /\ Pa(Lo(q))' = Pa(Lo(q))
          OBVIOUS
        <4>1. PICK x \in Slot : x = Lo(q) /\ St(x) = "EMBRYO" /\ x # z
          BY <3>1 DEF KernelOK, MakeOK
        <4> QED BY <1>2, <3>1, <4>1 DEF MakeOK, SameAt
      <3>5. Pc(q) \in {"fork", "fork_end"} => ForkOK(q)'
        BY <1>2, <3>1, <3>4 DEF KernelOK, ForkOK, SameAt, Making
      <3>6. Pc(q) = "join" => JoinOK(q)'
        BY <1>2, <3>1, <3>2 DEF KernelOK, JoinOK, SameAt, Used, Using, Ended
      <3>7. Pc(q) = "exec_main" => ReplaceOK(q)'
        <4> SUFFICES ASSUME Pc(q) = "exec_main" PROVE ReplaceOK(q)'
          OBVIOUS
        <4>1. ReplaceOK(q) /\ Thread(q)
          BY <3>1 DEF KernelOK, ReplaceOK, Thread, There
        <4>2. PICK k \in Slot : Mp(q) = k /\ k # z
          BY <1>1, <4>1 DEF Sound, ThreadOK, Leader
        <4> QED BY <1>1, <1>2, <3>1, <4>1, <4>2 DEF ReplaceOK
      <3>8. Pc(q)' = Pc(q) /\ Mn(q)' = Mn(q) /\ \A n \in Node : Used(q, n)' = Used(q, n)
        BY <1>2, <3>1, <3>2 DEF SameAt, Used, Using, Ended
      <3> QED BY <3>1, <3>3, <3>4, <3>5, <3>6, <3>7, <3>8 DEF KernelOK
    <2> QED BY <2>1, <2>2
  <1>11. EmbryosOK'
    <2>1. \A x \in Slot : Pc(x)' \in Making => Lo(x)' = Lo(x) /\ Pc(x) \in Making
      BY DEF SameAt, Making
    <2> QED BY <2>1 DEF Sound, EmbryosOK
  <1>12. ASSUME NEW c \in Slot PROVE ParentOK(c)'
    <2> SUFFICES ASSUME c # INITPROC, Mn(c)', There(c)'
                 PROVE  Pa(c)' \in Slot /\ Pa(c)' # c /\ Mn(Pa(c))' /\ Up(Pa(c))'
      BY DEF ParentOK
    <2>1. c # z
      BY <1>1
    <2>2. Mn(c) /\ There(c) /\ Pa(c)' = Pa(c)
      BY <1>2, <2>1
    <2>3. PICK p \in Slot : Pa(c) = p /\ p # c /\ Mn(p) /\ Up(p)
      BY <2>2 DEF Sound, ParentOK
    <2>4. p # z
      BY <1>1, <2>3
    <2>5. Mn(p)' /\ Up(p)' /\ Pa(c)' = p
      BY <1>2, <2>2, <2>3, <2>4
    <2> QED BY <2>3, <2>5
  <1>13. InitOK'
    <2>1. Up(INITPROC)' /\ Mn(INITPROC)' /\ Pc(INITPROC)' \in {"user", "wait"}
      BY <1>1, <1>2, <1>3 DEF Sound, InitOK
    <2>2. \A t \in Slot : Thread(t)' => Mp(t)' # INITPROC
      BY <1>1, <1>2 DEF Sound, InitOK
    <2> QED BY <2>1, <2>2 DEF InitOK
  <1>14. ASSUME NEW q \in Slot PROVE AloneOK(q)'
    BY <1>1, <1>2 DEF Sound, AloneOK
  <1>15. ASSUME NEW q \in Slot PROVE LastingOK(q)'
    BY <1>2, <1>3 DEF Sound, LastingOK
  <1> QED BY <1>7, <1>8, <1>9, <1>10, <1>11, <1>12, <1>13, <1>14, <1>15 DEF Sound

LEMMA WaitReapsStep ==
    ASSUME ThreadsInv, NEW s \in Slot, NEW m \in Slot, WaitReaps(s, m)
    PROVE  ThreadsInv'
  <1> USE Numbers
  <1>1. Types /\ Sound /\ St(s) = "RUNNABLE" /\ Pc(s) \in {"user", "wait"} /\ ~ panic
    BY DEF WaitReaps, InWait, Calls, At, ThreadsInv, St, Pc
  <1>2. First(Zombies(m)) \in Zombies(m)
    BY FirstIn DEF WaitReaps, Zombies, Children
  <1>3. PICK z \in Slot : z = First(Zombies(m)) /\ St(z) = "ZOMBIE" /\ Mn(z)
    BY <1>2 DEF Zombies, Children, St, Mn
  <1> DEFINE a == [proc[z] EXCEPT !.kstack = FALSE, !.pid = 0, !.parent = NULL]
             r == [a EXCEPT !.killed = FALSE, !.state = "UNUSED"]
  <1>4. /\ UNCHANGED <<nextpid, panic, program>> /\ at' = [at EXCEPT ![s] = User]
        /\ proc' = [proc EXCEPT ![z] = r]
    BY <1>3 DEF WaitReaps
  <1>5. proc[z] \in SlotRec
    BY <1>1 DEF Types
  <1>6. /\ a \in SlotRec /\ a.is_main = proc[z].is_main /\ a.main_ptr = proc[z].main_ptr
    <2>1. NULL \in Maybe /\ 0 \in Int
      OBVIOUS
    <2>2. a \in SlotRec
      BY <1>5, <2>1 DEF SlotRec
    <2> QED BY <1>5, <2>2 DEF SlotRec
  <1> HIDE DEF a
  <1>7. /\ r \in SlotRec /\ r.state = "UNUSED" /\ ~ r.killed
        /\ r.is_main = proc[z].is_main /\ r.main_ptr = proc[z].main_ptr
    BY <1>6 DEF SlotRec, States
  <1> HIDE DEF r
  <1>8. proc' \in [Slot -> SlotRec] /\ proc'[z] = r /\ \A q \in Slot \ {z} : Untouched(q)
    BY <1>1, <1>4, <1>7, Writes
  <1>9. at' \in [Slot -> Locals] /\ Pc(s)' = "user" /\ \A q \in Slot \ {s} : SameAt(q)
    BY <1>1, <1>4, GoesHome
  <1>10. Types'
    BY <1>1, <1>4, <1>8, <1>9 DEF Types
  <1>11. St(z)' = "UNUSED" /\ ~ Ki(z)' /\ Mn(z)' = Mn(z) /\ Mp(z)' = Mp(z)
    BY <1>7, <1>8 DEF St, Ki, Mn, Mp
  <1>12. Sound'
    BY <1>1, <1>3, <1>4, <1>8, <1>9, <1>11, ReapKeeps DEF Up
  <1> QED BY <1>10, <1>12 DEF ThreadsInv

\* The main thread s has closed its files: its children go to init.
LEMMA ZombieKeeps ==
    ASSUME Sound, NEW s \in Slot, Up(s), Pc(s) = "exit", St(s)' = "ZOMBIE", SameTies(s), Ki(s)' = Ki(s),
           \A q \in Slot \ {s} :
             /\ Mn(q)' = Mn(q) /\ Mp(q)' = Mp(q) /\ Tn(q)' = Tn(q) /\ Ki(q)' = Ki(q) /\ Stays(q)
             /\ Pa(q)' = Pa(q) \/ (Pa(q) = s /\ Pa(q)' = INITPROC)
             /\ Mn(q) /\ Pa(q) = s => Pa(q)' = INITPROC,
           \A q \in Slot, n \in Node : SameNode(q, n),
           Pc(s)' = "user", \A q \in Slot \ {s} : SameAt(q), program' = program
    PROVE  Sound'
  <1> USE Numbers
  <1>1. Mn(s) /\ s # INITPROC /\ There(s) /\ There(s)' /\ ~ Up(s)' /\ ~ Leader(s) /\ ~ Replacing(program)
    BY DEF Sound, KernelOK, There, Up, Leader, LastingOK
  <1>2. \A q \in Slot : Mn(q)' = Mn(q) /\ Mp(q)' = Mp(q) /\ Tn(q)' = Tn(q)
    BY DEF SameTies
  <1>3. \A q \in Slot \ {s} : Up(q)' = Up(q) /\ There(q)' = There(q) /\ (St(q)' = "ZOMBIE" <=> St(q) = "ZOMBIE")
    BY DEF Stays, Woken, Up, There
  <1>4. \A q \in Slot : There(q)' = There(q) /\ Thread(q)' = Thread(q) /\ Chief(q)' = Chief(q)
    BY <1>1, <1>2, <1>3 DEF Thread, Chief, There, Up
  <1>5. \A q \in Slot : Leader(q)' = Leader(q)
    BY <1>1, <1>2, <1>3 DEF Leader, SameAt
  <1>6. \A q \in Slot : ~ Replaced(q) /\ ~ Replaced(q)'
    <2>1. \A q \in Slot : Pc(q) # "exec_main"
      BY <1>1 DEF Sound, KernelOK, ReplaceOK
    <2>2. \A q \in Slot : Pc(q)' # "exec_main"
      BY <2>1 DEF SameAt
    <2> QED BY <2>1, <2>2 DEF Replaced
  <1>7. \A q \in Slot, n \in Node : Used(q, n)' = Used(q, n) /\ TT(q, n)' = TT(q, n) /\ TS(q, n)' = TS(q, n)
    BY DEF SameNode, Used, Using, Ended
  <1>8. \A t \in Slot : Thread(t) => Mp(t) # s /\ t # s
    BY <1>1 DEF Sound, ThreadOK, Thread
  <1>9. ASSUME NEW q \in Slot PROVE IdleOK(q)'
    BY <1>3 DEF Sound, IdleOK, SameAt
  <1>10. ASSUME NEW t \in Slot PROVE ThreadOK(t)'
    <2> SUFFICES ASSUME Thread(t)' PROVE \E k \in Slot : Mp(t)' = k /\ Leader(k)' /\ Placed(t, k)'
      BY DEF ThreadOK
    <2>1. PICK k \in Slot : Mp(t)' = k /\ Leader(k)' /\ Placed(t, k) /\ t # s
      BY <1>2, <1>4, <1>5, <1>8 DEF Sound, ThreadOK
    <2>2. Placed(t, k)'
      BY <1>3, <1>7, <2>1 DEF Placed, Using, Ended
    <2> QED BY <2>1, <2>2
  <1>11. ASSUME NEW q \in Slot PROVE TableOK(q)'
    <2> SUFFICES ASSUME Leader(q)' PROVE (\A n \in Node : NodeOK(q, n)') /\ Distinct(q)'
      BY DEF TableOK
    <2>1. (\A n \in Node : NodeOK(q, n)) /\ Distinct(q)
      BY <1>5, <1>6 DEF Sound, TableOK
    <2>2. ASSUME NEW n \in Node, Used(q, n) PROVE Holds(q, TT(q, n), TS(q, n))'
      <3>1. PICK t \in Slot : t = TT(q, n) /\ Holds(q, t, TS(q, n)) /\ t # s
        BY <1>1, <1>6, <2>1, <2>2 DEF NodeOK, Holds
      <3> QED BY <1>2, <1>3, <1>7, <3>1 DEF Holds
    <2>3. ASSUME NEW n \in Node PROVE NodeOK(q, n)'
      BY <1>7, <2>1, <2>2 DEF NodeOK
    <2>4. Distinct(q)'
      BY <1>7, <2>1 DEF Distinct
    <2> QED BY <2>3, <2>4
  <1>12. ASSUME NEW q \in Slot PROVE KernelOK(q)'
    <2>1. CASE q = s \/ Pc(q) = "user"
      BY <2>1 DEF KernelOK, Creating, Making, SameAt
    <2>2. CASE q # s /\ Pc(q) # "user"
      <3>1. KernelOK(q) /\ SameAt(q) /\ Up(q) /\ Stays(q)
        BY <2>2 DEF Sound, IdleOK
      <3>2. Pc(q) \in Creating => CreateOK(q)'
        BY <1>2, <1>7, <3>1 DEF KernelOK, CreateOK, SameAt
      <3>3. Pc(q) \in Making => MakeOK(q)'
        <4> SUFFICES ASSUME Pc(q) \in Making PROVE MakeOK(q)'
          OBVIOUS
        <4>1. PICK x \in Slot : x = Lo(q) /\ St(x) = "EMBRYO" /\ x # s
          BY <3>1 DEF KernelOK, MakeOK, Up
        <4>2. St(x)' = "EMBRYO"
          BY <4>1 DEF Stays, Woken
        <4> QED BY <3>1, <4>1, <4>2 DEF MakeOK, SameAt
      <3>4. Pc(q) \in {"fork", "fork_end"} => ForkOK(q)'
        <4> SUFFICES ASSUME Pc(q) \in {"fork", "fork_end"} PROVE ForkOK(q)'
          OBVIOUS
        <4>1. PICK x \in Slot : x = Lo(q) /\ St(x) = "EMBRYO" /\ ForkOK(q) /\ x # s
          BY <3>1 DEF KernelOK, MakeOK, Making, Up
        <4>2. Chief(q) # s
          <5>1. Mn(q) => Chief(q) # s
            BY <2>2 DEF Chief
          <5>2. ~ Mn(q) => Chief(q) # s
            BY <1>8, <3>1 DEF Chief, Thread, There
          <5> QED BY <5>1, <5>2
        <4>3. Pc(q) = "fork_end" => Pa(x)' = Pa(x)
          BY <4>1, <4>2 DEF ForkOK
        <4> QED BY <1>4, <3>1, <4>1, <4>3 DEF ForkOK, SameAt
      <3>5. Pc(q) = "join" => JoinOK(q)'
        BY <1>2, <1>7, <3>1 DEF KernelOK, JoinOK, SameAt, Stays, Woken, Used, Using, Ended
      <3>6. Pc(q) # "exec_main"
        BY <1>1, <3>1 DEF KernelOK, ReplaceOK
      <3> QED BY <1>2, <1>7, <3>1, <3>2, <3>3, <3>4, <3>5, <3>6 DEF KernelOK, SameAt
    <2> QED BY <2>1, <2>2
  <1>13. EmbryosOK'
    <2>1. \A x \in Slot : Pc(x)' \in Making => Lo(x)' = Lo(x) /\ Pc(x) \in Making
      BY DEF SameAt, Making
    <2> QED BY <2>1 DEF Sound, EmbryosOK
  <1>14. Up(INITPROC) /\ Mn(INITPROC) /\ Up(INITPROC)' /\ Mn(INITPROC)'
    BY <1>1, <1>2, <1>3 DEF Sound, InitOK
  <1>15. ASSUME NEW c \in Slot PROVE ParentOK(c)'
    <2> SUFFICES ASSUME c # INITPROC, Mn(c)', There(c)'
                 PROVE  Pa(c)' \in Slot /\ Pa(c)' # c /\ Mn(Pa(c))' /\ Up(Pa(c))'
      BY DEF ParentOK
    <2>1. PICK p \in Slot : Pa(c) = p /\ p # c /\ Mn(p) /\ Up(p) /\ Mn(c)
      BY <1>2, <1>4 DEF Sound, ParentOK
    <2>2. CASE p = s
      <3>1. Pa(c)' = INITPROC
        BY <2>1, <2>2
      <3> QED BY <1>14, <3>1
    <2>3. CASE p # s
      <3>1. Pa(c)' = p
        BY <2>1, <2>3 DEF SameTies
      <3> QED BY <1>2, <1>3, <2>1, <2>3, <3>1
    <2> QED BY <2>2, <2>3
  <1>16. InitOK'
    <2>1. Pc(INITPROC)' \in {"user", "wait"}
      BY <1>1 DEF Sound, InitOK, SameAt
    <2>2. \A t \in Slot : Thread(t)' => Mp(t)' # INITPROC
      BY <1>2, <1>4 DEF Sound, InitOK
    <2> QED BY <1>14, <2>1, <2>2 DEF InitOK
  <1>17. ASSUME NEW q \in Slot PROVE AloneOK(q)'
    BY <1>1, <1>2, <1>3, <1>4 DEF Sound, AloneOK
  <1>18. ASSUME NEW q \in Slot PROVE LastingOK(q)'
    BY <1>1 DEF LastingOK, Replacing, Makes
  <1> QED BY <1>9, <1>10, <1>11, <1>12, <1>13, <1>15, <1>16, <1>17, <1>18 DEF Sound

\* What the end of exit() leaves of the slots, when q is what the wakeups have left.
LEMMA Abandons ==
    ASSUME Types, NEW q \in [Slot -> SlotRec], \A c \in Slot : AsleepOrSame(q[c], proc[c]),
           NEW s \in Slot, NEW A,
           proc' = [c \in Slot |->
                      IF c = s THEN [q[c] EXCEPT !.state = "ZOMBIE"]
                      ELSE IF c \in A THEN [q[c] EXCEPT !.parent = INITPROC]
                      ELSE q[c]]
    PROVE  /\ proc' \in [Slot -> SlotRec] /\ St(s)' = "ZOMBIE" /\ SameTies(s)
           /\ \A c \in Slot \ {s} : /\ Mn(c)' = Mn(c) /\ Mp(c)' = Mp(c) /\ Tn(c)' = Tn(c) /\ Stays(c)
                                    /\ Pa(c)' = (IF c \in A THEN INITPROC ELSE Pa(c))
           /\ \A c \in Slot : Ki(c)' = Ki(c) /\ \A n \in Node : SameNode(c, n)
  <1> USE Numbers
  <1>1. ASSUME NEW r \in SlotRec, NEW w, w = [r EXCEPT !.state = "ZOMBIE"]
        PROVE  /\ w \in SlotRec /\ w.state = "ZOMBIE" /\ w.table = r.table /\ w.is_main = r.is_main
               /\ w.main_ptr = r.main_ptr /\ w.parent = r.parent /\ w.thread_num = r.thread_num
               /\ w.killed = r.killed
    BY <1>1, ZenonT(60) DEF SlotRec, States
  <1>2. ASSUME NEW r \in SlotRec, NEW w, w = [r EXCEPT !.parent = INITPROC]
        PROVE  /\ w \in SlotRec /\ w.parent = INITPROC /\ w.state = r.state /\ w.chan = r.chan
               /\ w.table = r.table /\ w.is_main = r.is_main
               /\ w.main_ptr = r.main_ptr /\ w.thread_num = r.thread_num /\ w.killed = r.killed
    BY <1>2 DEF SlotRec
  <1>3. /\ proc'[s] \in SlotRec /\ St(s)' = "ZOMBIE" /\ SameTies(s) /\ Ki(s)' = Ki(s)
        /\ \A n \in Node : SameNode(s, n)
    <2>1. PICK r \in SlotRec : r = q[s] /\ AsleepOrSame(r, proc[s])
      OBVIOUS
    <2>2. proc'[s] = [r EXCEPT !.state = "ZOMBIE"]
      BY <2>1
    <2>3. /\ proc'[s] \in SlotRec /\ proc'[s].state = "ZOMBIE" /\ proc'[s].table = r.table
          /\ proc'[s].is_main = r.is_main /\ proc'[s].main_ptr = r.main_ptr /\ proc'[s].parent = r.parent
          /\ proc'[s].thread_num = r.thread_num /\ proc'[s].killed = r.killed
      BY <1>1, <2>2
    <2> QED BY <2>1, <2>3 DEF AsleepOrSame, SameTies, SameNode, Mn, Mp, Pa, Tn, Ki, St, TS, TT
  <1>4. ASSUME NEW c \in Slot \ {s}
        PROVE  /\ proc'[c] \in SlotRec /\ Mn(c)' = Mn(c) /\ Mp(c)' = Mp(c) /\ Tn(c)' = Tn(c) /\ Stays(c)
               /\ Pa(c)' = (IF c \in A THEN INITPROC ELSE Pa(c))
               /\ Ki(c)' = Ki(c) /\ \A n \in Node : SameNode(c, n)
    <2>1. PICK r \in SlotRec : r = q[c] /\ AsleepOrSame(r, proc[c])
      OBVIOUS
    <2>2. proc'[c] = IF c \in A THEN [r EXCEPT !.parent = INITPROC] ELSE r
      BY <2>1
    <2>3. /\ proc'[c] \in SlotRec /\ proc'[c].state = r.state /\ proc'[c].chan = r.chan
          /\ proc'[c].table = r.table /\ proc'[c].is_main = r.is_main
          /\ proc'[c].main_ptr = r.main_ptr /\ proc'[c].thread_num = r.thread_num
          /\ proc'[c].killed = r.killed
      BY <1>2, <2>2
    <2>4. proc'[c].parent = IF c \in A THEN INITPROC ELSE r.parent
      BY <1>2, <2>2
    <2> QED BY <2>1, <2>3, <2>4
            DEF AsleepOrSame, SameNode, Stays, Woken, Mn, Mp, Pa, Tn, Ki, St, Ch, TS, TT
  <1>5. proc' \in [Slot -> SlotRec]
    BY <1>3, <1>4
  <1> QED BY <1>3, <1>4, <1>5

LEMMA ExitEndStep ==
    ASSUME ThreadsInv, NEW s \in Slot, ExitEnd(s)
    PROVE  ThreadsInv'
  <1> USE Numbers
  <1>1. Types /\ Sound /\ St(s) = "RUNNABLE" /\ Pc(s) \in {"exit", "exit_woken"} /\ Up(s)
    BY DEF ExitEnd, ThreadsInv, St, Pc, Up
  <1>2. /\ UNCHANGED <<nextpid, program>> /\ at' = [at EXCEPT ![s] = User]
        /\ panic' = (at[s].pc = "exit_woken")
    BY DEF ExitEnd
  <1>3. \A p \in [Slot -> SlotRec] : \A ch : Wakeup1(p, ch) = Rouse(p, {c \in Slot : p[c].chan = ch})
    BY DEF Wakeup1
  <1>4. \A p \in [Slot -> SlotRec] : \A ch :
           Wakeup1(p, ch) \in [Slot -> SlotRec] /\ \A c \in Slot : AsleepOrSame(Wakeup1(p, ch)[c], p[c])
    <2> TAKE p \in [Slot -> SlotRec]
    <2> TAKE ch
    <2>1. PICK S : S = {c \in Slot : p[c].chan = ch}
      OBVIOUS
    <2>2. Wakeup1(p, ch) = Rouse(p, S)
      BY <1>3, <2>1
    <2> QED BY <2>2, Rouses
  <1>5. PICK p \in [Slot -> SlotRec] : p = Wakeup1(proc, <<"wait", proc[s].parent>>)
                                      /\ \A c \in Slot : AsleepOrSame(p[c], proc[c])
    BY <1>1, <1>4 DEF Types
  <1>6. PICK u \in [Slot -> SlotRec] : u = Wakeup1(p, <<"wait", INITPROC>>)
                                      /\ \A c \in Slot : AsleepOrSame(u[c], p[c])
    BY <1>4
  <1>7. \A c \in Slot : AsleepOrSame(u[c], proc[c])
    BY <1>5, <1>6 DEF AsleepOrSame
  <1>8. \E q \in [Slot -> SlotRec] :
           /\ \A c \in Slot : AsleepOrSame(q[c], proc[c])
           /\ proc' = [c \in Slot |->
                         IF c = s THEN [q[c] EXCEPT !.state = "ZOMBIE"]
                         ELSE IF c \in Abandoned(s) THEN [q[c] EXCEPT !.parent = INITPROC]
                         ELSE q[c]]
    <2>1. CASE \E c \in Abandoned(s) : p[c].state = "ZOMBIE"
      <3>1. proc' = [c \in Slot |->
                         IF c = s THEN [u[c] EXCEPT !.state = "ZOMBIE"]
                         ELSE IF c \in Abandoned(s) THEN [u[c] EXCEPT !.parent = INITPROC]
                         ELSE u[c]]
        BY <1>5, <1>6, <2>1 DEF ExitEnd
      <3> QED BY <1>7, <3>1
    <2>2. CASE ~ \E c \in Abandoned(s) : p[c].state = "ZOMBIE"
      <3>1. proc' = [c \in Slot |->
                         IF c = s THEN [p[c] EXCEPT !.state = "ZOMBIE"]
                         ELSE IF c \in Abandoned(s) THEN [p[c] EXCEPT !.parent = INITPROC]
                         ELSE p[c]]
        BY <1>5, <2>2 DEF ExitEnd
      <3> QED BY <1>5, <3>1
    <2> QED BY <2>1, <2>2
  <1>9. PICK A : A = Abandoned(s)
    OBVIOUS
  <1>10. PICK q \in [Slot -> SlotRec] :
           /\ \A c \in Slot : AsleepOrSame(q[c], proc[c])
           /\ proc' = [c \in Slot |->
                         IF c = s THEN [q[c] EXCEPT !.state = "ZOMBIE"]
                         ELSE IF c \in A THEN [q[c] EXCEPT !.parent = INITPROC]
                         ELSE q[c]]
    BY <1>8, <1>9
  <1>11. /\ proc' \in [Slot -> SlotRec] /\ St(s)' = "ZOMBIE" /\ SameTies(s)
         /\ \A c \in Slot \ {s} : /\ Mn(c)' = Mn(c) /\ Mp(c)' = Mp(c) /\ Tn(c)' = Tn(c) /\ Stays(c)
                                  /\ Pa(c)' = (IF c \in A THEN INITPROC ELSE Pa(c))
         /\ \A c \in Slot : Ki(c)' = Ki(c) /\ \A n \in Node : SameNode(c, n)
    BY <1>1, <1>10, Abandons, ZenonT(60)
  <1>12. at' \in [Slot -> Locals] /\ Pc(s)' = "user" /\ \A r \in Slot \ {s} : SameAt(r)
    BY <1>1, <1>2, GoesHome
  <1>13. panic' \in BOOLEAN
    BY <1>2
  <1>14. Types'
    BY <1>1, <1>2, <1>11, <1>12, <1>13 DEF Types
  <1>15. CASE Pc(s) = "exit_woken"
    <2>1. panic'
      BY <1>2, <1>15 DEF Pc
    <2> QED BY <1>14, <2>1 DEF ThreadsInv
  <1>16. CASE Pc(s) = "exit"
    <2>1. ASSUME NEW c \in Slot \ {s}
          PROVE  /\ Pa(c)' = Pa(c) \/ (Pa(c) = s /\ Pa(c)' = INITPROC)
                 /\ Mn(c) /\ Pa(c) = s => Pa(c)' = INITPROC
      <3>1. c \in A => Pa(c) = s
        BY <1>9 DEF Abandoned, Pa
      <3>2. Mn(c) /\ Pa(c) = s => c \in A
        BY <1>9 DEF Abandoned, Pa, Mn, Main
      <3> QED BY <1>11, <3>1, <3>2
    <2>2. Sound'
      BY <1>1, <1>2, <1>11, <1>12, <1>16, <2>1, ZombieKeeps
    <2> QED BY <1>14, <2>2 DEF ThreadsInv
  <1> QED BY <1>1, <1>15, <1>16

-----------------------------------------------------------------------------
(* change_main_to_curthread *)

\* The thread s takes the place of the main thread m, whose slot is cleared.
LEMMA ReplaceKeeps ==
    ASSUME Sound, NEW s \in Slot, NEW m \in Slot, Up(s), Pc(s) = "exec_main", Mp(s) = m,
           St(m)' = "UNUSED", ~ Mn(m)', ~ Ki(m)', Pc(m)' = "user",
           St(s)' = St(s), Mn(s)', Pa(s)' = Pa(m), Ki(s)' = Ki(m), Pc(s)' = "exec",
           \A n \in Node : TS(s, n)' = "T_UNUSED" /\ TT(s, n)' = NULL,
           \A q \in Slot \ {s, m} :
             /\ St(q)' = St(q) /\ Ch(q)' = Ch(q) /\ Ki(q)' = Ki(q)
             /\ Mn(q)' = Mn(q) /\ Mp(q)' = Mp(q) /\ Tn(q)' = Tn(q)
             /\ Pa(q)' = (IF Up(q) /\ Mn(q) /\ Pa(q) = m THEN s ELSE Pa(q))
             /\ SameAt(q) /\ \A n \in Node : SameNode(q, n),
           program' = program
    PROVE  Sound'
  <1> USE Numbers
  <1>1. ReplaceOK(s) /\ Thread(s)
    BY DEF Sound, KernelOK, ReplaceOK, Thread, There
  <1>2. Leader(m) /\ m # s /\ m # INITPROC /\ s # INITPROC
    BY <1>1 DEF Sound, ThreadOK, InitOK, Leader, Thread
  <1>3. Mn(m) /\ Up(m) /\ ~ Mn(s) /\ Replacing(program)
    BY <1>1, <1>2 DEF Leader, ReplaceOK
  <1>4. ~ Up(m)' /\ ~ There(m)' /\ ~ Thread(m)' /\ Up(s)' /\ There(s)' /\ ~ Thread(s)'
    BY DEF Up, There, Thread
  <1>5. \A q \in Slot \ {s, m} :
           /\ Up(q)' = Up(q) /\ There(q)' = There(q) /\ Thread(q)' = Thread(q) /\ Chief(q)' = Chief(q)
           /\ Leader(q)' = Leader(q)
    BY DEF Up, There, Thread, Chief, Leader, SameAt
  <1>6. \A q \in Slot \ {s, m}, n \in Node :
           TS(q, n)' = TS(q, n) /\ TT(q, n)' = TT(q, n) /\ Used(q, n)' = Used(q, n)
    BY DEF SameNode, Used, Using, Ended
  <1>7. \A t \in Slot \ {s, m} : Thread(t) => Mp(t) # m /\ Mp(t) # s
    BY <1>1, <1>3 DEF ReplaceOK, Sound, ThreadOK, Leader
  <1>8. ASSUME NEW q \in Slot \ {s, m} PROVE Replaced(q)' <=> Replaced(q)
    <2>1. ASSUME NEW x \in Slot, Mp(x) = q, Pc(x) = "exec_main" PROVE Replaced(q)'
      <3>1. x # s /\ x # m
        BY <1>3, <2>1 DEF Sound, KernelOK, ReplaceOK
      <3> QED BY <2>1, <3>1 DEF Replaced, SameAt
    <2>2. ASSUME NEW x \in Slot, Mp(x)' = q, Pc(x)' = "exec_main" PROVE Replaced(q)
      <3>1. x # s /\ x # m
        BY <2>2
      <3> QED BY <2>2, <3>1 DEF Replaced, SameAt
    <2> QED BY <2>1, <2>2 DEF Replaced
  <1>9. ASSUME NEW q \in Slot PROVE IdleOK(q)'
    <2>1. CASE q \in {s, m}
      BY <1>4, <2>1 DEF IdleOK
    <2>2. CASE q \notin {s, m}
      BY <1>5, <2>2 DEF Sound, IdleOK, SameAt
    <2> QED BY <2>1, <2>2
  <1>10. ASSUME NEW t \in Slot PROVE ThreadOK(t)'
    <2> SUFFICES ASSUME Thread(t)' PROVE \E k \in Slot : Mp(t)' = k /\ Leader(k)' /\ Placed(t, k)'
      BY DEF ThreadOK
    <2>1. t \notin {s, m} /\ Thread(t)
      BY <1>4, <1>5
    <2>2. PICK k \in Slot \ {s, m} : Mp(t) = k /\ Leader(k) /\ Placed(t, k)
      BY <1>7, <2>1 DEF Sound, ThreadOK
    <2>3. Placed(t, k)'
      BY <1>5, <1>6, <2>1, <2>2 DEF Placed, Using, Ended
    <2> QED BY <1>5, <2>1, <2>2, <2>3
  <1>11. ASSUME NEW q \in Slot PROVE TableOK(q)'
    <2>1. CASE q = m
      BY <1>4, <2>1 DEF TableOK, Leader
    <2>2. CASE q = s
      <3>1. \A n \in Node : ~ Used(s, n)' /\ TT(s, n)' = NULL /\ NULL # s
        BY DEF Used, Using, Ended
      <3> QED BY <2>2, <3>1 DEF TableOK, NodeOK, Distinct
    <2>3. CASE q \notin {s, m}
      <3> SUFFICES ASSUME Leader(q)' PROVE (\A n \in Node : NodeOK(q, n)') /\ (Replaced(q)' \/ Distinct(q)')
        BY DEF TableOK
      <3>1. (\A n \in Node : NodeOK(q, n)) /\ (Replaced(q) \/ Distinct(q))
        BY <1>5, <2>3 DEF Sound, TableOK
      <3>2. ASSUME NEW n \in Node, Used(q, n), ~ Replaced(q) PROVE Holds(q, TT(q, n), TS(q, n))'
        <4>1. PICK t \in Slot \ {s, m} : t = TT(q, n) /\ Holds(q, t, TS(q, n))
          BY <1>3, <2>3, <3>1, <3>2 DEF NodeOK, Holds
        <4> QED BY <1>5, <1>6, <2>3, <4>1 DEF Holds
      <3>3. ASSUME NEW n \in Node PROVE NodeOK(q, n)'
        BY <1>6, <1>8, <2>3, <3>1, <3>2 DEF NodeOK
      <3>4. Replaced(q)' \/ Distinct(q)'
        BY <1>6, <1>8, <2>3, <3>1 DEF Distinct
      <3> QED BY <3>3, <3>4
    <2> QED BY <2>1, <2>2, <2>3
  <1>12. ASSUME NEW q \in Slot PROVE KernelOK(q)'
    <2>1. CASE q = m
      BY <2>1 DEF KernelOK, Creating, Making
    <2>2. CASE q = s
      BY <2>2 DEF KernelOK, Creating, Making, Used, Using, Ended
    <2>3. CASE q \notin {s, m} /\ Pc(q) = "user"
      BY <2>3 DEF KernelOK, Creating, Making, SameAt
    <2>4. CASE q \notin {s, m} /\ Pc(q) # "user"
      <3>1. KernelOK(q) /\ SameAt(q) /\ Up(q) /\ Mn(q)' = Mn(q)
        BY <2>4 DEF Sound, IdleOK
      <3>2. Pc(q) \in Creating => CreateOK(q)'
        BY <1>6, <2>4, <3>1 DEF KernelOK, CreateOK, SameAt
      <3>3. Pc(q) \in Making => MakeOK(q)' /\ Pa(Lo(q))' = Pa(Lo(q))
        <4> SUFFICES ASSUME Pc(q) \in Making PROVE MakeOK(q)' /\ Pa(Lo(q))' = Pa(Lo(q))
          OBVIOUS
        <4>1. PICK x \in Slot : x = Lo(q) /\ St(x) = "EMBRYO"
          BY <3>1 DEF KernelOK, MakeOK
        <4>2. x \notin {s, m} /\ ~ Up(x)
          BY <1>3, <4>1 DEF Up
        <4>3. Lo(q)' = x /\ St(x)' = "EMBRYO" /\ Pa(x)' = Pa(x)
          BY <3>1, <4>1, <4>2 DEF SameAt
        <4> QED BY <4>1, <4>3 DEF MakeOK
      <3>4. Pc(q) \in {"fork", "fork_end"} => ForkOK(q)'
        <4> SUFFICES ASSUME Pc(q) \in {"fork", "fork_end"} PROVE ForkOK(q)'
          OBVIOUS
        <4>1. PICK x \in Slot : x = Lo(q) /\ St(x) = "EMBRYO" /\ ForkOK(q)
          BY <3>1 DEF KernelOK, MakeOK, Making
        <4>2. x \notin {s, m} /\ ~ Up(x)
          BY <1>3, <4>1 DEF Up
        <4>3. Pa(x)' = Pa(x)
          BY <4>2
        <4> QED BY <1>5, <2>4, <3>1, <4>1, <4>3 DEF ForkOK, SameAt
      <3>5. Pc(q) # "join"
        BY <1>3 DEF Sound, LastingOK
      <3>6. Pc(q) = "exec_main" => ReplaceOK(q)'
        <4> SUFFICES ASSUME Pc(q) = "exec_main" PROVE ReplaceOK(q)'
          OBVIOUS
        <4>1. ReplaceOK(q) /\ Thread(q)
          BY <3>1 DEF KernelOK, ReplaceOK, Thread, There
        <4>2. PICK k \in Slot \ {s, m} : Mp(q) = k
          BY <1>7, <2>4, <4>1 DEF Sound, ThreadOK
        <4>3. Mp(q)' = k /\ Tn(k)' = Tn(k) /\ Up(q)' /\ ~ Mn(q)'
          BY <1>5, <2>4, <3>1, <4>1, <4>2 DEF ReplaceOK
        <4>4. ASSUME NEW t \in Slot \ {q}, Thread(t)' PROVE Mp(t)' # k
          <5>1. t \notin {s, m} /\ Thread(t) /\ Mp(t)' = Mp(t)
            BY <1>4, <1>5, <4>4
          <5> QED BY <4>1, <4>2, <5>1 DEF ReplaceOK
        <4>5. Replacing(program)' /\ Tn(k)' = program'.threads
          BY <1>3, <4>1, <4>2, <4>3 DEF ReplaceOK, Replacing, Makes
        <4> QED BY <4>3, <4>4, <4>5 DEF ReplaceOK
      <3>7. Pc(q) = "exec" => \A n \in Node : ~ Used(q, n)'
        BY <1>6, <2>4, <3>1 DEF KernelOK
      <3> QED BY <3>1, <3>2, <3>3, <3>4, <3>5, <3>6, <3>7 DEF KernelOK, SameAt
    <2> QED BY <2>1, <2>2, <2>3, <2>4
  <1>13. EmbryosOK'
    <2>1. \A x \in Slot : Pc(x)' \in Making => Lo(x)' = Lo(x) /\ Pc(x) \in Making
      BY DEF SameAt, Making
    <2> QED BY <2>1 DEF Sound, EmbryosOK
  <1>14. \A p \in Slot : Mn(p) /\ Up(p) /\ p # m => p # s /\ Mn(p)' /\ Up(p)'
    BY <1>3, <1>5
  <1>15. ASSUME NEW c \in Slot PROVE ParentOK(c)'
    <2> SUFFICES ASSUME c # INITPROC, Mn(c)', There(c)'
                 PROVE  Pa(c)' \in Slot /\ Pa(c)' # c /\ Mn(Pa(c))' /\ Up(Pa(c))'
      BY DEF ParentOK
    <2>1. CASE c = s
      <3>1. PICK p \in Slot : Pa(m) = p /\ p # m /\ Mn(p) /\ Up(p)
        BY <1>2, <1>3 DEF Sound, ParentOK, There
      <3>2. Pa(s)' = p /\ p # s /\ Mn(p)' /\ Up(p)'
        BY <1>14, <3>1
      <3> QED BY <2>1, <3>2
    <2>2. CASE c # s
      <3>1. c # m
        BY <1>4
      <3>2. Mn(c) /\ There(c) /\ St(c)' = St(c)
        BY <1>5, <2>2, <3>1
      <3>3. PICK p \in Slot : Pa(c) = p /\ p # c /\ Mn(p) /\ Up(p)
        BY <3>2 DEF Sound, ParentOK
      <3>4. CASE p = m
        <4>1. Up(c)
          BY <1>3, <3>2 DEF There, Sound, LastingOK
        <4>2. Pa(c)' = s
          BY <2>2, <3>1, <3>2, <3>3, <3>4, <4>1
        <4> QED BY <1>4, <2>2, <4>2
      <3>5. CASE p # m
        <4>1. Pa(c)' = p /\ Mn(p)' /\ Up(p)'
          BY <1>14, <2>2, <3>1, <3>3, <3>5
        <4> QED BY <3>3, <4>1
      <3> QED BY <3>4, <3>5
    <2> QED BY <2>1, <2>2
  <1>16. InitOK'
    <2>1. Up(INITPROC)' /\ Mn(INITPROC)' /\ Pc(INITPROC)' \in {"user", "wait"}
      BY <1>2, <1>5 DEF Sound, InitOK, SameAt
    <2>2. \A t \in Slot : Thread(t)' => Mp(t)' # INITPROC
      BY <1>4, <1>5 DEF Sound, InitOK
    <2> QED BY <2>1, <2>2 DEF InitOK
  <1>17. ASSUME NEW q \in Slot PROVE AloneOK(q)'
    BY <1>1 DEF Sound, AloneOK, Thread
  <1>18. ASSUME NEW q \in Slot PROVE LastingOK(q)'
    <2>1. ~ Ki(q)' /\ Pc(q)' \notin {"exit", "exit_woken", "join"} /\ (St(q)' = "ZOMBIE" => ~ Mn(q)')
      BY <1>3 DEF Sound, LastingOK, SameAt, Up
    <2> QED BY <2>1 DEF LastingOK
  <1> QED BY <1>9, <1>10, <1>11, <1>12, <1>13, <1>15, <1>16, <1>17, <1>18 DEF Sound

LEMMA ExecChangeMainStep ==
    ASSUME ThreadsInv, NEW s \in Slot, ExecChangeMain(s)
    PROVE  ThreadsInv'
  <1> USE Numbers
  <1>1. Types /\ Sound /\ St(s) = "RUNNABLE" /\ Pc(s) = "exec_main" /\ Up(s)
    BY DEF ExecChangeMain, At, ThreadsInv, St, Pc, Up
  <1>2. Thread(s) /\ ~ Mn(s)
    BY <1>1 DEF Sound, KernelOK, ReplaceOK, Thread, There
  <1>3. PICK m \in Slot : Mp(s) = m /\ Mn(m) /\ m # s /\ proc[s].main_ptr = m
    BY <1>1, <1>2 DEF Mp, Sound, ThreadOK, Leader
  <1> DEFINE a == [proc[s] EXCEPT !.sz = proc[m].sz, !.pid = proc[m].pid, !.parent = proc[m].parent]
             b == [a EXCEPT !.killed = proc[m].killed, !.main_stack = proc[m].main_stack, !.memory_limit = 0]
             c == [b EXCEPT !.thread_num = 0, !.table = NoTable]
             r == [c EXCEPT !.is_main = TRUE, !.main_ptr = s, !.thread_id = 0]
             adopted == {q \in Slot : /\ proc[q].state \in {"RUNNABLE", "SLEEPING"}
                                      /\ proc[q].is_main /\ proc[q].parent = m}
             p == [q \in Slot |-> IF q = s THEN r
                                  ELSE IF q \in adopted THEN [proc[q] EXCEPT !.parent = s]
                                  ELSE proc[q]]
  <1>4. proc' = InitThreadData(p, {m}) /\ Destroy({m}, s, [at[s] EXCEPT !.pc = "exec"])
    BY <1>3 DEF ExecChangeMain
  <1>5. UNCHANGED <<nextpid, program>>
    BY DEF ExecChangeMain
  <1>6. proc[s] \in SlotRec /\ proc[m] \in SlotRec
    BY <1>1 DEF Types
  <1>7. a \in SlotRec /\ a.state = proc[s].state /\ a.parent = proc[m].parent
    BY <1>6 DEF SlotRec
  <1> HIDE DEF a
  <1>8. b \in SlotRec /\ b.state = proc[s].state /\ b.parent = proc[m].parent /\ b.killed = proc[m].killed
    BY <1>6, <1>7 DEF SlotRec
  <1> HIDE DEF b
  <1>9. /\ c \in SlotRec /\ c.state = proc[s].state /\ c.parent = proc[m].parent
        /\ c.killed = proc[m].killed /\ c.table = NoTable
    <2>1. NoTable \in [Node -> NodeRec]
      BY DEF NoTable, FreeNode, NodeRec, NodeStates
    <2> QED BY <1>8, <2>1 DEF SlotRec
  <1> HIDE DEF c
  <1>10. /\ r \in SlotRec /\ r.state = proc[s].state /\ r.parent = proc[m].parent
         /\ r.killed = proc[m].killed /\ r.table = NoTable /\ r.is_main
    BY <1>9 DEF SlotRec
  <1> HIDE DEF r
  <1>11. ASSUME NEW q \in Slot \ {s}
         PROVE  /\ p[q] \in SlotRec /\ p[q].state = proc[q].state /\ p[q].chan = proc[q].chan
                /\ p[q].killed = proc[q].killed /\ p[q].is_main = proc[q].is_main
                /\ p[q].main_ptr = proc[q].main_ptr /\ p[q].thread_num = proc[q].thread_num
                /\ p[q].table = proc[q].table
                /\ p[q].parent = IF q \in adopted THEN s ELSE proc[q].parent
    <2>1. PICK x \in SlotRec : x = proc[q]
      BY <1>1 DEF Types
    <2> DEFINE w == [x EXCEPT !.parent = s]
    <2>2. /\ w \in SlotRec /\ w.state = x.state /\ w.chan = x.chan /\ w.killed = x.killed
          /\ w.is_main = x.is_main /\ w.main_ptr = x.main_ptr /\ w.thread_num = x.thread_num
          /\ w.table = x.table /\ w.parent = s
      BY DEF SlotRec
    <2>3. p[q] = IF q \in adopted THEN w ELSE x
      BY <2>1
    <2> HIDE DEF w, p, adopted
    <2> QED BY <2>1, <2>2, <2>3
  <1>12. p[s] = r
    OBVIOUS
  <1>13. \A q \in Slot : q \in adopted <=> Up(q) /\ Mn(q) /\ Pa(q) = m
    BY DEF Up, St, Mn, Pa
  <1>14. p \in [Slot -> SlotRec]
    <2>1. p = [q \in Slot |-> p[q]]
      OBVIOUS
    <2> HIDE DEF p
    <2> QED BY <1>10, <1>11, <1>12, <2>1
  <1> HIDE DEF p, adopted
  <1>15. /\ proc' \in [Slot -> SlotRec] /\ \A q \in Slot \ {m} : proc'[q] = p[q]
         /\ proc'[m].state = "UNUSED" /\ ~ proc'[m].is_main /\ ~ proc'[m].killed
    BY <1>4, <1>14, Cleared
  <1>16. PICK l \in Locals : l = [at[s] EXCEPT !.pc = "exec"] /\ l.pc = "exec"
    <2>1. PICK x \in Locals : x = at[s]
      BY <1>1 DEF Types
    <2>2. [x EXCEPT !.pc = "exec"] \in Locals
      BY LocalsAre DEF Pcs
    <2>3. [x EXCEPT !.pc = "exec"].pc = "exec"
      BY DEF Locals
    <2> QED BY <2>1, <2>2, <2>3
  <1>17. PICK S : S = {m} /\ Destroy(S, s, l)
    BY <1>4, <1>16
  <1>18. /\ at' \in [Slot -> Locals] /\ panic' \in BOOLEAN /\ Pc(s)' = l.pc
         /\ Pc(m)' = "user" /\ \A q \in Slot \ {s, m} : SameAt(q)
    <2>1. /\ at' \in [Slot -> Locals] /\ panic' \in BOOLEAN /\ Pc(s)' = l.pc
          /\ \A t \in Slot : t \in S /\ t # s => Pc(t)' = "user"
          /\ \A t \in Slot : t \notin S /\ t # s => SameAt(t)
      BY <1>1, <1>17, Leaves
    <2> QED BY <1>3, <1>17, <2>1
  <1>19. Types'
    BY <1>1, <1>5, <1>15, <1>18 DEF Types
  <1>20. St(m)' = "UNUSED" /\ ~ Mn(m)' /\ ~ Ki(m)'
    BY <1>15 DEF St, Mn, Ki
  <1>21. proc'[s] = r
    BY <1>3, <1>12, <1>15
  <1>22. St(s)' = St(s) /\ Mn(s)' /\ Pa(s)' = Pa(m) /\ Ki(s)' = Ki(m)
    BY <1>10, <1>21 DEF St, Mn, Pa, Ki
  <1>23. \A n \in Node : TS(s, n)' = "T_UNUSED" /\ TT(s, n)' = NULL
    BY <1>10, <1>21 DEF TS, TT, NoTable, FreeNode
  <1>24. ASSUME NEW q \in Slot \ {s, m}
         PROVE  /\ St(q)' = St(q) /\ Ch(q)' = Ch(q) /\ Ki(q)' = Ki(q)
                /\ Mn(q)' = Mn(q) /\ Mp(q)' = Mp(q) /\ Tn(q)' = Tn(q)
                /\ Pa(q)' = (IF Up(q) /\ Mn(q) /\ Pa(q) = m THEN s ELSE Pa(q))
                /\ \A n \in Node : SameNode(q, n)
    <2>1. proc'[q] = p[q]
      BY <1>15
    <2>2. Pa(q)' = IF q \in adopted THEN s ELSE Pa(q)
      BY <1>11, <2>1 DEF Pa
    <2>3. /\ St(q)' = St(q) /\ Ch(q)' = Ch(q) /\ Ki(q)' = Ki(q)
          /\ Mn(q)' = Mn(q) /\ Mp(q)' = Mp(q) /\ Tn(q)' = Tn(q)
          /\ \A n \in Node : SameNode(q, n)
      BY <1>11, <2>1 DEF St, Ch, Ki, Mn, Mp, Tn, SameNode, TS, TT
    <2> QED BY <1>13, <2>2, <2>3
  <1>25. Pc(s)' = "exec"
    BY <1>16, <1>18
  <1>26. Sound'
    BY <1>1, <1>3, <1>5, <1>18, <1>20, <1>22, <1>23, <1>24, <1>25, ReplaceKeeps
  <1> QED BY <1>19, <1>26 DEF ThreadsInv

-----------------------------------------------------------------------------
(* The invariant holds *)

LEMMA InitIsSound == Init => Sound
  <1> USE Numbers
  <1> SUFFICES ASSUME Init PROVE Sound
    OBVIOUS
  <1>1. /\ St(INITPROC) = "SLEEPING" /\ Mn(INITPROC) /\ ~ Ki(INITPROC) /\ Tn(INITPROC) = 1
        /\ \A n \in Node : TS(INITPROC, n) = "T_UNUSED" /\ TT(INITPROC, n) = NULL
    <2>1. proc[INITPROC] = [MainSlot(INITPROC, 1, NULL) EXCEPT !.state = "SLEEPING", !.chan = <<"wait", INITPROC>>]
      BY DEF Init
    <2>2. /\ proc[INITPROC].state = "SLEEPING" /\ proc[INITPROC].is_main /\ ~ proc[INITPROC].killed
          /\ proc[INITPROC].thread_num = 1 /\ proc[INITPROC].table = NoTable
      BY <2>1 DEF MainSlot, FreeSlot
    <2> QED BY <2>2 DEF St, Mn, Ki, Tn, TS, TT, NoTable, FreeNode
  <1>2. /\ St(FIRST) = "RUNNABLE" /\ Mn(FIRST) /\ ~ Ki(FIRST) /\ Tn(FIRST) = 1 /\ Pa(FIRST) = INITPROC
        /\ \A n \in Node : TS(FIRST, n) = "T_UNUSED" /\ TT(FIRST, n) = NULL
    <2>1. proc[FIRST] = MainSlot(FIRST, 2, INITPROC)
      BY DEF Init
    <2>2. /\ proc[FIRST].state = "RUNNABLE" /\ proc[FIRST].is_main /\ ~ proc[FIRST].killed
          /\ proc[FIRST].thread_num = 1 /\ proc[FIRST].table = NoTable /\ proc[FIRST].parent = INITPROC
      BY <2>1 DEF MainSlot, FreeSlot
    <2> QED BY <2>2 DEF St, Mn, Ki, Tn, Pa, TS, TT, NoTable, FreeNode
  <1>3. ASSUME NEW q \in Slot \ {INITPROC, FIRST} PROVE St(q) = "UNUSED" /\ ~ Ki(q)
    <2>1. proc[q] = FreeSlot
      BY DEF Init
    <2> QED BY <2>1 DEF FreeSlot, St, Ki
  <1>4. Pc(INITPROC) = "wait" /\ \A q \in Slot \ {INITPROC} : Pc(q) = "user"
    BY DEF Init, User, Pc
  <1>5. Up(INITPROC) /\ Up(FIRST) /\ \A q \in Slot \ {INITPROC, FIRST} : ~ Up(q) /\ ~ There(q)
    BY <1>1, <1>2, <1>3 DEF Up, There
  <1>6. \A q \in Slot : ~ Thread(q) /\ Pc(q) \in {"user", "wait"} /\ ~ Ki(q) /\ St(q) # "ZOMBIE"
    BY <1>1, <1>2, <1>3, <1>4, <1>5 DEF Thread
  <1>7. ASSUME NEW q \in Slot PROVE IdleOK(q) /\ ThreadOK(q) /\ KernelOK(q) /\ LastingOK(q)
    BY <1>4, <1>5, <1>6 DEF IdleOK, ThreadOK, KernelOK, LastingOK, Creating, Making
  <1>8. ASSUME NEW q \in Slot PROVE TableOK(q)
    BY <1>1, <1>2, <1>5 DEF TableOK, Leader, NodeOK, Distinct, Used, Using, Ended
  <1>9. ASSUME NEW q \in Slot PROVE ParentOK(q) /\ AloneOK(q)
    BY <1>1, <1>2, <1>5 DEF ParentOK, AloneOK
  <1>10. EmbryosOK
    BY <1>6 DEF EmbryosOK, Making
  <1>11. InitOK
    BY <1>1, <1>4, <1>5, <1>6 DEF InitOK
  <1> QED BY <1>7, <1>8, <1>9, <1>10, <1>11 DEF Sound

LEMMA StutterKeeps ==
    ASSUME ThreadsInv, UNCHANGED vars
    PROVE  ThreadsInv'
  <1> USE Numbers
  <1>1. UNCHANGED <<nextpid, panic, program>> /\ at' = at /\ proc' = proc /\ Types
    BY DEF vars, ThreadsInv
  <1>2. proc' \in [Slot -> SlotRec] /\ \A q \in Slot : Untouched(q)
    BY <1>1, UnchangedProc
  <1>3. at' \in [Slot -> Locals] /\ \A q \in Slot : SameAt(q)
    BY <1>1, StandsStill
  <1>4. Types'
    BY <1>1, <1>2, <1>3 DEF Types
  <1>5. ASSUME Sound PROVE Sound'
    <2>1. Up(INITPROC) /\ Pc(INITPROC) \in {"user", "wait"}
      BY <1>5 DEF Sound, InitOK
    <2>2. Bare(INITPROC)
      BY <1>1, <1>2, <1>3, <2>1 DEF Bare, Untouched, Stays, Up
    <2>3. Pc(INITPROC)' \in {"user", "wait"} /\ \A q \in Slot : Ki(q)' = Ki(q)
      BY <1>2, <1>3, <2>1 DEF SameAt, Untouched
    <2> QED BY <1>5, <2>1, <2>2, <2>3, BareIsQuiet, QuietUser
  <1> QED BY <1>1, <1>4, <1>5 DEF ThreadsInv

\* The inductive step, by the steps that a slot takes.
LEMMA NextKeeps ==
    ASSUME AllOrderly, ThreadsInv, [Next]_vars
    PROVE  ThreadsInv'
  <1>1. ASSUME NEW s \in Slot, KernelStep(s) PROVE ThreadsInv'
    <2>1. CASE CreateAlloc(s) \/ CreatePid(s) \/ CreateAllocFails(s) \/ CreateEnd(s) \/ CreateBad(s)
      BY <2>1, CreateAllocStep, CreatePidStep, CreateAllocFailsStep, CreateEndStep, CreateBadStep
    <2>2. CASE JoinEnd(s) \/ ForkFill(s) \/ ForkEnd(s) \/ ExitEnd(s)
      BY <2>2, JoinEndStep, ForkFillStep, ForkEndStep, ExitEndStep
    <2>3. CASE \E m \in Slot : WaitReaps(s, m) \/ WaitFails(s, m) \/ WaitSleeps(s, m)
      BY <2>3, WaitReapsStep, WaitFailsStep, WaitSleepsStep
    <2>4. CASE ExecChangeMain(s) \/ ExecEnd(s) \/ SetLimitWrite(s)
      BY <2>4, ExecChangeMainStep, ExecEndStep, SetLimitWriteStep
    <2> QED BY <1>1, <2>1, <2>2, <2>3, <2>4 DEF KernelStep
  <1>2. ASSUME NEW s \in Slot, UserCall(s) PROVE ThreadsInv'
    <2>1. CASE CreateReserve(s) \/ ThreadExit(s) \/ Fork(s) \/ Exit(s) \/ Exec(s)
      BY <2>1, CreateReserveStep, ThreadExitStep, ForkStep, ExitStep, ExecStep
    <2>2. CASE \E tid \in 0 .. MaxThreads : Join(s, tid)
      BY <2>2, JoinStep
    <2>3. CASE \E m \in Slot : WaitReaps(s, m) \/ WaitFails(s, m) \/ WaitSleeps(s, m)
      BY <2>3, WaitReapsStep, WaitFailsStep, WaitSleepsStep
    <2>4. CASE \E pid \in Targets : Kill(s, pid)
      BY <2>4, KillStep
    <2>5. CASE Sleep(s) \/ Grow(s)
      BY <2>5, SleepStep, GrowStep
    <2>6. CASE \E pid \in Targets, limit \in Limits : SetLimitCheck(s, pid, limit)
      BY <2>6, SetLimitCheckStep
    <2> QED BY <1>2, <2>1, <2>2, <2>3, <2>4, <2>5, <2>6 DEF UserCall
  <1> QED BY <1>1, <1>2, WakeupStep, StutterKeeps DEF Next

\* Up to a panic, slots, tables and locals keep to the invariant, for programs
\* that are orderly.
THEOREM ThreadsInvariant == AllOrderly => (Spec => []ThreadsInv)
  <1> SUFFICES ASSUME AllOrderly PROVE Spec => []ThreadsInv
    OBVIOUS
  <1>1. Init => ThreadsInv
    BY InitTypes, InitIsSound DEF ThreadsInv
  <1>2. ThreadsInv /\ [Next]_vars => ThreadsInv'
    BY NextKeeps
  <1> QED BY <1>1, <1>2, PTL DEF Spec

-----------------------------------------------------------------------------
(* What it says of the processes *)

LEMMA ProcessIsLed ==
    ASSUME NEW m \in Slot, Process(m)
    PROVE  Leader(m) /\ ~ Replaced(m)
  BY DEF Process, Lives, Leader, Replaced, Up, St, Mn, Mp, Pc

\* Each node of a process that is in use has a thread of its own, which lives or
\* has ended as the node says: create, exit, join, fork and exec of proc.c and
\* exec.c agree on it, however they are interleaved.
THEOREM TablesAreSound == AllOrderly => (Spec => [](panic \/ TableIsSound))
  <1> SUFFICES ASSUME AllOrderly PROVE Spec => [](panic \/ TableIsSound)
    OBVIOUS
  <1>1. ThreadsInv => panic \/ TableIsSound
    <2> SUFFICES ASSUME Sound, NEW m \in Slot, Process(m), NEW n \in Node,
                        proc[m].table[n].state \in {"T_USING", "T_ZOMBIE"}
                 PROVE  LET t == proc[m].table[n].thread
                        IN  /\ t # NULL /\ ~ proc[t].is_main /\ proc[t].main_ptr = m
                            /\ Lives(t) <=> proc[m].table[n].state = "T_USING"
                            /\ \A k \in Node \ {n} : proc[m].table[k].thread # t
      BY DEF ThreadsInv, TableIsSound
    <2>1. Leader(m) /\ ~ Replaced(m)
      BY ProcessIsLed
    <2>2. (\A k \in Node : NodeOK(m, k)) /\ Distinct(m)
      BY <2>1 DEF Sound, TableOK
    <2>3. Used(m, n)
      BY DEF Used, Using, Ended, TS
    <2>4. PICK t \in Slot : t = TT(m, n) /\ Holds(m, t, TS(m, n))
      BY <2>1, <2>2, <2>3 DEF NodeOK, Holds
    <2>5. t # NULL /\ ~ Mn(t) /\ Mp(t) = m /\ (Up(t) <=> Using(m, n))
      BY <2>3, <2>4, Numbers DEF Holds, Used, Using, Ended, Up
    <2>6. ASSUME NEW k \in Node \ {n} PROVE TT(m, k) # t
      BY <2>2, <2>3, <2>4, <2>5 DEF NodeOK, Distinct
    <2>7. /\ proc[m].table[n].thread = t /\ ~ proc[t].is_main /\ proc[t].main_ptr = m
          /\ Lives(t) <=> proc[m].table[n].state = "T_USING"
          /\ \A k \in Node \ {n} : proc[m].table[k].thread # t
      BY <2>4, <2>5, <2>6 DEF TT, TS, Mn, Mp, Up, Using, St, Lives
    <2> QED BY <2>5, <2>7
  <1> QED BY <1>1, ThreadsInvariant, PTL

\* No thread outlives its process, and its process holds it until it is joined:
\* its slot and its stack can be freed.
THEOREM ThreadsBelongToProcesses == AllOrderly => (Spec => [](panic \/ ThreadsBelong))
  <1> SUFFICES ASSUME AllOrderly PROVE Spec => [](panic \/ ThreadsBelong)
    OBVIOUS
  <1>1. ThreadsInv => panic \/ ThreadsBelong
    <2> SUFFICES ASSUME Sound, NEW t \in Slot, Lives(t) \/ proc[t].state = "ZOMBIE", ~ proc[t].is_main
                 PROVE  LET m == proc[t].main_ptr
                        IN  m # NULL /\ proc[m].is_main /\ Lives(m) /\ t \in Held(m)
      BY DEF ThreadsInv, ThreadsBelong
    <2>1. Thread(t)
      BY DEF Thread, There, Up, Lives, St, Mn
    <2>2. PICK m \in Slot : Mp(t) = m /\ Leader(m) /\ Placed(t, m)
      BY <2>1 DEF Sound, ThreadOK
    <2>3. PICK n \in Node : TT(m, n) = t /\ Used(m, n)
      BY <2>2 DEF Placed, Used
    <2>4. t \in Held(m)
      BY <2>3 DEF Held, TT, TS, Used, Using, Ended
    <2>5. m # NULL /\ proc[m].is_main /\ Lives(m) /\ proc[t].main_ptr = m
      BY <2>2, Numbers DEF Leader, Up, St, Mn, Mp, Lives
    <2> QED BY <2>4, <2>5
  <1> QED BY <1>1, ThreadsInvariant, PTL

\* Nobody sleeps in thread_join() on a thread that has already ended.
THEOREM NoThreadExitIsMissedEver == AllOrderly => (Spec => [](panic \/ NoThreadExitIsMissed))
  <1> SUFFICES ASSUME AllOrderly PROVE Spec => [](panic \/ NoThreadExitIsMissed)
    OBVIOUS
  <1>1. ThreadsInv => panic \/ NoThreadExitIsMissed
    <2> SUFFICES ASSUME Sound, NEW s \in Slot, proc[s].state = "SLEEPING", at[s].pc = "join"
                 PROVE  LET node == proc[at[s].main].table[at[s].node]
                        IN  node.state = "T_USING" /\ node.thread = at[s].other
      BY DEF ThreadsInv, NoThreadExitIsMissed
    <2>1. JoinOK(s) /\ St(s) = "SLEEPING"
      BY DEF Sound, KernelOK, Pc, St
    <2> QED BY <2>1 DEF JoinOK, Using, TS, TT, Lm, Ln, Lo
  <1> QED BY <1>1, ThreadsInvariant, PTL

\* Every process but init has a parent that can wait for it, though its parent
\* may have ended, or a thread may have taken its place by exec().
THEOREM ParentsCanWait == AllOrderly => (Spec => [](panic \/ ParentCanWait))
  <1> SUFFICES ASSUME AllOrderly PROVE Spec => [](panic \/ ParentCanWait)
    OBVIOUS
  <1>1. ThreadsInv => panic \/ ParentCanWait
    <2> SUFFICES ASSUME Sound, NEW m \in Slot, m # INITPROC, proc[m].is_main,
                        Lives(m) \/ proc[m].state = "ZOMBIE"
                 PROVE  proc[proc[m].parent].is_main /\ Lives(proc[m].parent)
      BY DEF ThreadsInv, ParentCanWait
    <2>1. ParentOK(m) /\ Mn(m) /\ There(m)
      BY DEF Sound, There, Up, Lives, St, Mn
    <2>2. Mn(Pa(m)) /\ Up(Pa(m))
      BY <2>1 DEF ParentOK
    <2> QED BY <2>2 DEF Mn, Pa, Up, St, Lives
  <1> QED BY <1>1, ThreadsInvariant, PTL
=============================================================================
