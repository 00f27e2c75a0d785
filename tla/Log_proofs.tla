------------------------------ MODULE Log_proofs ------------------------------
(***************************************************************************)
(* The safety of the buffered log of Project3, for any blocks and data, any *)
(* sizes with no more buffers than log blocks, any number of readers and    *)
(* one process that writes and syncs: no sync() commits while another call  *)
(* is half done (it would, log.c:240), and a crash may come at any step.    *)
(*                                                                         *)
(* The invariant says, for every place the committer can be at, what the    *)
(* log's list, the dirty buffers, the log and the blocks on disk have in     *)
(* common (Phase), that the committer's own buffers lie above those of the  *)
(* call it is in (StackOK), and that a clean buffer is what the disk has,   *)
(* but for the block that is between its change and log_write() (Coherent). *)
(* That the log fits its header follows from counting: the blocks of the    *)
(* list are pinned, so each of them has a buffer.                          *)
(***************************************************************************)
EXTENDS Log, ListLemmas, FiniteSetTheorems

\* One process writes and syncs; any number read.
Alone == \A p, q \in Writers \cup Syncers : p = q

\* The log has a block for every buffer (param.h:11-12).
Roomy == NBUF <= LOGSIZE

Writing == {"log_write", "check", "append"}
Logging == {"write_log", "log_from", "log_copy"}
Installing == {"install", "install_dst", "install_copy"}
Heads   == {"write_head", "write_erased", "read_head"}
Commits == {"start", "classify", "write_head", "erase", "write_erased", "restore", "end"}
           \cup Logging \cup Installing
Boots   == {"read_head", "erase", "write_erased", "restore"} \cup Installing
PCs     == {"off", "user", "commit", "read_head"} \cup Writing \cup Commits

TypesOK ==
    /\ home \in [Blocks -> Data] /\ slot \in [Slot -> Data] /\ header \in Seq(Blocks)
    /\ data \in [Blocks -> Data] /\ dirty \subseteq Blocks
    /\ cached \subseteq Block /\ IsFiniteSet(cached) /\ Cardinality(cached) <= NBUF
    /\ held \in [Proc -> Seq(Block)] /\ waits \subseteq Proc
    /\ lh \in Seq(Blocks) /\ committing \in BOOLEAN /\ inop \subseteq Writers
    /\ outstanding = Cardinality(inop)
    /\ pc \in [Proc -> PCs] /\ tail \in Nat
    /\ todo \in Seq(Blocks) /\ noref \in Seq(Blocks) /\ ref \in Seq(Blocks)
    /\ booting \in BOOLEAN /\ panic \in BOOLEAN

\* Who may be where.
Places ==
    /\ \A p \in Proc :
         IF booting THEN pc[p] \in (IF p = Booter THEN Boots ELSE {"off"})
         ELSE /\ pc[p] \notin {"off", "read_head"}
              /\ pc[p] # "user" => p \in Writers \cup Syncers
              /\ pc[p] \in Writing \cup {"classify"} => p \in inop
              /\ pc[p] \in Commits => committing
    /\ ~ booting /\ committing => \E p \in Proc : pc[p] \in Commits
    /\ booting => inop = {} /\ ~ committing

\* How many buffers a process holds for the log itself.
Extra(p) ==
    CASE pc[p] \in {"log_from", "install_dst"} -> 1
      [] pc[p] \in {"log_copy", "install_copy"} -> 2
      [] pc[p] \in Heads /\ HeaderBlock \in Holds(p) -> 1
      [] OTHER -> 0

Base(p) == Len(held[p]) - Extra(p)

\* Those it holds for a call come first.
StackOK(p) ==
    /\ Base(p) \in Nat
    /\ \A i \in 1 .. Base(p) : held[p][i] \in Blocks
    /\ Extra(p) > 0 => held[p][Base(p) + 1] = (IF pc[p] \in Heads THEN HeaderBlock ELSE tail + 1)
    /\ Extra(p) = 2 => held[p][Base(p) + 2] = lh[tail + 1]
    /\ p \in waits => pc[p] \in {"user", "log_copy", "install_copy"} /\ Len(held[p]) > 0
    /\ pc[p] # "user" => (Base(p) > 0 <=> p \in inop)
    /\ pc[p] \in Logging \cup Installing \cup {"write_head"} =>
         \A i \in 1 .. Base(p) : held[p][i] \notin ToSet(lh)

Stacks == \A p \in Proc : StackOK(p)

\* What is in use, or dirty, has a buffer.
Pinned == dirty \subseteq cached /\ (~ panic => Referred \subseteq cached)

\* The block that p has changed and not given to the log yet.
Changes(p, b) == p \in inop /\ pc[p] # "user" /\ b = held[p][Base(p)]

Coherent ==
    \A b \in (cached \cap Blocks) \ dirty :
        data[b] = home[b] \/ \E p \in Proc : Changes(p, b)

\* The lists of the log have a block once, and no block in common.
Apart(s, t) == ToSet(s) \cap ToSet(t) = {}

Lists ==
    /\ IsInjective(header) /\ Len(header) <= LOGSIZE
    /\ IsInjective(lh) /\ IsInjective(noref) /\ IsInjective(ref) /\ IsInjective(todo)

-----------------------------------------------------------------------------
(* What is on the disk, by where the committer is *)

\* Nothing is on its way to the disk.
Quiet == header = <<>> /\ dirty = ToSet(lh)

Later(n) == {lh[i] : i \in n + 1 .. Len(lh)}

\* The first n blocks of the log are on the disk.
Logged(n) ==
    /\ header = <<>> /\ dirty = ToSet(lh) \cup ToSet(ref) /\ Apart(lh, ref)
    /\ n <= Len(lh) /\ \A i \in 1 .. n : slot[i] = data[lh[i]]

\* The first n have been installed.
Placed(n) ==
    /\ header = lh /\ n <= Len(lh) /\ Apart(lh, ref)
    /\ dirty = (IF booting THEN {} ELSE Later(n)) \cup ToSet(ref)
    /\ \A i \in 1 .. n : home[lh[i]] = slot[i]
    /\ ~ booting => \A i \in n + 1 .. Len(lh) : data[lh[i]] = slot[i]

Split ==
    /\ Apart(noref, ref) /\ Apart(noref, todo) /\ Apart(ref, todo)
    /\ ToSet(noref) \cup ToSet(ref) \cup ToSet(todo) = ToSet(lh)

Phase(p) ==
    /\ pc[p] = "start" => Quiet
    /\ pc[p] = "classify" => Quiet /\ Split /\ tail = 0
                             /\ \A i \in 1 .. Base(p) : held[p][i] \notin ToSet(noref)
    /\ pc[p] \in Logging => Logged(tail) /\ (pc[p] # "write_log" => tail < Len(lh))
    /\ pc[p] = "write_head" => Logged(Len(lh))
    /\ pc[p] \in Installing => Placed(tail) /\ (pc[p] # "install" => tail < Len(lh))
    /\ pc[p] = "erase" => Placed(Len(lh))
    /\ pc[p] = "write_erased" =>
         /\ lh = <<>> /\ dirty = ToSet(ref)
         /\ \A i \in 1 .. Len(header) : home[header[i]] = slot[i]
    /\ pc[p] = "restore" => lh = <<>> /\ header = <<>> /\ dirty = ToSet(ref)
    /\ pc[p] = "end" => Quiet /\ (p \notin inop => lh = <<>>)
    /\ pc[p] = "read_head" => lh = <<>> /\ dirty = {} /\ tail = 0
    /\ pc[p] \in Commits \ {"start"} /\ p \notin inop => ref = <<>>

Phases ==
    /\ \A p \in Proc : Phase(p)
    /\ ~ booting /\ ~ committing => Quiet
    /\ booting => ref = <<>>

IInv == TypesOK /\ Places /\ Stacks /\ Pinned /\ Coherent /\ Lists /\ Phases

-----------------------------------------------------------------------------
(* Who acts *)

\* The process that writes and syncs, or recovers.
Actor(p) == IF booting THEN p = Booter ELSE p \in Writers \cup Syncers

LEMMA Busy ==
    ASSUME Places, NEW p \in Proc, pc[p] \notin {"user", "off"}
    PROVE  Actor(p)
  BY DEF Places, Actor

LEMMA Idle ==
    ASSUME Alone, Places, inop \subseteq Writers, NEW p \in Proc, Actor(p), NEW q \in Proc, q # p
    PROVE  pc[q] \in {"user", "off"} /\ q \notin inop
  BY DEF Places, Actor, Alone

\* Only the actor is in an operation or out of user mode.
LEMMA InOp ==
    ASSUME TypesOK, Places, NEW p \in inop
    PROVE  p \in Proc /\ Actor(p) /\ ~ booting
  BY LogAssumption DEF TypesOK, Places, Actor

LEMMA NoExtra ==
    ASSUME TypesOK, NEW p \in Proc, StackOK(p), Extra(p) = 0
    PROVE  /\ Base(p) = Len(held[p]) /\ Len(held[p]) \in Nat /\ held[p] \in Seq(Blocks)
           /\ HeaderBlock \notin Holds(p)
  <1>1. held[p] \in Seq(Block) /\ Len(held[p]) \in Nat
    BY DEF TypesOK
  <1>2. Base(p) = Len(held[p])
    BY <1>1 DEF Base
  <1>3. \A i \in 1 .. Len(held[p]) : held[p][i] \in Blocks
    BY <1>2 DEF StackOK
  <1>4. held[p] \in Seq(Blocks)
    BY <1>1, <1>3
  <1>5. HeaderBlock \notin Blocks
    BY LogAssumption DEF HeaderBlock
  <1>6. HeaderBlock \notin Holds(p)
    BY <1>4, <1>5, Elements DEF Holds
  <1> QED BY <1>1, <1>2, <1>4, <1>6

\* A step that takes no buffer for the log and gives none back.
LEMMA PlainStack ==
    ASSUME TypesOK, NEW p \in Proc, StackOK(p), Extra(p) = 0, held'[p] = held[p],
           NEW l, pc'[p] = l, l \notin {"log_from", "log_copy", "install_dst", "install_copy"},
           p \in waits' => l = "user" /\ Len(held[p]) > 0,
           l # "user" => (Len(held[p]) > 0 <=> p \in inop'),
           l \in {"write_log", "install", "write_head"} => Apart(held[p], lh')
    PROVE  /\ StackOK(p)' /\ Extra(p)' = 0 /\ Base(p)' = Base(p)
  <1>1. /\ Base(p) = Len(held[p]) /\ Len(held[p]) \in Nat /\ held[p] \in Seq(Blocks)
        /\ HeaderBlock \notin Holds(p)
    BY NoExtra
  <1>2. Holds(p)' = Holds(p)
    BY DEF Holds
  <1>3. Extra(p)' = 0
    BY <1>1, <1>2 DEF Extra, HeaderBlock
  <1>4. Base(p)' = Len(held[p])
    BY <1>1, <1>3 DEF Base
  <1>5. \A i \in 1 .. Len(held[p]) : held[p][i] \in Blocks /\ held[p][i] \in ToSet(held[p])
    BY <1>1, Elements
  <1>6. l \in Logging \cup Installing \cup {"write_head"} =>
            \A i \in 1 .. Len(held[p]) : held[p][i] \notin ToSet(lh')
    BY <1>5 DEF Apart, Logging, Installing
  <1> QED BY <1>1, <1>3, <1>4, <1>5, <1>6 DEF StackOK

LEMMA UserStack ==
    ASSUME TypesOK, NEW q \in Proc, StackOK(q), pc[q] \in {"user", "off"},
           held'[q] = held[q], pc'[q] = pc[q], q \in waits' <=> q \in waits,
           q \in inop' <=> q \in inop
    PROVE  StackOK(q)' /\ Extra(q)' = 0 /\ Base(q)' = Base(q)
  <1>1. Extra(q) = 0
    BY DEF Extra, Heads
  <1>2. pc[q] = "off" => q \notin waits
    BY DEF StackOK
  <1>3. q \in waits => Len(held[q]) > 0
    BY DEF StackOK
  <1>4. /\ q \in waits' => pc[q] = "user" /\ Len(held[q]) > 0
        /\ pc[q] # "user" => (Len(held[q]) > 0 <=> q \in inop')
    <2>1. Base(q) = Len(held[q])
      BY <1>1, NoExtra
    <2> QED BY <1>2, <1>3, <2>1 DEF StackOK
  <1> QED BY <1>1, <1>4, PlainStack

LEMMA UserPhase ==
    ASSUME NEW q, pc[q] \in {"user", "off"}
    PROVE  Phase(q)
  BY DEF Phase, Logging, Installing, Commits

-----------------------------------------------------------------------------
(* A step of the actor *)

LEMMA ActorStep ==
    ASSUME Alone, IInv, NEW p \in Proc, Actor(p), booting' = booting,
           NEW l, pc' = [pc EXCEPT ![p] = l],
           \A q \in Proc : q # p => /\ held'[q] = held[q] /\ (q \in waits' <=> q \in waits)
                                    /\ q \in inop' <=> q \in inop,
           TypesOK',
           IF booting THEN l \in Boots /\ inop' = {} /\ ~ committing' /\ ref' = <<>>
           ELSE /\ l \notin {"off", "read_head"} /\ (l \in Writing \cup {"classify"} => p \in inop')
                /\ l \in Commits <=> committing',
           StackOK(p)', Pinned', Coherent', Lists', Phase(p)',
           ~ booting /\ ~ committing' => Quiet'
    PROVE  IInv'
  <1>1. pc \in [Proc -> PCs] /\ Places /\ Stacks /\ inop \subseteq Writers /\ TypesOK
    BY DEF IInv, TypesOK
  <1>2. pc'[p] = l /\ \A q \in Proc : q # p => pc'[q] = pc[q]
    BY <1>1
  <1>3. \A q \in Proc : q # p => pc[q] \in {"user", "off"}
    BY <1>1, Idle
  <1>4. Stacks'
    <2>1. ASSUME NEW q \in Proc, q # p PROVE StackOK(q)'
      BY <1>1, <1>2, <1>3, <2>1, UserStack DEF Stacks
    <2> QED BY <2>1 DEF Stacks
  <1>5. \A q \in Proc : Phase(q)'
    <2>1. ASSUME NEW q \in Proc, q # p PROVE Phase(q)'
      <3>1. pc'[q] \in {"user", "off"}
        BY <1>2, <1>3, <2>1
      <3> QED BY <3>1 DEF Phase, Logging, Installing, Commits
    <2> QED BY <2>1
  <1>6. Places'
    <2>1. CASE booting
      BY <1>1, <1>2, <2>1 DEF Places, Actor
    <2>2. CASE ~ booting
      <3>1. \A q \in Proc : q # p => pc'[q] = "user"
        BY <1>1, <1>2, <1>3, <2>2 DEF Places
      <3>2. l \notin {"off", "read_head"} /\ (l \in Writing \cup {"classify"} => p \in inop')
            /\ (l \in Commits <=> committing') /\ p \in Writers \cup Syncers
        BY <2>2 DEF Actor
      <3>3. "user" \notin Writing \cup {"classify"} /\ "user" \notin Commits
        BY DEF Writing, Commits, Logging, Installing
      <3> QED BY <1>2, <2>2, <3>1, <3>2, <3>3 DEF Places
    <2> QED BY <2>1, <2>2
  <1> QED BY <1>4, <1>5, <1>6 DEF IInv, Phases

\* The buffers are as before, and what the actor has changed too.
LEMMA CoherentKept ==
    ASSUME Coherent, TypesOK, UNCHANGED <<home, data>>, NEW p \in Proc,
           (cached' \cap Blocks) \ dirty' \subseteq (cached \cap Blocks) \ dirty,
           \A q \in Proc : q # p => ~ (q \in inop /\ pc[q] # "user"),
           pc[p] # "user" /\ p \in inop =>
              /\ p \in inop' /\ pc'[p] # "user" /\ held'[p][Base(p)'] = held[p][Base(p)]
    PROVE  Coherent'
  <1>1. SUFFICES ASSUME NEW b \in (cached' \cap Blocks) \ dirty'
                 PROVE  data[b] = home[b] \/ \E q \in Proc : Changes(q, b)'
    BY DEF Coherent
  <1>2. data[b] = home[b] \/ \E q \in Proc : Changes(q, b)
    BY DEF Coherent
  <1>3. ASSUME NEW q \in Proc, Changes(q, b) PROVE Changes(p, b)'
    <2>1. q = p
      BY <1>3 DEF Changes
    <2> QED BY <1>3, <2>1 DEF Changes
  <1> QED BY <1>2, <1>3

-----------------------------------------------------------------------------
(* What others do while the committer is where it is *)

LEMMA StackSame ==
    ASSUME NEW q \in Proc, StackOK(q), held'[q] = held[q], pc'[q] = pc[q],
           UNCHANGED <<lh, tail>>, q \in waits' => q \in waits, q \in inop' <=> q \in inop
    PROVE  /\ StackOK(q)' /\ Extra(q)' = Extra(q) /\ Base(q)' = Base(q)
  <1>1. Holds(q)' = Holds(q)
    BY DEF Holds
  <1>2. Extra(q)' = Extra(q)
    BY <1>1 DEF Extra, HeaderBlock
  <1>3. Base(q)' = Base(q)
    BY <1>2 DEF Base
  <1> QED BY <1>2, <1>3 DEF StackOK, HeaderBlock

\* The dirty blocks are as before, and so is the disk.
LEMMA DiskKept ==
    ASSUME TypesOK, UNCHANGED <<home, slot, header, dirty, lh, tail, todo, noref, ref, booting>>,
           \A x \in dirty : data'[x] = data[x]
    PROVE  /\ Logged(tail) => Logged(tail)'
           /\ Logged(Len(lh)) => Logged(Len(lh))'
           /\ Placed(tail) => Placed(tail)'
           /\ Placed(Len(lh)) => Placed(Len(lh))'
           /\ Quiet => Quiet'
           /\ Split => Split'
  <1>0. lh \in Seq(Blocks) /\ tail \in Nat /\ Len(lh) \in Nat
    BY DEF TypesOK
  <1>1. \A i \in 1 .. Len(lh) : lh[i] \in ToSet(lh)
    BY <1>0, Elements
  <1>2. Logged(tail) => Logged(tail)'
    <2>1. SUFFICES ASSUME Logged(tail) PROVE \A i \in 1 .. tail : slot[i] = data'[lh[i]]
      BY DEF Logged, Apart
    <2>2. \A i \in 1 .. tail : lh[i] \in dirty
      BY <1>0, <1>1, <2>1 DEF Logged
    <2> QED BY <2>1, <2>2 DEF Logged
  <1>3. Logged(Len(lh)) => Logged(Len(lh))'
    <2>1. SUFFICES ASSUME Logged(Len(lh)) PROVE \A i \in 1 .. Len(lh) : slot[i] = data'[lh[i]]
      BY DEF Logged, Apart
    <2>2. \A i \in 1 .. Len(lh) : lh[i] \in dirty
      BY <1>0, <1>1, <2>1 DEF Logged
    <2> QED BY <2>1, <2>2 DEF Logged
  <1>4. Placed(tail) => Placed(tail)'
    <2>1. SUFFICES ASSUME Placed(tail)
                   PROVE ~ booting => \A i \in tail + 1 .. Len(lh) : data'[lh[i]] = slot[i]
      BY DEF Placed, Apart, Later
    <2>2. ~ booting => \A i \in tail + 1 .. Len(lh) : lh[i] \in dirty
      BY <1>0, <2>1 DEF Placed, Later
    <2> QED BY <2>1, <2>2 DEF Placed
  <1>5. Placed(Len(lh)) => Placed(Len(lh))'
    <2>1. SUFFICES ASSUME Placed(Len(lh))
                   PROVE ~ booting => \A i \in Len(lh) + 1 .. Len(lh) : data'[lh[i]] = slot[i]
      BY DEF Placed, Apart, Later
    <2> QED BY <1>0
  <1>6. (Quiet => Quiet') /\ (Split => Split')
    BY DEF Quiet, Split, Apart
  <1> QED BY <1>2, <1>3, <1>4, <1>5, <1>6

LEMMA PhaseKept ==
    ASSUME TypesOK, NEW q \in Proc, Phase(q), pc'[q] = pc[q],
           UNCHANGED <<home, slot, header, dirty, lh, tail, todo, noref, ref, booting>>,
           q \in inop' <=> q \in inop,
           pc[q] = "classify" => held'[q] = held[q] /\ Base(q)' = Base(q),
           \A x \in dirty : data'[x] = data[x]
    PROVE  Phase(q)'
  <1>1. /\ Logged(tail) => Logged(tail)'
        /\ Logged(Len(lh)) => Logged(Len(lh))'
        /\ Placed(tail) => Placed(tail)'
        /\ Placed(Len(lh)) => Placed(Len(lh))'
        /\ Quiet => Quiet'
        /\ Split => Split'
    BY DiskKept
  <1> HIDE DEF Logged, Placed, Quiet, Split
  <1> QED BY <1>1 DEF Phase

LEMMA StillStep ==
    ASSUME IInv, NEW p \in Proc,
           UNCHANGED <<home, slot, header, dirty, lh, outstanding, committing, inop, pc,
                       tail, todo, noref, ref, booting>>,
           \A q \in Proc : q # p => held'[q] = held[q] /\ (q \in waits' => q \in waits),
           TypesOK', Pinned', StackOK(p)',
           pc[p] \in {"user", "off"} \/ (held'[p] = held[p] /\ Base(p)' = Base(p)),
           \A x \in (cached' \cap Blocks) \ dirty :
                data'[x] = home[x] \/ (x \in cached /\ data'[x] = data[x]),
           \A x \in dirty : data'[x] = data[x]
    PROVE  IInv'
  <1>0. TypesOK /\ Places /\ Stacks /\ Coherent /\ Lists /\ Phases
    BY DEF IInv
  <1>1. \A q \in Proc : q # p => StackOK(q)' /\ Base(q)' = Base(q)
    BY <1>0, StackSame DEF Stacks
  <1>2. Stacks'
    BY <1>1 DEF Stacks
  <1>3. ASSUME NEW q \in Proc PROVE Phase(q)'
    <2>1. pc[q] = "classify" => held'[q] = held[q] /\ Base(q)' = Base(q)
      BY <1>1
    <2>2. Phase(q)
      BY <1>0 DEF Phases
    <2> QED BY <1>0, <2>1, <2>2, PhaseKept
  <1>4. Phases'
    BY <1>0, <1>3 DEF Phases, Quiet
  <1>5. Coherent'
    <2>1. SUFFICES ASSUME NEW x \in (cached' \cap Blocks) \ dirty
                   PROVE  data'[x] = home[x] \/ \E q \in Proc : Changes(q, x)'
      BY DEF Coherent
    <2>2. CASE x \in cached /\ data'[x] = data[x]
      <3>1. data[x] = home[x] \/ \E q \in Proc : Changes(q, x)
        BY <1>0, <2>2 DEF Coherent
      <3>2. ASSUME NEW q \in Proc, Changes(q, x) PROVE Changes(q, x)'
        <4>1. pc[q] # "user" /\ pc[q] # "off"
          <5>1. q \in inop /\ pc[q] # "user"
            BY <3>2 DEF Changes
          <5> QED BY <1>0, <5>1 DEF Places
        <4>2. held'[q] = held[q] /\ Base(q)' = Base(q)
          BY <1>1, <4>1
        <4> QED BY <3>2, <4>2 DEF Changes
      <3> QED BY <2>2, <3>1, <3>2
    <2> QED BY <2>1, <2>2
  <1>6. Places' /\ Lists'
    BY <1>0 DEF Places, Lists
  <1> QED BY <1>2, <1>4, <1>5, <1>6 DEF IInv

-----------------------------------------------------------------------------
(* The buffer cache *)

LEMMA BgetDoes ==
    ASSUME TypesOK, Pinned, ~ panic, NEW p \in Proc, NEW b \in Block, Bget(p, b), UNCHANGED home
    PROVE  /\ held'[p] = Append(held[p], b) /\ held' \in [Proc -> Seq(Block)]
           /\ \A q \in Proc : q # p => held'[q] = held[q]
           /\ dirty' = dirty
           /\ cached' \subseteq Block /\ IsFiniteSet(cached') /\ Cardinality(cached') <= NBUF
           /\ data' \in [Blocks -> Data] /\ panic' \in BOOLEAN
           /\ Pinned'
           /\ \A x \in (cached' \cap Blocks) \ dirty :
                data'[x] = home[x] \/ (x \in cached /\ data'[x] = data[x])
           /\ \A x \in cached \cap Blocks : data'[x] = data[x]
           /\ \A x \in Blocks : x \in cached' => x \in cached \/ data'[x] = home[x]
           /\ \A x \in Blocks : x \in cached /\ x \notin cached' => x \notin Referred \cup dirty
  <1>0. /\ held \in [Proc -> Seq(Block)] /\ cached \subseteq Block /\ IsFiniteSet(cached)
        /\ Cardinality(cached) <= NBUF /\ dirty \subseteq cached /\ Referred \subseteq cached
        /\ data \in [Blocks -> Data] /\ home \in [Blocks -> Data] /\ panic = FALSE
        /\ dirty \subseteq Blocks
    BY DEF TypesOK, Pinned
  <1>1. /\ held'[p] = Append(held[p], b) /\ held' \in [Proc -> Seq(Block)]
        /\ \A q \in Proc : q # p => held'[q] = held[q]
        /\ dirty' = dirty
    BY <1>0 DEF Bget
  <1>2. Referred' \subseteq Referred \cup {b}
    <2>1. ASSUME NEW q \in Proc PROVE Holds(q)' \subseteq Holds(q) \cup {b}
      <3>1. CASE q = p
        <4>1. held[p] \in Seq(Block)
          BY <1>0
        <4>2. ToSet(Append(held[p], b)) = ToSet(held[p]) \cup {b}
          BY <4>1, AppendFacts
        <4> QED BY <1>1, <3>1, <4>2 DEF Holds
      <3>2. CASE q # p
        BY <1>1, <3>2 DEF Holds
      <3> QED BY <3>1, <3>2
    <2> QED BY <2>1 DEF Referred
  <1>3. CASE b \in cached /\ UNCHANGED <<cached, data, panic>>
    <2>1. Pinned'
      BY <1>0, <1>1, <1>2, <1>3 DEF Pinned
    <2> QED BY <1>0, <1>1, <1>3, <2>1
  <1>4. CASE b \notin cached /\ panic' = TRUE /\ UNCHANGED <<cached, data>>
    <2>1. Pinned'
      BY <1>0, <1>1, <1>4 DEF Pinned
    <2> QED BY <1>0, <1>1, <1>4, <2>1
  <1>5. CASE /\ b \notin cached /\ UNCHANGED panic
             /\ data' = (IF b \in Blocks THEN [data EXCEPT ![b] = home[b]] ELSE data)
             /\ \/ Cardinality(cached) < NBUF /\ cached' = cached \cup {b}
                \/ /\ Cardinality(cached) = NBUF
                   /\ \E v \in Spare : cached' = (cached \ {v}) \cup {b}
    <2>1. data' \in [Blocks -> Data] /\ (\A x \in Blocks : x # b => data'[x] = data[x])
          /\ (b \in Blocks => data'[b] = home[b])
      BY <1>0, <1>5
    <2>2. PICK V : V \cap (Referred \cup dirty) = {} /\ cached' = (cached \ V) \cup {b}
                   /\ IsFiniteSet(cached') /\ Cardinality(cached') <= NBUF
      <3>1. CASE Cardinality(cached) < NBUF /\ cached' = cached \cup {b}
        <4>1. IsFiniteSet(cached') /\ Cardinality(cached') = Cardinality(cached) + 1
          BY <1>0, <1>5, <3>1, FS_AddElement
        <4>2. Cardinality(cached) \in Nat /\ NBUF \in Nat
          BY <1>0, FS_CardinalityType, LogAssumption
        <4>3. {} \cap (Referred \cup dirty) = {} /\ cached' = (cached \ {}) \cup {b}
          BY <3>1
        <4>4. Cardinality(cached') <= NBUF
          BY <3>1, <4>1, <4>2
        <4> QED BY <4>1, <4>3, <4>4
      <3>2. ASSUME Cardinality(cached) = NBUF, NEW v \in Spare, cached' = (cached \ {v}) \cup {b}
            PROVE  \E V : V \cap (Referred \cup dirty) = {} /\ cached' = (cached \ V) \cup {b}
                          /\ IsFiniteSet(cached') /\ Cardinality(cached') <= NBUF
        <4>1. v \in cached /\ v \notin Referred /\ v \notin dirty
          BY DEF Spare
        <4>2. IsFiniteSet(cached \ {v}) /\ Cardinality(cached \ {v}) = NBUF - 1
          BY <1>0, <3>2, <4>1, FS_RemoveElement
        <4>3. IsFiniteSet(cached') /\ Cardinality(cached') = NBUF - 1 + 1
          BY <1>5, <3>2, <4>2, FS_AddElement
        <4>4. NBUF \in Nat
          BY LogAssumption
        <4>5. Cardinality(cached') <= NBUF
          BY <4>3, <4>4
        <4>6. {v} \cap (Referred \cup dirty) = {}
          BY <4>1
        <4> QED BY <3>2, <4>3, <4>5, <4>6
      <3> QED BY <1>5, <3>1, <3>2
    <2>3. Pinned'
      BY <1>0, <1>1, <1>2, <2>2 DEF Pinned
    <2>4. cached' \subseteq Block /\ panic' \in BOOLEAN
      BY <1>0, <1>5, <2>2
    <2>5. \A x \in cached \cap Blocks : data'[x] = data[x]
      BY <1>5, <2>1
    <2>6. \A x \in Blocks : x \in cached' => x \in cached \/ data'[x] = home[x]
      BY <2>1, <2>2
    <2> QED BY <1>1, <2>1, <2>2, <2>3, <2>4, <2>5, <2>6
  <1> QED BY <1>3, <1>4, <1>5 DEF Bget

LEMMA BreadKeeps ==
    ASSUME IInv, NEW p \in Proc, NEW b \in Blocks, Bread(p, b)
    PROVE  IInv'
  <1>0. TypesOK /\ Pinned /\ ~ panic /\ Stacks /\ pc[p] = "user" /\ b \in Block
    BY DEF IInv, Bread, At, Block
  <1>1. Bget(p, b) /\ waits' = waits \cup {p} /\ UNCHANGED <<disk, log, inop, pc, frame, booting>>
    BY DEF Bread, BreadHome
  <1>2. UNCHANGED <<home, slot, header, lh, outstanding, committing, inop, pc,
                       tail, todo, noref, ref, booting>>
    BY <1>1 DEF disk, log, frame
  <1>3. /\ held'[p] = Append(held[p], b) /\ held' \in [Proc -> Seq(Block)]
        /\ \A q \in Proc : q # p => held'[q] = held[q]
        /\ dirty' = dirty
        /\ cached' \subseteq Block /\ IsFiniteSet(cached') /\ Cardinality(cached') <= NBUF
        /\ data' \in [Blocks -> Data] /\ panic' \in BOOLEAN
        /\ Pinned'
        /\ \A x \in (cached' \cap Blocks) \ dirty :
                data'[x] = home[x] \/ (x \in cached /\ data'[x] = data[x])
        /\ \A x \in cached \cap Blocks : data'[x] = data[x]
    BY <1>0, <1>1, <1>2, BgetDoes
  <1>4. TypesOK'
    BY <1>0, <1>1, <1>2, <1>3 DEF TypesOK
  <1>5. StackOK(p)'
    <2>1. Extra(p) = 0 /\ StackOK(p) /\ Extra(p)' = 0
      BY <1>0, <1>2 DEF Extra, Heads, Stacks
    <2>2. Len(held[p]) \in Nat /\ held[p] \in Seq(Blocks)
      BY <1>0, <2>1, NoExtra
    <2>3. held'[p] \in Seq(Blocks) /\ Len(held'[p]) = Len(held[p]) + 1
      BY <1>3, <2>2
    <2>4. Base(p)' = Len(held[p]) + 1
      BY <2>1, <2>2, <2>3 DEF Base
    <2> QED BY <1>0, <1>2, <2>1, <2>2, <2>3, <2>4 DEF StackOK, Logging, Installing
  <1>6. \A x \in dirty : data'[x] = data[x]
    BY <1>0, <1>3 DEF TypesOK, Pinned
  <1> QED BY <1>0, <1>1, <1>2, <1>3, <1>4, <1>5, <1>6, StillStep

LEMMA BrelseTopKeeps ==
    ASSUME IInv, NEW p \in Proc, BrelseTop(p)
    PROVE  IInv'
  <1>0. TypesOK /\ Pinned /\ ~ panic /\ Stacks /\ pc[p] = "user" /\ p \notin waits /\ held[p] # <<>>
    BY DEF IInv, BrelseTop, At
  <1>1. /\ UNCHANGED <<home, slot, header, lh, outstanding, committing, inop, pc, waits,
                       tail, todo, noref, ref, booting, cached, data, dirty, panic>>
        /\ held' = [held EXCEPT ![p] = SubSeq(@, 1, Len(@) - 1)]
    BY DEF BrelseTop, Brelse, disk, log, frame, cache
  <1>2. Extra(p) = 0 /\ StackOK(p) /\ Extra(p)' = 0
    BY <1>0, <1>1 DEF Extra, Heads, Stacks
  <1>3. Len(held[p]) \in Nat /\ held[p] \in Seq(Blocks) /\ held \in [Proc -> Seq(Block)]
    BY <1>0, <1>2, NoExtra DEF TypesOK
  <1>4. Len(held[p]) - 1 \in Nat
    BY <1>0, <1>3
  <1>5. /\ held'[p] = SubSeq(held[p], 1, Len(held[p]) - 1)
        /\ \A q \in Proc : q # p => held'[q] = held[q]
    BY <1>1, <1>3
  <1>6. held'[p] \in Seq(Blocks) /\ Len(held'[p]) = Len(held[p]) - 1
        /\ \A i \in 1 .. Len(held[p]) - 1 : held'[p][i] = held[p][i]
    <2> DEFINE s == held[p]
               n == Len(held[p]) - 1
    <2>1. s \in Seq(Blocks) /\ n \in Nat /\ n <= Len(s)
      BY <1>3, <1>4
    <2>2. held'[p] = SubSeq(s, 1, n)
      BY <1>5
    <2> HIDE DEF s, n
    <2>3. SubSeq(s, 1, n) \in Seq(Blocks) /\ Len(SubSeq(s, 1, n)) = n
          /\ \A i \in 1 .. n : SubSeq(s, 1, n)[i] = s[i]
      BY <2>1
    <2> QED BY <2>2, <2>3 DEF s, n
  <1>7. held' \in [Proc -> Seq(Block)]
    BY <1>1, <1>3, <1>5, <1>6 DEF Block
  <1>8. TypesOK'
    BY <1>0, <1>1, <1>7 DEF TypesOK
  <1>9. Pinned'
    <2>1. Holds(p)' \subseteq Holds(p)
      BY <1>3, <1>4, <1>6, Elements DEF Holds
    <2>2. \A q \in Proc : Holds(q)' \subseteq Holds(q)
      BY <1>5, <2>1 DEF Holds
    <2>3. Referred' \subseteq Referred
      BY <2>2 DEF Referred
    <2> QED BY <1>0, <1>1, <2>3 DEF Pinned
  <1>10. StackOK(p)'
    <2>1. Base(p)' = Len(held[p]) - 1
      BY <1>2, <1>4, <1>6 DEF Base
    <2> QED BY <1>0, <1>1, <1>2, <1>4, <1>6, <2>1 DEF StackOK, Logging, Installing
  <1> QED BY <1>0, <1>1, <1>5, <1>8, <1>9, <1>10, StillStep

LEMMA AcquireKeeps ==
    ASSUME IInv, NEW p \in Proc, Acquire(p)
    PROVE  IInv'
  <1>0. TypesOK /\ Pinned /\ Stacks /\ StackOK(p)
    BY DEF IInv, Stacks
  <1>1. /\ UNCHANGED <<home, slot, header, lh, outstanding, committing, inop, pc, held,
                       tail, todo, noref, ref, booting, cached, data, dirty, panic>>
        /\ waits' \subseteq waits
    BY DEF Acquire, disk, log, frame, cache
  <1>2. TypesOK' /\ Pinned'
    BY <1>0, <1>1 DEF TypesOK, Pinned, Referred, Holds
  <1>3. StackOK(p)' /\ Base(p)' = Base(p)
    BY <1>0, <1>1, StackSame
  <1> QED BY <1>1, <1>2, <1>3, StillStep

-----------------------------------------------------------------------------
(* The system calls and log_write() *)

LEMMA Solo ==
    ASSUME Alone, IInv, NEW p \in Proc, Actor(p)
    PROVE  /\ \A q \in Proc : q # p => pc[q] \in {"user", "off"} /\ q \notin inop
           /\ ~ booting => (committing <=> pc[p] \in Commits)
           /\ ~ booting /\ pc[p] \notin Commits => Quiet
           /\ inop \subseteq {p} /\ IsFiniteSet(inop)
           /\ p \in inop => outstanding = 1
           /\ p \notin inop => outstanding = 0
  <1>0. TypesOK /\ Places /\ Phases /\ inop \subseteq Writers /\ inop \subseteq Proc
    BY LogAssumption DEF IInv, TypesOK
  <1>1. \A q \in Proc : q # p => pc[q] \in {"user", "off"} /\ q \notin inop
    BY <1>0, Idle
  <1>2. ~ booting => (committing <=> pc[p] \in Commits)
    <2>1. {"user", "off"} \cap Commits = {}
      BY DEF Commits, Logging, Installing
    <2> QED BY <1>0, <1>1, <2>1 DEF Places
  <1>3. ~ booting /\ pc[p] \notin Commits => Quiet
    BY <1>0, <1>2 DEF Phases
  <1>4. inop \subseteq {p}
    BY <1>0, <1>1
  <1>5. inop = {} \/ inop = {p}
    BY <1>4
  <1>6. IsFiniteSet(inop)
    BY <1>5, FS_EmptySet, FS_Singleton
  <1>7. /\ p \in inop => outstanding = 1
        /\ p \notin inop => outstanding = 0
    BY <1>0, <1>5, FS_EmptySet, FS_Singleton DEF TypesOK
  <1> QED BY <1>1, <1>2, <1>3, <1>4, <1>6, <1>7

\* A step that leaves the buffers and the disk alone.
LEMMA MoveStep ==
    ASSUME Alone, IInv, NEW p \in Proc, Actor(p), Extra(p) = 0, p \notin waits,
           UNCHANGED <<home, slot, header, cached, data, dirty, held, waits, panic, booting>>,
           NEW l, pc' = [pc EXCEPT ![p] = l],
           l \notin {"log_from", "log_copy", "install_dst", "install_copy"},
           \A q \in Proc : q # p => (q \in inop' <=> q \in inop),
           TypesOK',
           IF booting THEN l \in Boots /\ inop' = {} /\ ~ committing' /\ ref' = <<>>
           ELSE /\ l \notin {"off", "read_head"} /\ (l \in Writing \cup {"classify"} => p \in inop')
                /\ l \in Commits <=> committing',
           l # "user" => (Len(held[p]) > 0 <=> p \in inop'),
           p \in inop /\ pc[p] # "user" => p \in inop' /\ l # "user",
           l \in {"write_log", "install", "write_head"} => Apart(held[p], lh'),
           Lists', StackOK(p)' /\ Base(p)' = Base(p) => Phase(p)',
           ~ booting /\ ~ committing' => Quiet'
    PROVE  IInv'
  <1>0. TypesOK /\ Pinned /\ Coherent /\ StackOK(p) /\ pc'[p] = l
    BY DEF IInv, TypesOK, Stacks
  <1>1. StackOK(p)' /\ Base(p)' = Base(p)
    BY <1>0, PlainStack
  <1>2. Pinned'
    BY <1>0 DEF Pinned, Referred, Holds
  <1>3. \A q \in Proc : q # p => ~ (q \in inop /\ pc[q] # "user")
    BY Solo
  <1>4. Coherent'
    BY <1>0, <1>1, <1>3, CoherentKept
  <1> QED BY <1>1, <1>2, <1>4, ActorStep

LEMMA BeginOpKeeps ==
    ASSUME Alone, IInv, NEW p \in Proc, BeginOp(p)
    PROVE  IInv'
  <1>0. TypesOK /\ Places /\ Lists /\ pc[p] = "user" /\ p \notin waits
    BY DEF IInv, BeginOp, At
  <1>1. /\ UNCHANGED <<home, slot, header, cached, data, dirty, held, waits, panic, booting,
                       lh, committing, pc, tail, todo, noref, ref>>
        /\ p \in Writers /\ p \notin inop /\ ~ committing
        /\ inop' = inop \cup {p} /\ outstanding' = outstanding + 1
    BY DEF BeginOp, disk, cache, frame
  <1>2. ~ booting /\ Actor(p) /\ Extra(p) = 0
    BY <1>0, <1>1 DEF Places, Boots, Installing, Actor, Extra, Heads
  <1>3. inop' = {p} /\ outstanding = 0 /\ Quiet
    BY <1>0, <1>1, <1>2, Solo DEF Commits, Logging, Installing
  <1>4. Cardinality(inop') = 1
    BY <1>3, FS_Singleton
  <1>5. TypesOK'
    <2>1. inop' \subseteq Writers /\ outstanding' = Cardinality(inop')
      BY <1>0, <1>1, <1>3, <1>4
    <2> QED BY <1>0, <1>1, <2>1 DEF TypesOK
  <1>6. pc' = [pc EXCEPT ![p] = "user"] /\ pc'[p] = "user"
    BY <1>0, <1>1 DEF TypesOK
  <1>7. Quiet' /\ Lists' /\ Phase(p)'
    BY <1>0, <1>1, <1>3, <1>6 DEF Quiet, Lists, Phase, Logging, Installing, Commits
  <1> QED BY <1>0, <1>1, <1>2, <1>5, <1>6, <1>7, MoveStep DEF Writing, Commits, Logging, Installing

LEMMA EndOpKeeps ==
    ASSUME Alone, IInv, NEW p \in Proc, EndOp(p)
    PROVE  IInv'
  <1>0. TypesOK /\ Places /\ Lists /\ pc[p] = "user" /\ p \notin waits
    BY DEF IInv, EndOp, At
  <1>1. /\ UNCHANGED <<home, slot, header, cached, data, dirty, held, waits, panic, booting,
                       lh, committing, pc, tail, todo, noref, ref>>
        /\ p \in inop
        /\ inop' = inop \ {p} /\ outstanding' = outstanding - 1
    BY DEF EndOp, disk, cache, frame
  <1>2. ~ booting /\ Actor(p) /\ Extra(p) = 0
    BY <1>0, <1>1, InOp DEF Extra, Heads
  <1>3. inop' = {} /\ outstanding = 1 /\ Quiet /\ ~ committing
    BY <1>0, <1>1, <1>2, Solo DEF Commits, Logging, Installing
  <1>4. Cardinality(inop') = 0
    BY <1>3, FS_EmptySet
  <1>5. TypesOK'
    <2>1. inop' \subseteq Writers /\ outstanding' = Cardinality(inop')
      BY <1>1, <1>3, <1>4
    <2> QED BY <1>0, <1>1, <2>1 DEF TypesOK
  <1>6. pc' = [pc EXCEPT ![p] = "user"] /\ pc'[p] = "user"
    BY <1>0, <1>1 DEF TypesOK
  <1>7. Quiet' /\ Lists' /\ Phase(p)'
    BY <1>0, <1>1, <1>3, <1>6 DEF Quiet, Lists, Phase, Logging, Installing, Commits
  <1> QED BY <1>0, <1>1, <1>2, <1>3, <1>5, <1>6, <1>7, MoveStep
          DEF Writing, Commits, Logging, Installing

LEMMA SyncKeeps ==
    ASSUME Alone, IInv, NEW p \in Proc, Sync(p)
    PROVE  IInv'
  <1>0. TypesOK /\ Places /\ Lists /\ pc[p] = "user" /\ p \notin waits
    BY DEF IInv, Sync, At
  <1>1. /\ UNCHANGED <<home, slot, header, cached, data, dirty, held, waits, panic, booting,
                       lh, outstanding, committing, inop, tail, todo, noref, ref>>
        /\ p \in Syncers /\ p \notin inop /\ pc' = [pc EXCEPT ![p] = "commit"]
    BY DEF Sync, disk, cache, log, frame, Goto
  <1>2. ~ booting /\ Actor(p) /\ Extra(p) = 0
    BY <1>0, <1>1 DEF Places, Boots, Installing, Actor, Extra, Heads
  <1>3. Quiet /\ ~ committing
    BY <1>0, <1>2, Solo DEF Commits, Logging, Installing
  <1>4. Len(held[p]) = 0
    BY DEF Sync
  <1>5. TypesOK'
    BY <1>0, <1>1 DEF TypesOK, PCs
  <1>6. pc'[p] = "commit"
    BY <1>0, <1>1 DEF TypesOK
  <1>7. Quiet' /\ Lists' /\ Phase(p)'
    BY <1>0, <1>1, <1>3, <1>6 DEF Quiet, Lists, Phase, Logging, Installing, Commits
  <1>8. ~ (Len(held[p]) > 0) /\ p \notin inop' /\ p \notin inop
    BY <1>1, <1>4
  <1>9. {"commit"} \cap ({"off", "read_head"} \cup Writing \cup {"classify"} \cup Commits) = {}
    BY DEF Writing, Commits, Logging, Installing
  <1> QED BY <1>0, <1>1, <1>2, <1>3, <1>5, <1>6, <1>7, <1>8, <1>9, MoveStep

\* A process in log_write() has the block it changed.
LEMMA HasBlock ==
    ASSUME TypesOK, NEW p \in Proc, StackOK(p), Extra(p) = 0, p \in inop, pc[p] # "user"
    PROVE  Len(held[p]) > 0 /\ Top(p) = held[p][Base(p)] /\ Top(p) \in Blocks /\ Top(p) \in Holds(p)
  <1>1. Base(p) = Len(held[p]) /\ Len(held[p]) \in Nat /\ held[p] \in Seq(Blocks)
    BY NoExtra
  <1>2. Len(held[p]) > 0
    BY <1>1 DEF StackOK
  <1> QED BY <1>1, <1>2, Elements DEF Top, Last, Holds

LEMMA HoldsFor ==
    ASSUME TypesOK, NEW p \in Proc, StackOK(p), Extra(p) = 0, pc[p] # "user"
    PROVE  Len(held[p]) \in Nat /\ (p \in inop <=> Len(held[p]) > 0)
  <1>1. Base(p) = Len(held[p]) /\ Len(held[p]) \in Nat
    BY NoExtra
  <1> QED BY <1>1 DEF StackOK

LEMMA WaitKeeps ==
    ASSUME Alone, IInv, NEW p \in Proc, WaitUntilCommitFinish(p)
    PROVE  IInv'
  <1>0. TypesOK /\ Places /\ Lists /\ pc[p] = "log_write" /\ p \notin waits /\ StackOK(p)
    BY DEF IInv, WaitUntilCommitFinish, At, Stacks
  <1>1. /\ UNCHANGED <<home, slot, header, cached, data, dirty, held, waits, panic, booting,
                       lh, outstanding, committing, inop, tail, todo, noref, ref>>
        /\ ~ committing /\ pc' = [pc EXCEPT ![p] = "check"]
    BY DEF WaitUntilCommitFinish, disk, cache, log, frame, Goto
  <1>2. ~ booting /\ p \in inop /\ Actor(p) /\ Extra(p) = 0
    BY <1>0, Busy DEF Places, Boots, Installing, Extra, Heads, Writing
  <1>3. Quiet /\ Len(held[p]) > 0
    BY <1>0, <1>2, Solo, HasBlock DEF Commits, Logging, Installing
  <1>5. TypesOK'
    BY <1>0, <1>1 DEF TypesOK, PCs, Writing
  <1>6. pc'[p] = "check"
    BY <1>0, <1>1 DEF TypesOK
  <1>7. Quiet' /\ Lists' /\ Phase(p)'
    BY <1>0, <1>1, <1>3, <1>6 DEF Quiet, Lists, Phase, Logging, Installing, Commits
  <1> QED BY <1>0, <1>1, <1>2, <1>3, <1>5, <1>6, <1>7, MoveStep
          DEF Writing, Commits, Logging, Installing

LEMMA CheckKeeps ==
    ASSUME Alone, IInv, NEW p \in Proc, CheckFull(p)
    PROVE  IInv'
  <1>0. TypesOK /\ Places /\ Lists /\ pc[p] = "check" /\ p \notin waits /\ StackOK(p)
    BY DEF IInv, CheckFull, At, Stacks
  <1>1. PICK l \in {"commit", "append"} : pc' = [pc EXCEPT ![p] = l]
    BY DEF CheckFull, Goto
  <1>2. UNCHANGED <<home, slot, header, cached, data, dirty, held, waits, panic, booting,
                    lh, outstanding, committing, inop, tail, todo, noref, ref>>
    BY DEF CheckFull, disk, cache, log, frame, Goto
  <1>3. ~ booting /\ p \in inop /\ Actor(p) /\ Extra(p) = 0
    BY <1>0, Busy DEF Places, Boots, Installing, Extra, Heads, Writing
  <1>4. Quiet /\ Len(held[p]) > 0 /\ ~ committing
    BY <1>0, <1>3, Solo, HasBlock DEF Commits, Logging, Installing
  <1>5. TypesOK'
    BY <1>0, <1>1, <1>2 DEF TypesOK, PCs, Writing
  <1>6. pc'[p] = l
    BY <1>0, <1>1 DEF TypesOK
  <1>7. Quiet' /\ Lists' /\ Phase(p)'
    BY <1>0, <1>1, <1>2, <1>4, <1>6 DEF Quiet, Lists, Phase, Logging, Installing, Commits
  <1>8. l \notin Commits /\ l \notin {"off", "read_head", "user"}
        /\ l \notin {"log_from", "log_copy", "install_dst", "install_copy"}
        /\ l \notin {"write_log", "install", "write_head"}
    BY DEF Commits, Logging, Installing
  <1> QED BY <1>0, <1>1, <1>2, <1>3, <1>4, <1>5, <1>6, <1>7, <1>8, MoveStep

LEMMA CommitBeginKeeps ==
    ASSUME Alone, IInv, NEW p \in Proc, CommitBegin(p)
    PROVE  IInv'
  <1>0. TypesOK /\ Places /\ Lists /\ pc[p] = "commit" /\ p \notin waits /\ StackOK(p)
    BY DEF IInv, CommitBegin, At, Stacks
  <1>1. pc' = [pc EXCEPT ![p] = "start"]
    BY DEF CommitBegin, Goto
  <1>2. UNCHANGED <<home, slot, header, cached, data, dirty, held, waits, panic, booting,
                    lh, outstanding, inop, tail, todo, noref, ref>> /\ committing' = TRUE
    BY DEF CommitBegin, disk, cache, log, frame, Goto
  <1>3. ~ booting /\ Actor(p) /\ Extra(p) = 0
    BY <1>0, Busy DEF Places, Boots, Installing, Extra, Heads, Writing
  <1>4. Quiet /\ (p \in inop <=> Len(held[p]) > 0)
    BY <1>0, <1>3, Solo, HoldsFor DEF Commits, Logging, Installing
  <1>5. TypesOK'
    BY <1>0, <1>1, <1>2 DEF TypesOK, PCs, Commits
  <1>6. pc'[p] = "start"
    BY <1>0, <1>1 DEF TypesOK
  <1>7. Quiet' /\ Lists' /\ Phase(p)'
    BY <1>0, <1>1, <1>2, <1>4, <1>6 DEF Quiet, Lists, Phase, Logging, Installing, Commits
  <1> QED BY <1>0, <1>1, <1>2, <1>3, <1>4, <1>5, <1>6, <1>7, MoveStep DEF Commits, Writing

LEMMA ModifyKeeps ==
    ASSUME Alone, IInv, NEW p \in Proc, NEW v \in Data, Modify(p, v)
    PROVE  IInv'
  <1>0. TypesOK /\ Places /\ Lists /\ Pinned /\ Coherent /\ pc[p] = "user" /\ p \notin waits
        /\ StackOK(p)
    BY DEF IInv, Modify, At, Stacks
  <1>1. /\ UNCHANGED <<home, slot, header, cached, dirty, held, waits, panic, booting,
                       lh, outstanding, committing, inop, tail, todo, noref, ref>>
        /\ p \in inop /\ held[p] # <<>> /\ data' = [data EXCEPT ![Top(p)] = v]
        /\ pc' = [pc EXCEPT ![p] = "log_write"]
    BY DEF Modify, disk, log, frame, Goto
  <1>2. ~ booting /\ Actor(p) /\ Extra(p) = 0
    BY <1>0, <1>1, InOp DEF Extra, Heads
  <1>3. Quiet /\ ~ committing /\ \A q \in Proc : q # p => pc[q] \in {"user", "off"} /\ q \notin inop
    BY <1>0, <1>2, Solo DEF Commits, Logging, Installing
  <1>4. Base(p) = Len(held[p]) /\ Len(held[p]) \in Nat /\ held[p] \in Seq(Blocks)
    BY <1>0, <1>2, NoExtra
  <1>5. Len(held[p]) > 0 /\ Top(p) = held[p][Base(p)] /\ Top(p) \in Blocks
    BY <1>1, <1>4 DEF Top, Last
  <1>6. TypesOK'
    BY <1>0, <1>1, <1>5 DEF TypesOK, PCs, Writing
  <1>7. pc'[p] = "log_write"
    BY <1>0, <1>1 DEF TypesOK
  <1>8. StackOK(p)' /\ Base(p)' = Base(p)
    BY <1>0, <1>1, <1>2, <1>5, <1>7, PlainStack
  <1>9. Coherent'
    <2>1. SUFFICES ASSUME NEW x \in (cached \cap Blocks) \ dirty
                   PROVE  data'[x] = home[x] \/ \E q \in Proc : Changes(q, x)'
      BY <1>1 DEF Coherent
    <2>2. CASE x = Top(p)
      BY <1>1, <1>5, <1>7, <1>8, <2>2 DEF Changes
    <2>3. CASE x # Top(p)
      <3>1. data[x] = home[x] \/ \E q \in Proc : Changes(q, x)
        BY <1>0 DEF Coherent
      <3>2. \A q \in Proc : ~ Changes(q, x)
        BY <1>0, <1>3 DEF Changes
      <3>3. data'[x] = data[x]
        BY <1>0, <1>1, <2>3 DEF TypesOK
      <3> QED BY <3>1, <3>2, <3>3
    <2> QED BY <2>2, <2>3
  <1>10. Pinned' /\ Lists' /\ Quiet' /\ Phase(p)'
    BY <1>0, <1>1, <1>3, <1>7 DEF Pinned, Referred, Holds, Lists, Quiet, Phase, Logging, Installing,
                                  Commits
  <1> QED BY <1>0, <1>1, <1>2, <1>3, <1>6, <1>7, <1>8, <1>9, <1>10, ActorStep
          DEF Writing, Commits, Logging, Installing

LEMMA LogAppendKeeps ==
    ASSUME Alone, IInv, NEW p \in Proc, LogAppend(p)
    PROVE  IInv' /\ panic' = FALSE
  <1>0. TypesOK /\ Places /\ Lists /\ Pinned /\ Coherent /\ pc[p] = "append" /\ p \notin waits
        /\ StackOK(p) /\ panic = FALSE
    BY DEF IInv, LogAppend, At, Stacks, TypesOK
  <1>1. ~ booting /\ p \in inop /\ Actor(p) /\ Extra(p) = 0
    BY <1>0, Busy DEF Places, Boots, Installing, Extra, Heads, Writing
  <1>2. Quiet /\ ~ committing /\ outstanding = 1
        /\ \A q \in Proc : q # p => pc[q] \in {"user", "off"} /\ q \notin inop
    BY <1>0, <1>1, Solo DEF Commits, Logging, Installing
  <1>3. /\ UNCHANGED <<home, slot, header, cached, data, held, waits, panic, booting,
                       outstanding, committing, inop, tail, todo, noref, ref>>
        /\ lh' = (IF Top(p) \in ToSet(lh) THEN lh ELSE Append(lh, Top(p)))
        /\ dirty' = dirty \cup {Top(p)}
        /\ pc' = [pc EXCEPT ![p] = "user"]
    BY <1>2 DEF LogAppend, disk, frame, Goto
  <1>4. Len(held[p]) > 0 /\ Top(p) = held[p][Base(p)] /\ Top(p) \in Blocks /\ Top(p) \in Holds(p)
    BY <1>0, <1>1, HasBlock
  <1>5. lh \in Seq(Blocks)
    BY <1>0 DEF TypesOK
  <1>6. lh' \in Seq(Blocks) /\ ToSet(lh') = ToSet(lh) \cup {Top(p)} /\ IsInjective(lh')
    <2>1. IsInjective(lh)
      BY <1>0 DEF Lists
    <2>2. /\ Append(lh, Top(p)) \in Seq(Blocks)
          /\ ToSet(Append(lh, Top(p))) = ToSet(lh) \cup {Top(p)}
          /\ Top(p) \notin ToSet(lh) => IsInjective(Append(lh, Top(p)))
      BY <1>4, <1>5, <2>1, AppendFacts
    <2> QED BY <1>3, <1>5, <2>1, <2>2
  <1>7. TypesOK'
    BY <1>0, <1>3, <1>4, <1>6 DEF TypesOK, PCs
  <1>8. pc'[p] = "user"
    BY <1>0, <1>3 DEF TypesOK
  <1>9. StackOK(p)'
    BY <1>0, <1>1, <1>3, <1>8, PlainStack
  <1>10. Coherent'
    <2>1. SUFFICES ASSUME NEW x \in (cached \cap Blocks) \ dirty, x # Top(p)
                   PROVE  data[x] = home[x]
      BY <1>3 DEF Coherent
    <2>2. data[x] = home[x] \/ \E q \in Proc : Changes(q, x)
      BY <1>0 DEF Coherent
    <2>3. \A q \in Proc : ~ Changes(q, x)
      BY <1>2, <1>4, <2>1 DEF Changes
    <2> QED BY <2>2, <2>3
  <1>11. Pinned'
    <2>1. Top(p) \in cached
      BY <1>0, <1>4 DEF Pinned, Referred
    <2> QED BY <1>0, <1>3, <2>1 DEF Pinned, Referred, Holds
  <1>12. Lists' /\ Quiet' /\ Phase(p)'
    BY <1>0, <1>2, <1>3, <1>6, <1>8 DEF Lists, Quiet, Phase, Logging, Installing, Commits
  <1> QED BY <1>0, <1>1, <1>2, <1>3, <1>7, <1>8, <1>9, <1>10, <1>11, <1>12, ActorStep
          DEF Writing, Commits, Logging, Installing

-----------------------------------------------------------------------------
(* Buffers taken and given back for the log *)

LEMMA NoBlocks ==
    ToSet(<<>>) = {} /\ IsInjective(<<>>)
  <1>1. ToSet(<<>>) = {}
    BY DEF ToSet
  <1>2. IsInjective(<<>>)
    BY DEF IsInjective
  <1> QED BY <1>1, <1>2

LEMMA PrefixFacts ==
    ASSUME NEW S, NEW T, NEW q \in Seq(S), NEW n \in Nat, n <= Len(q), \A i \in 1 .. n : q[i] \in T
    PROVE  SubSeq(q, 1, n) \in Seq(T) /\ Len(SubSeq(q, 1, n)) = n
           /\ \A i \in 1 .. n : SubSeq(q, 1, n)[i] = q[i]
  OBVIOUS

LEMMA TailFacts ==
    ASSUME NEW S, NEW q \in Seq(S), q # <<>>, IsInjective(q)
    PROVE  /\ Tail(q) \in Seq(S) /\ q[1] \in ToSet(q)
           /\ ToSet(Tail(q)) = ToSet(q) \ {q[1]} /\ IsInjective(Tail(q))
  <1> DEFINE t == Tail(q)
  <1>1. /\ Len(q) \in Nat \ {0} /\ t \in Seq(S) /\ Len(t) = Len(q) - 1
        /\ \A i \in 1 .. Len(q) - 1 : t[i] = q[i + 1]
    OBVIOUS
  <1> HIDE DEF t
  <1>2. \A i, j \in 1 .. Len(q) : q[i] = q[j] => i = j
    BY Injective
  <1>3. q[1] \in ToSet(q)
    BY <1>1, Elements
  <1>4. ASSUME NEW x PROVE x \in ToSet(t) <=> x \in ToSet(q) \ {q[1]}
    <2>1. x \in ToSet(t) <=> \E i \in 1 .. Len(q) - 1 : q[i + 1] = x
      BY <1>1, Elements
    <2>2. x \in ToSet(q) <=> \E i \in 1 .. Len(q) : q[i] = x
      BY Elements
    <2>3. ASSUME NEW i \in 1 .. Len(q) - 1 PROVE i + 1 \in 1 .. Len(q) /\ q[i + 1] # q[1]
      <3>1. i + 1 \in 1 .. Len(q) /\ 1 \in 1 .. Len(q) /\ i + 1 # 1
        BY <1>1
      <3> QED BY <1>2, <3>1
    <2>4. ASSUME NEW i \in 1 .. Len(q), i # 1 PROVE i - 1 \in 1 .. Len(q) - 1 /\ (i - 1) + 1 = i
      BY <1>1, <2>4
    <2> QED BY <2>1, <2>2, <2>3, <2>4
  <1>5. \A i, j \in 1 .. Len(t) : t[i] = t[j] => i = j
    <2>1. SUFFICES ASSUME NEW i \in 1 .. Len(q) - 1, NEW j \in 1 .. Len(q) - 1,
                          q[i + 1] = q[j + 1]
                   PROVE  i = j
      BY <1>1
    <2>2. i + 1 \in 1 .. Len(q) /\ j + 1 \in 1 .. Len(q)
      BY <1>1
    <2>3. i + 1 = j + 1
      BY <1>2, <2>1, <2>2
    <2> QED BY <2>3
  <1> QED BY <1>1, <1>3, <1>4, <1>5, Injective DEF t

\* A log whose blocks all have a buffer fits on the disk.
LEMMA LhFits ==
    ASSUME Roomy, TypesOK, IsInjective(lh), ToSet(lh) \subseteq cached
    PROVE  Len(lh) <= LOGSIZE
  <1>1. lh \in Seq(Blocks) /\ Len(lh) \in Nat /\ IsFiniteSet(cached) /\ Cardinality(cached) <= NBUF
    BY DEF TypesOK
  <1>2. lh \in Injection(1 .. Len(lh), cached)
    <2>1. \A i \in 1 .. Len(lh) : lh[i] \in cached
      BY <1>1, Elements
    <2>2. lh \in [1 .. Len(lh) -> cached]
      BY <1>1, <2>1
    <2>3. \A i, j \in 1 .. Len(lh) : lh[i] = lh[j] => i = j
      BY <1>1, Injective
    <2> QED BY <2>2, <2>3 DEF Injection, IsInjective
  <1>3. Cardinality(1 .. Len(lh)) <= Cardinality(cached)
    BY <1>1, <1>2, FS_Injection
  <1>4. Cardinality(1 .. Len(lh)) = Len(lh)
    <2>1. 1 \in Int /\ Len(lh) \in Int
      BY <1>1
    <2>2. Cardinality(1 .. Len(lh)) = IF 1 > Len(lh) THEN 0 ELSE Len(lh) - 1 + 1
      BY <2>1, FS_Interval, Zenon
    <2> QED BY <1>1, <2>2
  <1>5. Cardinality(cached) \in Nat
    BY <1>1, FS_CardinalityType
  <1>6. NBUF \in Nat /\ LOGSIZE \in Nat
    BY LogAssumption
  <1> QED BY <1>1, <1>3, <1>4, <1>5, <1>6 DEF Roomy

LEMMA ExtraIs ==
    ASSUME NEW p \in Proc
    PROVE  Extra(p) \in {0, 1, 2}
  BY DEF Extra

LEMMA ExtraOf ==
    ASSUME NEW p
    PROVE  /\ pc[p] \in {"log_from", "install_dst"} => Extra(p) = 1
           /\ pc[p] \in {"log_copy", "install_copy"} => Extra(p) = 2
           /\ pc[p] \in Heads => Extra(p) = (IF HeaderBlock \in Holds(p) THEN 1 ELSE 0)
           /\ pc[p] \notin Heads \cup {"log_from", "install_dst", "log_copy", "install_copy"} =>
                 Extra(p) = 0
  BY DEF Extra, Heads

\* The committer gets a buffer.
LEMMA GrowStack ==
    ASSUME TypesOK, NEW p \in Proc, StackOK(p), NEW b \in Block,
           held'[p] = Append(held[p], b), UNCHANGED <<lh, tail>>, p \in inop' <=> p \in inop,
           pc[p] # "user", pc'[p] # "user", Extra(p)' = Extra(p) + 1,
           \/ Extra(p) = 0 /\ pc'[p] \in Heads /\ b = HeaderBlock
           \/ Extra(p) = 0 /\ pc'[p] \notin Heads /\ b = tail + 1
           \/ Extra(p) = 1 /\ pc[p] \notin Heads /\ pc'[p] \notin Heads /\ b = lh[tail + 1],
           p \in waits' => pc'[p] \in {"log_copy", "install_copy"},
           pc'[p] \in Logging \cup Installing \cup {"write_head"} =>
              pc[p] \in Logging \cup Installing \cup {"write_head"}
    PROVE  StackOK(p)' /\ Base(p)' = Base(p) /\ \A i \in 1 .. Base(p) : held'[p][i] = held[p][i]
  <1> DEFINE n == Len(held[p])
             s == held[p]
  <1>1. s \in Seq(Block) /\ n \in Nat
    BY DEF TypesOK
  <1>2. held'[p] = Append(s, b) /\ Len(held'[p]) = n + 1
        /\ held'[p][n + 1] = b /\ \A i \in 1 .. n : held'[p][i] = s[i]
    BY <1>1
  <1>3. Extra(p) \in {0, 1} /\ Extra(p)' = Extra(p) + 1
    <2>1. Extra(p)' \in {0, 1, 2}
      BY DEF Extra
    <2> QED BY <2>1, ExtraIs
  <1>4. Base(p) = n - Extra(p) /\ Base(p) \in Nat
    BY DEF Base, StackOK
  <1>5. Base(p)' = Base(p)
    <2>1. Base(p)' = n + 1 - (Extra(p) + 1)
      BY <1>2, <1>3 DEF Base
    <2> QED BY <1>1, <1>3, <1>4, <2>1
  <1>6. \A i \in 1 .. Base(p) : held'[p][i] = held[p][i]
    BY <1>1, <1>2, <1>3, <1>4
  <1>7. Base(p) \in Nat /\ (\A i \in 1 .. Base(p) : held[p][i] \in Blocks)
        /\ (Base(p) > 0 <=> p \in inop)
        /\ (pc[p] \in Logging \cup Installing \cup {"write_head"} =>
                \A i \in 1 .. Base(p) : held[p][i] \notin ToSet(lh))
    BY DEF StackOK
  <1>8. Extra(p)' > 0 =>
            held'[p][Base(p) + 1] = (IF pc'[p] \in Heads THEN HeaderBlock ELSE tail + 1)
    <2>1. CASE Extra(p) = 0
      BY <1>2, <1>4, <1>1, <2>1
    <2>2. CASE Extra(p) = 1
      <3>1. held[p][Base(p) + 1] = tail + 1 /\ pc'[p] \notin Heads
        BY <1>3, <2>2 DEF StackOK
      <3>2. held'[p][Base(p) + 1] = held[p][Base(p) + 1]
        BY <1>1, <1>2, <1>4, <2>2
      <3> QED BY <3>1, <3>2
    <2> QED BY <1>3, <2>1, <2>2
  <1>9. Extra(p)' = 2 => held'[p][Base(p) + 2] = lh[tail + 1]
    <2>0. Extra(p)' = 2 => Extra(p) = 1
      BY <1>3
    <2>1. SUFFICES ASSUME Extra(p) = 1 PROVE held'[p][Base(p) + 2] = lh[tail + 1]
      BY <2>0
    <2>3. b = lh[tail + 1]
      BY <2>1
    <2>2. Base(p) + 2 = n + 1
      BY <1>1, <1>4, <2>1
    <2> QED BY <1>2, <2>2, <2>3
  <1>10. Len(held'[p]) > 0
    BY <1>1, <1>2
  <1>11. (Extra(p) > 0)' => (held[p][Base(p) + 1] = (IF pc[p] \in Heads THEN HeaderBlock ELSE tail + 1))'
    BY <1>5, <1>8 DEF HeaderBlock
  <1> HIDE DEF n, s
  <1> QED BY <1>5, <1>6, <1>7, <1>9, <1>10, <1>11 DEF StackOK

\* The committer gives its buffers back.
LEMMA ShrinkStack ==
    ASSUME TypesOK, NEW p \in Proc, StackOK(p), p \notin waits',
           held'[p] = SubSeq(held[p], 1, Len(held[p]) - Extra(p)), p \in inop' <=> p \in inop,
           NEW l, pc'[p] = l, pc[p] # "user", l # "user",
           l \notin {"log_from", "log_copy", "install_dst", "install_copy"},
           l \in Logging \cup Installing \cup {"write_head"} =>
              Base(p) = 0 \/ (lh' = lh /\ pc[p] \in Logging \cup Installing \cup {"write_head"})
    PROVE  /\ StackOK(p)' /\ Extra(p)' = 0 /\ Base(p)' = Base(p)
           /\ \A i \in 1 .. Base(p) : held'[p][i] = held[p][i]
           /\ held'[p] \in Seq(Blocks) /\ Holds(p)' \subseteq Holds(p)
  <1> DEFINE n == Base(p)
             s == held[p]
  <1>1. s \in Seq(Block) /\ Len(s) \in Nat /\ n \in Nat /\ n <= Len(s)
    <2>1. s \in Seq(Block) /\ Len(s) \in Nat /\ n \in Nat /\ n = Len(s) - Extra(p)
      BY DEF TypesOK, StackOK, Base
    <2> QED BY <2>1, ExtraIs
  <1>2. held'[p] = SubSeq(s, 1, n)
    BY DEF Base
  <1>3. \A i \in 1 .. n : s[i] \in Blocks
    BY DEF StackOK
  <1>4. (n > 0 <=> p \in inop)
        /\ (pc[p] \in Logging \cup Installing \cup {"write_head"} =>
                \A i \in 1 .. n : s[i] \notin ToSet(lh))
    BY DEF StackOK
  <1>5. \A i \in 1 .. n : s[i] \in Holds(p)
    BY <1>1, Elements DEF Holds
  <1> HIDE DEF n, s
  <1>6. held'[p] \in Seq(Blocks) /\ Len(held'[p]) = n /\ \A i \in 1 .. n : held'[p][i] = s[i]
    <2>1. SubSeq(s, 1, n) \in Seq(Blocks) /\ Len(SubSeq(s, 1, n)) = n
          /\ \A i \in 1 .. n : SubSeq(s, 1, n)[i] = s[i]
      BY <1>1, <1>3, PrefixFacts
    <2> QED BY <1>2, <2>1
  <1>7. Holds(p)' \subseteq Holds(p) /\ HeaderBlock \notin Holds(p)'
    <2>1. HeaderBlock \notin Blocks
      BY LogAssumption DEF HeaderBlock
    <2>2. ASSUME NEW x \in Holds(p)' PROVE x \in Holds(p) /\ x \in Blocks
      <3>1. PICK h \in Seq(Blocks) : h = held'[p]
        BY <1>6
      <3>2. x \in ToSet(h)
        BY <2>2, <3>1 DEF Holds
      <3>3. PICK i \in 1 .. Len(h) : h[i] = x
        BY <3>2, Elements
      <3> QED BY <1>3, <1>5, <1>6, <3>1, <3>3
    <2> QED BY <2>1, <2>2
  <1>8. Extra(p)' = 0
    BY <1>7 DEF Extra, HeaderBlock
  <1>9. Base(p)' = n
    BY <1>1, <1>6, <1>8 DEF Base
  <1>10. \A i \in 1 .. n : held'[p][i] \in Blocks
    BY <1>3, <1>6
  <1>11. (pc[p] \in Logging \cup Installing \cup {"write_head"})' =>
                \A i \in 1 .. n : held'[p][i] \notin ToSet(lh')
    <2>1. CASE n = 0
      BY <2>1
    <2>2. CASE n # 0
      BY <1>4, <1>6, <2>2 DEF n
    <2> QED BY <2>1, <2>2
  <1>12. StackOK(p)'
    <2>1. Base(p)' \in Nat /\ (Base(p)' > 0 <=> p \in inop')
      BY <1>1, <1>4, <1>9
    <2>2. (\A i \in 1 .. Base(p) : held[p][i] \in Blocks)'
      BY <1>9, <1>10
    <2>3. (pc[p] \in Logging \cup Installing \cup {"write_head"} =>
                \A i \in 1 .. Base(p) : held[p][i] \notin ToSet(lh))'
      BY <1>9, <1>11
    <2>4. (Extra(p) > 0)' = FALSE /\ (Extra(p) = 2)' = FALSE /\ (p \in waits)' = FALSE
      BY <1>8
    <2> QED BY <2>1, <2>2, <2>3, <2>4 DEF StackOK
  <1> QED BY <1>6, <1>7, <1>8, <1>9, <1>12 DEF n, s

LEMMA TakeStep ==
    ASSUME Alone, IInv, NEW p \in Proc, Actor(p), ~ panic, NEW b \in Block, Bget(p, b),
           UNCHANGED <<home, slot, header, lh, outstanding, committing, inop,
                       tail, todo, noref, ref, booting>>,
           waits' \subseteq waits \cup {p}, waits \subseteq waits',
           NEW l \in PCs, pc' = [pc EXCEPT ![p] = l], pc[p] # "user", l # "user",
           IF booting THEN l \in Boots
           ELSE /\ l \notin {"off", "read_head"} /\ l \notin Writing \cup {"classify"}
                /\ l \in Commits <=> pc[p] \in Commits,
           StackOK(p)' /\ Base(p)' = Base(p) /\ \A i \in 1 .. Base(p) : held'[p][i] = held[p][i],
           (\A x \in dirty : data'[x] = data[x]) => Phase(p)'
    PROVE  IInv'
  <1>0. TypesOK /\ Pinned /\ Coherent /\ Lists /\ Places /\ Phases /\ StackOK(p) /\ pc'[p] = l
    BY DEF IInv, TypesOK, Stacks
  <1>1. /\ held'[p] = Append(held[p], b) /\ held' \in [Proc -> Seq(Block)]
        /\ \A q \in Proc : q # p => held'[q] = held[q]
        /\ dirty' = dirty
        /\ cached' \subseteq Block /\ IsFiniteSet(cached') /\ Cardinality(cached') <= NBUF
        /\ data' \in [Blocks -> Data] /\ panic' \in BOOLEAN
        /\ Pinned'
        /\ \A x \in (cached' \cap Blocks) \ dirty :
                data'[x] = home[x] \/ (x \in cached /\ data'[x] = data[x])
        /\ \A x \in cached \cap Blocks : data'[x] = data[x]
    BY <1>0, BgetDoes
  <1>2. \A x \in dirty : data'[x] = data[x]
    BY <1>0, <1>1 DEF TypesOK, Pinned
  <1>3. TypesOK'
    BY <1>0, <1>1 DEF TypesOK
  <1>4. (committing <=> pc[p] \in Commits) \/ booting
    BY Solo
  <1>5. Coherent'
    <2>1. SUFFICES ASSUME NEW x \in (cached' \cap Blocks) \ dirty, x \in cached, data'[x] = data[x]
                   PROVE  data[x] = home[x] \/ \E q \in Proc : Changes(q, x)'
      BY <1>1 DEF Coherent
    <2>2. data[x] = home[x] \/ \E q \in Proc : Changes(q, x)
      BY <1>0, <2>1 DEF Coherent
    <2>3. ASSUME NEW q \in Proc, Changes(q, x) PROVE Changes(p, x)'
      <3>1. q = p
        BY <2>3, Solo DEF Changes
      <3>2. p \in inop /\ x = held[p][Base(p)]
        BY <2>3, <3>1 DEF Changes
      <3>3. Base(p) \in Nat /\ Base(p) > 0
        BY <1>0, <3>2 DEF StackOK
      <3>4. held'[p][Base(p)] = x
        BY <3>2, <3>3
      <3> QED BY <1>0, <3>2, <3>4 DEF Changes
    <2> QED BY <2>2, <2>3
  <1>6. Lists' /\ (~ booting /\ ~ committing => Quiet')
    BY <1>0, <1>1 DEF Lists, Phases, Quiet
  <1>7. \A q \in Proc : q # p => (q \in waits' <=> q \in waits)
    OBVIOUS
  <1>8. booting => inop' = {} /\ ~ committing' /\ ref' = <<>>
    BY <1>0 DEF Places, Phases
  <1> QED BY <1>1, <1>2, <1>3, <1>4, <1>5, <1>6, <1>7, <1>8, ActorStep

-----------------------------------------------------------------------------
(* commit(), up to the header of the log *)

LEMMA ApartHeld ==
    ASSUME TypesOK, NEW p \in Proc, StackOK(p), Extra(p) = 0,
           pc[p] \in Logging \cup Installing \cup {"write_head"}
    PROVE  Apart(held[p], lh)
  <1>1. Base(p) = Len(held[p]) /\ held[p] \in Seq(Blocks)
    BY NoExtra
  <1>2. \A i \in 1 .. Len(held[p]) : held[p][i] \notin ToSet(lh)
    BY <1>1 DEF StackOK
  <1> QED BY <1>1, <1>2, Elements DEF Apart

\* A block of the list that is written has a buffer.
LEMMA LoggedFits ==
    ASSUME Roomy, IInv, ~ panic, NEW n, Logged(n)
    PROVE  Len(lh) <= LOGSIZE
  <1>1. ToSet(lh) \subseteq cached
    BY DEF Logged, IInv, Pinned
  <1> QED BY <1>1, LhFits DEF IInv, Lists

LEMMA ReferredShrinks ==
    ASSUME NEW p \in Proc, Holds(p)' \subseteq Holds(p), \A q \in Proc : q # p => held'[q] = held[q]
    PROVE  Referred' \subseteq Referred
  <1>1. \A q \in Proc : Holds(q)' \subseteq Holds(q)
    BY DEF Holds
  <1> QED BY <1>1 DEF Referred

LEMMA CommitStartKeeps ==
    ASSUME Alone, IInv, NEW p \in Proc, CommitStart(p)
    PROVE  IInv'
  <1>0. TypesOK /\ Places /\ Lists /\ Phase(p) /\ pc[p] = "start" /\ p \notin waits /\ StackOK(p)
    BY DEF IInv, CommitStart, At, Stacks, Phases
  <1>1. UNCHANGED <<home, slot, header, cached, data, dirty, held, waits, panic, booting,
                    lh, outstanding, committing, inop>>
        /\ tail' = 0 /\ noref' = <<>> /\ ref' = <<>>
        /\ todo' = (IF p \notin inop THEN <<>> ELSE lh)
    BY DEF CommitStart, disk, cache, log, SyncAll
  <1>2. PICK l : /\ pc' = [pc EXCEPT ![p] = l]
                 /\ l = (IF lh = <<>> THEN "end" ELSE IF p \notin inop THEN "write_log" ELSE "classify")
    BY DEF CommitStart, Goto, SyncAll
  <1>3. ~ booting /\ Actor(p) /\ Extra(p) = 0 /\ committing /\ Quiet
    BY <1>0, Busy DEF Places, Boots, Installing, Extra, Heads, Writing, Commits, Phase
  <1>4. p \in inop <=> Len(held[p]) > 0
    BY <1>0, <1>3, HoldsFor
  <1>5. lh \in Seq(Blocks) /\ <<>> \in Seq(Blocks)
    BY <1>0 DEF TypesOK
  <1>6. l \in {"end", "write_log", "classify"} /\ l \in PCs /\ l \in Commits /\ pc'[p] = l
    BY <1>0, <1>2 DEF TypesOK, PCs, Commits, Logging
  <1>7. TypesOK'
    BY <1>0, <1>1, <1>2, <1>5, <1>6 DEF TypesOK
  <1>8. Lists'
    BY <1>0, <1>1, NoBlocks DEF Lists
  <1>9. Phase(p)'
    <2>1. CASE l = "end"
      BY <1>1, <1>2, <1>3, <1>6, <2>1 DEF Phase, Quiet, Logging, Installing
    <2>2. CASE l = "write_log"
      <3>1. p \notin inop
        BY <1>2, <2>2
      <3>2. Logged(tail)'
        <4>1. Len(lh) \in Nat
          BY <1>5
        <4>2. (\A i \in 1 .. tail : slot[i] = data[lh[i]])'
          BY <1>1
        <4>3. (header = <<>> /\ dirty = ToSet(lh) \cup ToSet(ref) /\ Apart(lh, ref) /\ tail <= Len(lh))'
          BY <1>1, <1>3, <4>1, NoBlocks DEF Quiet, Apart
        <4> QED BY <4>2, <4>3 DEF Logged
      <3> QED BY <1>1, <1>6, <2>2, <3>1, <3>2 DEF Phase, Logging, Installing
    <2>3. CASE l = "classify"
      <3>1. Split'
        BY <1>1, <1>2, <2>3, NoBlocks DEF Split, Apart
      <3>2. Quiet'
        BY <1>1, <1>3 DEF Quiet
      <3>3. (\A i \in 1 .. Base(p) : held[p][i] \notin ToSet(noref))' /\ tail' = 0 /\ p \in inop'
        BY <1>1, <1>2, <2>3, NoBlocks
      <3> QED BY <1>6, <2>3, <3>1, <3>2, <3>3 DEF Phase, Logging, Installing
    <2> QED BY <1>6, <2>1, <2>2, <2>3
  <1>10. l = "write_log" => Apart(held[p], lh)
    <2>1. SUFFICES ASSUME p \notin inop PROVE Apart(held[p], lh)
      BY <1>2
    <2>2. held[p] = <<>>
      BY <1>0, <1>4, <2>1 DEF TypesOK
    <2> QED BY <2>2, NoBlocks DEF Apart
  <1>11. l \notin {"install", "write_head", "off", "read_head", "user"} \cup Writing
         /\ (l = "classify" => p \in inop)
         /\ l \notin {"log_from", "log_copy", "install_dst", "install_copy"}
    BY <1>2, <1>6 DEF Writing
  <1> QED BY <1>0, <1>1, <1>2, <1>3, <1>4, <1>6, <1>7, <1>8, <1>9, <1>10, <1>11, MoveStep

LEMMA ClassifyKeeps ==
    ASSUME Alone, IInv, NEW p \in Proc, Classify(p)
    PROVE  IInv'
  <1>0. TypesOK /\ Places /\ Lists /\ Phase(p) /\ pc[p] = "classify" /\ p \notin waits /\ StackOK(p)
    BY DEF IInv, Classify, At, Stacks, Phases
  <1>1. UNCHANGED <<home, slot, header, cached, data, dirty, held, waits, panic, booting,
                    lh, outstanding, committing, inop, pc, tail>>
        /\ todo # <<>> /\ todo' = Tail(todo)
        /\ \/ todo[1] \notin Referred /\ noref' = Append(noref, todo[1]) /\ ref' = ref
           \/ ref' = Append(ref, todo[1]) /\ noref' = noref
    BY DEF Classify, disk, cache, log
  <1>2. pc' = [pc EXCEPT ![p] = "classify"] /\ pc'[p] = "classify"
    BY <1>0, <1>1 DEF TypesOK
  <1>3. ~ booting /\ p \in inop /\ Actor(p) /\ Extra(p) = 0 /\ committing /\ Quiet /\ Split
        /\ tail = 0 /\ \A i \in 1 .. Base(p) : held[p][i] \notin ToSet(noref)
    BY <1>0, Busy DEF Places, Boots, Installing, Extra, Heads, Commits, Phase
  <1>4. Len(held[p]) > 0 /\ Base(p) = Len(held[p]) /\ held[p] \in Seq(Blocks)
    BY <1>0, <1>3, HoldsFor, NoExtra
  <1>5. todo \in Seq(Blocks) /\ noref \in Seq(Blocks) /\ ref \in Seq(Blocks)
    BY <1>0 DEF TypesOK
  <1>6. PICK x : x = todo[1]
    OBVIOUS
  <1>7. /\ todo' \in Seq(Blocks) /\ x \in ToSet(todo) /\ x \in Blocks
        /\ ToSet(todo') = ToSet(todo) \ {x} /\ IsInjective(todo')
    <2>1. IsInjective(todo)
      BY <1>0 DEF Lists
    <2>2. ToSet(todo) \subseteq Blocks
      BY <1>5, Elements
    <2> QED BY <1>1, <1>5, <1>6, <2>1, <2>2, TailFacts
  <1>8. x \notin ToSet(noref) /\ x \notin ToSet(ref)
    BY <1>3, <1>7 DEF Split, Apart
  <1>9. /\ Append(noref, x) \in Seq(Blocks) /\ ToSet(Append(noref, x)) = ToSet(noref) \cup {x}
        /\ IsInjective(noref) => IsInjective(Append(noref, x))
    BY <1>5, <1>7, <1>8, AppendFacts
  <1>10. /\ Append(ref, x) \in Seq(Blocks) /\ ToSet(Append(ref, x)) = ToSet(ref) \cup {x}
         /\ IsInjective(ref) => IsInjective(Append(ref, x))
    BY <1>5, <1>7, <1>8, AppendFacts
  <1>11. noref' \in Seq(Blocks) /\ ref' \in Seq(Blocks) /\ IsInjective(noref') /\ IsInjective(ref')
    BY <1>0, <1>1, <1>5, <1>6, <1>9, <1>10 DEF Lists
  <1>12. TypesOK'
    BY <1>0, <1>1, <1>7, <1>11 DEF TypesOK
  <1>13. Lists'
    BY <1>0, <1>1, <1>7, <1>11 DEF Lists
  <1>14. Split'
    <2>1. CASE noref' = Append(noref, x) /\ ref' = ref
      <3>1. ToSet(noref') = ToSet(noref) \cup {x} /\ ToSet(ref') = ToSet(ref)
        BY <1>9, <2>1
      <3> QED BY <1>1, <1>3, <1>7, <1>8, <3>1 DEF Split, Apart
    <2>2. CASE ref' = Append(ref, x) /\ noref' = noref
      <3>1. ToSet(ref') = ToSet(ref) \cup {x} /\ ToSet(noref') = ToSet(noref)
        BY <1>10, <2>2
      <3> QED BY <1>1, <1>3, <1>7, <1>8, <3>1 DEF Split, Apart
    <2> QED BY <1>1, <1>6, <2>1, <2>2
  <1>15. \A i \in 1 .. Base(p) : held[p][i] \notin ToSet(noref')
    <2>1. \A i \in 1 .. Base(p) : held[p][i] \in Referred
      <3>1. \A i \in 1 .. Base(p) : held[p][i] \in Holds(p)
        BY <1>4, Elements DEF Holds
      <3> QED BY <3>1 DEF Referred
    <2> QED BY <1>1, <1>3, <1>6, <1>9, <2>1
  <1>16. Base(p)' = Base(p) => Phase(p)'
    <2>1. Quiet'
      BY <1>1, <1>3 DEF Quiet
    <2>2. Base(p)' = Base(p) => (\A i \in 1 .. Base(p) : held[p][i] \notin ToSet(noref))'
      BY <1>1, <1>15
    <2> QED BY <1>1, <1>2, <1>3, <1>14, <2>1, <2>2 DEF Phase, Logging, Installing
  <1> QED BY <1>0, <1>1, <1>2, <1>3, <1>4, <1>12, <1>13, <1>16, MoveStep
          DEF Writing, Commits, Logging, Installing

LEMMA CommitNorefKeeps ==
    ASSUME Alone, IInv, NEW p \in Proc, CommitNoref(p)
    PROVE  IInv'
  <1>0. TypesOK /\ Places /\ Lists /\ Phase(p) /\ pc[p] = "classify" /\ p \notin waits /\ StackOK(p)
    BY DEF IInv, CommitNoref, At, Stacks, Phases
  <1>1. UNCHANGED <<home, slot, header, cached, data, dirty, held, waits, panic, booting,
                    outstanding, committing, inop, tail, todo, ref>>
        /\ todo = <<>> /\ lh' = noref /\ noref' = <<>>
        /\ pc' = [pc EXCEPT ![p] = "write_log"]
    BY DEF CommitNoref, disk, cache, Goto
  <1>2. pc'[p] = "write_log"
    BY <1>0, <1>1 DEF TypesOK
  <1>3. ~ booting /\ p \in inop /\ Actor(p) /\ Extra(p) = 0 /\ committing /\ Quiet /\ Split
        /\ tail = 0 /\ \A i \in 1 .. Base(p) : held[p][i] \notin ToSet(noref)
    BY <1>0, Busy DEF Places, Boots, Installing, Extra, Heads, Commits, Phase
  <1>4. Len(held[p]) > 0 /\ Base(p) = Len(held[p]) /\ held[p] \in Seq(Blocks)
    BY <1>0, <1>3, HoldsFor, NoExtra
  <1>5. noref \in Seq(Blocks) /\ <<>> \in Seq(Blocks) /\ Len(noref) \in Nat
    BY <1>0 DEF TypesOK
  <1>6. TypesOK'
    BY <1>0, <1>1, <1>5 DEF TypesOK, PCs, Commits, Logging
  <1>7. Lists'
    BY <1>0, <1>1, NoBlocks DEF Lists
  <1>8. Apart(held[p], lh')
    BY <1>1, <1>3, <1>4, Elements DEF Apart
  <1>9. Logged(tail)'
    <2>1. (\A i \in 1 .. tail : slot[i] = data[lh[i]])' /\ tail' <= Len(lh') /\ header' = <<>>
      BY <1>1, <1>3, <1>5 DEF Quiet
    <2>2. dirty' = ToSet(lh') \cup ToSet(ref') /\ Apart(lh', ref')
      BY <1>1, <1>3, NoBlocks DEF Quiet, Split, Apart
    <2> QED BY <2>1, <2>2 DEF Logged, Apart
  <1>10. Phase(p)'
    BY <1>1, <1>2, <1>3, <1>9 DEF Phase, Logging, Installing
  <1> QED BY <1>0, <1>1, <1>3, <1>4, <1>6, <1>7, <1>8, <1>10, MoveStep
          DEF Writing, Commits, Logging, Installing

LEMMA WriteLogKeeps ==
    ASSUME Alone, Roomy, IInv, NEW p \in Proc, WriteLog(p)
    PROVE  IInv'
  <1>0. TypesOK /\ Places /\ Lists /\ Phase(p) /\ pc[p] = "write_log" /\ p \notin waits /\ StackOK(p)
        /\ ~ panic
    BY DEF IInv, WriteLog, At, Stacks, Phases
  <1>1. UNCHANGED <<home, slot, header, booting, lh, outstanding, committing, inop,
                    tail, todo, noref, ref>>
    BY DEF WriteLog, disk, log, frame
  <1>2. ~ booting /\ Actor(p) /\ Extra(p) = 0 /\ committing /\ Logged(tail)
        /\ (p \notin inop => ref = <<>>)
    BY <1>0, Busy DEF Places, Boots, Installing, Extra, Heads, Commits, Phase, Logging
  <1>3. tail \in Nat /\ Len(lh) \in Nat /\ Len(lh) <= LOGSIZE /\ LOGSIZE \in Nat /\ tail <= Len(lh)
    BY <1>0, <1>2, LoggedFits, LogAssumption DEF TypesOK, Logged
  <1>4. CASE tail < Len(lh)
    <2>1. Bget(p, tail + 1) /\ waits' = waits /\ pc' = [pc EXCEPT ![p] = "log_from"]
      BY <1>4 DEF WriteLog, BreadLog, Goto
    <2>2. tail + 1 \in Block
      BY <1>3, <1>4 DEF Block, Slot
    <2>3. pc'[p] = "log_from" /\ held'[p] = Append(held[p], tail + 1) /\ dirty' = dirty
      BY <1>0, <2>1 DEF TypesOK, Bget
    <2>4. Extra(p)' = 1 /\ Extra(p)' = Extra(p) + 1
      <3>1. Extra(p)' = 1
        BY <2>3 DEF Extra
      <3> QED BY <1>2, <3>1
    <2>5. StackOK(p)' /\ Base(p)' = Base(p) /\ \A i \in 1 .. Base(p) : held'[p][i] = held[p][i]
      <3>1. {"write_log", "log_from"} \cap Heads = {}
            /\ {"write_log", "log_from"} \subseteq Logging \cup Installing \cup {"write_head"}
        BY DEF Heads, Logging
      <3>2. UNCHANGED <<lh, tail>> /\ (p \in inop' <=> p \in inop)
        BY <1>1
      <3>3. pc[p] # "user" /\ pc'[p] # "user" /\ pc[p] \notin Heads /\ pc'[p] \notin Heads
            /\ pc[p] \in Logging \cup Installing \cup {"write_head"} /\ p \notin waits'
        BY <1>0, <2>1, <2>3, <3>1
      <3> QED BY <1>0, <1>2, <2>2, <2>3, <2>4, <3>2, <3>3, GrowStack
    <2>6. (\A x \in dirty : data'[x] = data[x]) => Phase(p)'
      <3>1. (\A x \in dirty : data'[x] = data[x]) => Logged(tail)'
        BY <1>0, <1>1, <1>2, <2>3, DiskKept
      <3> QED BY <1>1, <1>2, <1>4, <2>3, <3>1 DEF Phase, Logging, Installing
    <2> QED BY <1>0, <1>1, <1>2, <2>1, <2>2, <2>5, <2>6, TakeStep
            DEF PCs, Writing, Commits, Logging, Installing
  <1>5. CASE ~ (tail < Len(lh))
    <2>1. UNCHANGED <<cached, data, dirty, held, waits, panic>>
          /\ pc' = [pc EXCEPT ![p] = "write_head"]
      BY <1>5 DEF WriteLog, cache, Goto
    <2>2. pc'[p] = "write_head"
      BY <1>0, <2>1 DEF TypesOK
    <2>3. TypesOK' /\ Lists'
      BY <1>0, <1>1, <2>1 DEF TypesOK, Lists, PCs, Commits
    <2>4. tail = Len(lh)
      BY <1>3, <1>5
    <2>5. Logged(Len(lh))'
      BY <1>1, <1>2, <2>1, <2>4 DEF Logged, Apart
    <2>6. Phase(p)'
      BY <1>1, <1>2, <2>2, <2>5 DEF Phase, Logging, Installing
    <2>7. Apart(held[p], lh') /\ (p \in inop <=> Len(held[p]) > 0)
      BY <1>0, <1>1, <1>2, ApartHeld, HoldsFor DEF Logging
    <2> QED BY <1>0, <1>1, <1>2, <2>1, <2>3, <2>6, <2>7, MoveStep
            DEF Writing, Commits, Logging, Installing
  <1> QED BY <1>4, <1>5

LEMMA LogFromKeeps ==
    ASSUME Alone, IInv, NEW p \in Proc, LogFrom(p)
    PROVE  IInv'
  <1>0. TypesOK /\ Places /\ Lists /\ Phase(p) /\ pc[p] = "log_from" /\ StackOK(p) /\ ~ panic
        /\ p \notin waits
    BY DEF IInv, LogFrom, At, Stacks, Phases
  <1>1. UNCHANGED <<home, slot, header, booting, lh, outstanding, committing, inop,
                    tail, todo, noref, ref>>
        /\ Bget(p, lh[tail + 1]) /\ waits' = waits \cup {p} /\ pc' = [pc EXCEPT ![p] = "log_copy"]
    BY DEF LogFrom, BreadHome, disk, log, frame, Goto
  <1>2. ~ booting /\ Actor(p) /\ Extra(p) = 1 /\ committing /\ Logged(tail) /\ tail < Len(lh)
        /\ (p \notin inop => ref = <<>>)
    BY <1>0, Busy DEF Places, Boots, Installing, Extra, Commits, Phase, Logging
  <1>3. tail \in Nat /\ Len(lh) \in Nat /\ lh \in Seq(Blocks)
    BY <1>0 DEF TypesOK
  <1>4. lh[tail + 1] \in Blocks /\ lh[tail + 1] \in Block
    BY <1>2, <1>3 DEF Block
  <1>5. pc'[p] = "log_copy" /\ held'[p] = Append(held[p], lh[tail + 1]) /\ dirty' = dirty
    BY <1>0, <1>1 DEF TypesOK, Bget
  <1>6. Extra(p)' = 2 /\ Extra(p)' = Extra(p) + 1
    <2>1. Extra(p)' = 2
      BY <1>5 DEF Extra, Heads
    <2> QED BY <1>2, <2>1
  <1>7. StackOK(p)' /\ Base(p)' = Base(p) /\ \A i \in 1 .. Base(p) : held'[p][i] = held[p][i]
    <2>1. {"log_from", "log_copy"} \cap Heads = {}
          /\ {"log_from", "log_copy"} \subseteq Logging \cup Installing \cup {"write_head"}
      BY DEF Heads, Logging
    <2>2. UNCHANGED <<lh, tail>> /\ (p \in inop' <=> p \in inop)
      BY <1>1
    <2>3. pc[p] # "user" /\ pc'[p] # "user" /\ pc[p] \notin Heads /\ pc'[p] \notin Heads
          /\ pc'[p] \in {"log_copy", "install_copy"}
          /\ pc[p] \in Logging \cup Installing \cup {"write_head"}
      BY <1>0, <1>5, <2>1
    <2>4. Extra(p) = 1 /\ Extra(p)' = Extra(p) + 1
      BY <1>2, <1>6
    <2> QED BY <1>0, <1>4, <1>5, <2>2, <2>3, <2>4, GrowStack
  <1>8. (\A x \in dirty : data'[x] = data[x]) => Phase(p)'
    <2>1. (\A x \in dirty : data'[x] = data[x]) => Logged(tail)'
      BY <1>0, <1>1, <1>2, <1>5, DiskKept
    <2> QED BY <1>1, <1>2, <1>5, <2>1 DEF Phase, Logging, Installing
  <1> QED BY <1>0, <1>1, <1>2, <1>4, <1>7, <1>8, TakeStep
          DEF PCs, Writing, Commits, Logging, Installing

\* The committer's second buffer is that of the block.
LEMMA SecondBuffer ==
    ASSUME TypesOK, NEW p \in Proc, StackOK(p), pc[p] \in {"log_copy", "install_copy"},
           tail < Len(lh)
    PROVE  /\ Extra(p) = 2 /\ Top(p) = lh[tail + 1] /\ Top(p) \in Blocks
           /\ Top(p) \in Holds(p)
  <1>1. Extra(p) = 2
    BY ExtraOf
  <1>2. held[p] \in Seq(Block) /\ Len(held[p]) \in Nat /\ lh \in Seq(Blocks) /\ tail \in Nat
    BY DEF TypesOK
  <1>3. Base(p) \in Nat /\ Base(p) = Len(held[p]) - 2 /\ held[p][Base(p) + 2] = lh[tail + 1]
    BY <1>1 DEF StackOK, Base
  <1>4. Top(p) = lh[tail + 1]
    <2>1. Base(p) + 2 = Len(held[p])
      BY <1>2, <1>3
    <2> QED BY <1>3, <2>1 DEF Top, Last
  <1>5. lh[tail + 1] \in Blocks
    BY <1>2
  <1>6. Top(p) \in Holds(p)
    <2>1. Len(held[p]) \in 1 .. Len(held[p])
      BY <1>2, <1>3
    <2> QED BY <1>2, <2>1, Elements DEF Top, Last, Holds
  <1> QED BY <1>1, <1>4, <1>5, <1>6

\* Giving the buffers of the log back.
LEMMA GiveBack ==
    ASSUME TypesOK, Pinned, NEW p \in Proc, StackOK(p), p \notin waits', panic' = panic,
           cached' = cached, dirty' \subseteq dirty,
           Brelse(p, Extra(p)), p \in inop' <=> p \in inop,
           pc[p] # "user", pc'[p] # "user",
           pc'[p] \notin {"log_from", "log_copy", "install_dst", "install_copy"},
           pc'[p] \in Logging \cup Installing \cup {"write_head"} =>
              Base(p) = 0 \/ (lh' = lh /\ pc[p] \in Logging \cup Installing \cup {"write_head"})
    PROVE  /\ held' \in [Proc -> Seq(Block)] /\ \A q \in Proc : q # p => held'[q] = held[q]
           /\ StackOK(p)' /\ Base(p)' = Base(p) /\ Pinned'
           /\ p \in inop => held'[p][Base(p)] = held[p][Base(p)]
  <1>1. held \in [Proc -> Seq(Block)] /\ held' = [held EXCEPT ![p] = SubSeq(@, 1, Len(@) - Extra(p))]
    BY DEF TypesOK, Brelse
  <1>2. held'[p] = SubSeq(held[p], 1, Len(held[p]) - Extra(p))
        /\ \A q \in Proc : q # p => held'[q] = held[q]
    BY <1>1
  <1>3. /\ StackOK(p)' /\ Base(p)' = Base(p)
        /\ \A i \in 1 .. Base(p) : held'[p][i] = held[p][i]
        /\ held'[p] \in Seq(Blocks) /\ Holds(p)' \subseteq Holds(p)
    BY <1>2, ShrinkStack
  <1>4. held' \in [Proc -> Seq(Block)]
    <2>1. held'[p] \in Seq(Block)
      BY <1>3 DEF Block
    <2> HIDE DEF Block
    <2> QED BY <1>1, <1>2, <2>1
  <1>5. Referred' \subseteq Referred
    BY <1>2, <1>3, ReferredShrinks
  <1>6. p \in inop => Base(p) \in 1 .. Base(p)
    BY DEF StackOK
  <1>7. Pinned'
    BY <1>5 DEF Pinned
  <1> QED BY <1>2, <1>3, <1>4, <1>6, <1>7

LEMMA LogCopyKeeps ==
    ASSUME Alone, Roomy, IInv, NEW p \in Proc, LogCopy(p)
    PROVE  IInv'
  <1>0. TypesOK /\ Places /\ Lists /\ Phase(p) /\ pc[p] = "log_copy" /\ StackOK(p) /\ ~ panic
        /\ p \notin waits /\ Pinned /\ Coherent
    BY DEF IInv, LogCopy, At, Stacks, Phases
  <1>1. UNCHANGED <<home, header, cached, data, dirty, waits, lh, outstanding, committing, inop,
                    todo, noref, ref, booting, panic>>
        /\ slot' = [slot EXCEPT ![tail + 1] = data[Top(p)]] /\ Brelse(p, 2)
        /\ tail' = tail + 1 /\ pc' = [pc EXCEPT ![p] = "write_log"]
    BY DEF LogCopy, cache, log, Goto
  <1>2. ~ booting /\ Actor(p) /\ committing /\ Logged(tail) /\ tail < Len(lh)
        /\ (p \notin inop => ref = <<>>)
    BY <1>0, Busy DEF Places, Boots, Installing, Commits, Phase, Logging
  <1>3. tail \in Nat /\ Len(lh) \in Nat /\ lh \in Seq(Blocks) /\ Len(lh) <= LOGSIZE /\ LOGSIZE \in Nat
    BY <1>0, <1>2, LoggedFits, LogAssumption DEF TypesOK
  <1>4. Extra(p) = 2 /\ Top(p) = lh[tail + 1] /\ Top(p) \in Blocks
    BY <1>0, <1>2, SecondBuffer
  <1>5. pc'[p] = "write_log"
    BY <1>0, <1>1 DEF TypesOK
  <1>6. /\ held' \in [Proc -> Seq(Block)] /\ \A q \in Proc : q # p => held'[q] = held[q]
        /\ StackOK(p)' /\ Base(p)' = Base(p) /\ Pinned'
        /\ p \in inop => held'[p][Base(p)] = held[p][Base(p)]
    BY <1>0, <1>1, <1>4, <1>5, GiveBack DEF Logging, Heads
  <1>7. tail + 1 \in Slot
    BY <1>2, <1>3 DEF Slot
  <1>8. slot' \in [Slot -> Data] /\ slot'[tail + 1] = data[lh[tail + 1]]
        /\ \A i \in Slot : i # tail + 1 => slot'[i] = slot[i]
    BY <1>0, <1>1, <1>4, <1>7 DEF TypesOK
  <1>9. TypesOK'
    <2>1. tail' \in Nat
      BY <1>1, <1>3
    <2>2. pc' \in [Proc -> PCs]
      BY <1>0, <1>1 DEF TypesOK, PCs, Commits, Logging
    <2> QED BY <1>0, <1>1, <1>6, <1>8, <2>1, <2>2 DEF TypesOK
  <1>10. Coherent'
    <2>1. \A q \in Proc : q # p => ~ (q \in inop /\ pc[q] # "user")
      BY <1>2, Solo
    <2> QED BY <1>0, <1>1, <1>5, <1>6, <2>1, CoherentKept
  <1>11. Logged(tail)'
    <2>1. ASSUME NEW i \in 1 .. tail + 1 PROVE slot'[i] = data[lh[i]]
      <3>1. i \in Slot
        BY <1>2, <1>3 DEF Slot
      <3>2. i # tail + 1 => i \in 1 .. tail
        BY <1>3
      <3> QED BY <1>2, <1>8, <3>1, <3>2 DEF Logged
    <2>2. tail + 1 <= Len(lh)
      BY <1>2, <1>3
    <2> QED BY <1>1, <1>2, <2>1, <2>2 DEF Logged, Apart
  <1>12. Phase(p)' /\ Lists'
    BY <1>0, <1>1, <1>2, <1>5, <1>11 DEF Phase, Logging, Installing, Lists
  <1> QED BY <1>0, <1>1, <1>2, <1>6, <1>9, <1>10, <1>12, ActorStep
          DEF Writing, Commits, Logging, Installing

LEMMA WriteHeadReads ==
    ASSUME Alone, IInv, NEW p \in Proc, WriteHead(p), HeaderBlock \notin Holds(p)
    PROVE  IInv'
  <1>0. TypesOK /\ Places /\ Lists /\ Phase(p) /\ pc[p] \in {"write_head", "write_erased"}
        /\ StackOK(p) /\ ~ panic /\ p \notin waits
    BY DEF IInv, WriteHead, At, Stacks, Phases
  <1>1. UNCHANGED <<home, slot, header, booting, lh, outstanding, committing, inop,
                    tail, todo, noref, ref, pc>>
        /\ Bget(p, HeaderBlock) /\ waits' = waits
    BY DEF WriteHead, BreadLog, log
  <1>2. Actor(p) /\ Extra(p) = 0 /\ HeaderBlock \in Block
    BY <1>0, Busy, ExtraOf DEF Heads, Block
  <1>3. held'[p] = Append(held[p], HeaderBlock) /\ dirty' = dirty /\ pc'[p] = pc[p]
    BY <1>0, <1>1 DEF TypesOK, Bget
  <1>4. Extra(p)' = 1
    <2>1. held[p] \in Seq(Block)
      BY <1>0 DEF TypesOK
    <2>2. HeaderBlock \in ToSet(held'[p])
      BY <1>2, <1>3, <2>1, AppendFacts
    <2>3. (HeaderBlock \in Holds(p))'
      BY <2>2 DEF Holds, HeaderBlock
    <2>4. (pc[p] \in Heads)'
      BY <1>0, <1>3 DEF Heads
    <2> QED BY <2>3, <2>4 DEF Extra, Heads
  <1>5. StackOK(p)' /\ Base(p)' = Base(p) /\ \A i \in 1 .. Base(p) : held'[p][i] = held[p][i]
    <2>1. UNCHANGED <<lh, tail>> /\ (p \in inop' <=> p \in inop) /\ p \notin waits'
      BY <1>0, <1>1
    <2>2. pc[p] # "user" /\ pc'[p] # "user" /\ pc'[p] \in Heads
          /\ (pc'[p] \in Logging \cup Installing \cup {"write_head"} =>
                pc[p] \in Logging \cup Installing \cup {"write_head"})
      BY <1>0, <1>3 DEF Heads
    <2>3. Extra(p)' = Extra(p) + 1
      BY <1>2, <1>4
    <2> QED BY <1>0, <1>2, <1>3, <2>1, <2>2, <2>3, GrowStack
  <1>6. (\A x \in dirty : data'[x] = data[x]) => Phase(p)'
    BY <1>0, <1>1, <1>3, PhaseKept
  <1>7. pc' = [pc EXCEPT ![p] = pc[p]] /\ pc[p] \in PCs
    BY <1>0, <1>1 DEF TypesOK
  <1>8. IF booting THEN pc[p] \in Boots
        ELSE pc[p] \notin {"off", "read_head"} /\ pc[p] \notin Writing \cup {"classify"}
    BY <1>0 DEF Places, Writing
  <1>9. pc[p] # "user" /\ waits' \subseteq waits \cup {p} /\ waits \subseteq waits'
    BY <1>0, <1>1
  <1> QED BY <1>0, <1>1, <1>2, <1>5, <1>6, <1>7, <1>8, <1>9, TakeStep

LEMMA WriteHeadWrites ==
    ASSUME Alone, Roomy, IInv, NEW p \in Proc, WriteHead(p), HeaderBlock \in Holds(p)
    PROVE  IInv'
  <1>0. TypesOK /\ Places /\ Lists /\ Phase(p) /\ pc[p] \in {"write_head", "write_erased"}
        /\ StackOK(p) /\ ~ panic /\ p \notin waits /\ Pinned /\ Coherent /\ Phases
    BY DEF IInv, WriteHead, At, Stacks, Phases
  <1>1. UNCHANGED <<home, slot, cached, data, dirty, waits, booting, lh, outstanding, committing, inop,
                    todo, noref, ref, panic>>
        /\ header' = lh /\ tail' = 0 /\ Brelse(p, 1)
    BY DEF WriteHead, cache, log
  <1>2. PICK l : pc' = [pc EXCEPT ![p] = l] /\ l = (IF pc[p] = "write_head" THEN "install" ELSE "restore")
    BY DEF WriteHead, Goto
  <1>3. Actor(p) /\ Extra(p) = 1
    BY <1>0, Busy, ExtraOf DEF Heads
  <1>4. pc'[p] = l /\ l \in PCs /\ l \in {"install", "restore"} /\ l \in Boots /\ l \in Commits
    BY <1>0, <1>2 DEF TypesOK, PCs, Boots, Installing, Commits
  <1>5. lh \in Seq(Blocks) /\ Len(lh) \in Nat /\ LOGSIZE \in Nat
    BY <1>0, LogAssumption DEF TypesOK
  <1>6. /\ held' \in [Proc -> Seq(Block)] /\ \A q \in Proc : q # p => held'[q] = held[q]
        /\ StackOK(p)' /\ Base(p)' = Base(p) /\ Pinned'
        /\ p \in inop => held'[p][Base(p)] = held[p][Base(p)]
    <2>1. pc'[p] \in Logging \cup Installing \cup {"write_head"} =>
              lh' = lh /\ pc[p] \in Logging \cup Installing \cup {"write_head"}
      BY <1>0, <1>1, <1>2, <1>4 DEF Logging, Installing
    <2>2. Brelse(p, Extra(p))
      BY <1>1, <1>3
    <2> QED BY <1>0, <1>1, <1>4, <2>1, <2>2, GiveBack
  <1>7. TypesOK'
    BY <1>0, <1>1, <1>2, <1>4, <1>5, <1>6 DEF TypesOK
  <1>8. Coherent'
    <2>1. \A q \in Proc : q # p => ~ (q \in inop /\ pc[q] # "user")
      BY <1>3, Solo
    <2> QED BY <1>0, <1>1, <1>4, <1>6, <2>1, CoherentKept
  <1>9. pc[p] = "write_head" => ~ booting /\ Logged(Len(lh))
    BY <1>0 DEF Places, Boots, Installing, Phase
  <1>10. Len(lh) <= LOGSIZE
    <2>1. CASE pc[p] = "write_head"
      BY <1>0, <1>9, <2>1, LoggedFits
    <2>2. CASE pc[p] = "write_erased"
      <3>1. lh = <<>>
        BY <1>0, <2>2 DEF Phase
      <3> QED BY <1>5, <3>1
    <2> QED BY <1>0, <2>1, <2>2
  <1>11. Lists'
    BY <1>0, <1>1, <1>10 DEF Lists
  <1>12. p \notin inop => ref = <<>>
    BY <1>0 DEF Phase, Commits
  <1>13. Phase(p)'
    <2>1. CASE pc[p] = "write_head"
      <3>1. (\A i \in 1 .. tail : home[lh[i]] = slot[i])'
            /\ (\A i \in tail + 1 .. Len(lh) : data[lh[i]] = slot[i])'
        BY <1>1, <1>5, <1>9, <2>1 DEF Logged
      <3>2. Later(tail)' = ToSet(lh)
        <4>1. ASSUME NEW x PROVE x \in Later(tail)' <=> \E i \in 1 .. Len(lh) : lh[i] = x
          BY <1>1, <1>5 DEF Later
        <4> QED BY <1>5, <4>1, Elements
      <3>3. Placed(tail)'
        BY <1>1, <1>5, <1>9, <2>1, <3>1, <3>2 DEF Placed, Logged, Apart
      <3>4. l = "install"
        BY <1>2, <2>1
      <3> QED BY <1>1, <1>4, <1>12, <3>3, <3>4 DEF Phase, Logging, Installing
    <2>2. CASE pc[p] = "write_erased"
      <3>1. lh = <<>> /\ dirty = ToSet(ref)
        BY <1>0, <2>2 DEF Phase
      <3>2. l = "restore"
        BY <1>2, <2>2
      <3> QED BY <1>1, <1>4, <1>12, <3>1, <3>2 DEF Phase, Logging, Installing
    <2> QED BY <1>0, <2>1, <2>2
  <1>14. IF booting THEN inop' = {} /\ ~ committing' /\ ref' = <<>> ELSE committing'
    <2>1. pc[p] \in Commits
      BY <1>0 DEF Commits
    <2> QED BY <1>0, <1>1, <2>1 DEF Places, Phases
  <1>15. l \notin {"off", "read_head"} \cup Writing \cup {"classify"}
    BY <1>4 DEF Writing
  <1> QED BY <1>1, <1>2, <1>3, <1>4, <1>6, <1>7, <1>8, <1>11, <1>13, <1>14, <1>15, ActorStep

-----------------------------------------------------------------------------
(* commit(), from the header on, and recovery *)

\* What is installed has a place on the disk.
LEMMA PlacedFits ==
    ASSUME IInv, NEW n, Placed(n)
    PROVE  Len(lh) <= LOGSIZE
  BY DEF IInv, Lists, Placed

LEMMA InstallKeeps ==
    ASSUME Alone, IInv, NEW p \in Proc, Install(p)
    PROVE  IInv'
  <1>0. TypesOK /\ Places /\ Lists /\ Phase(p) /\ pc[p] = "install" /\ p \notin waits /\ StackOK(p)
        /\ ~ panic /\ Phases
    BY DEF IInv, Install, At, Stacks, Phases
  <1>1. UNCHANGED <<home, slot, header, booting, lh, outstanding, committing, inop,
                    tail, todo, noref, ref>>
    BY DEF Install, disk, log, frame
  <1>2. Actor(p) /\ Extra(p) = 0 /\ Placed(tail)
        /\ (p \notin inop => ref = <<>>)
    BY <1>0, Busy, ExtraOf DEF Heads, Commits, Phase, Installing
  <1>3. tail \in Nat /\ Len(lh) \in Nat /\ Len(lh) <= LOGSIZE /\ LOGSIZE \in Nat /\ tail <= Len(lh)
    BY <1>0, <1>2, PlacedFits, LogAssumption DEF TypesOK, Placed
  <1>4. CASE tail < Len(lh)
    <2>1. Bget(p, tail + 1) /\ waits' = waits /\ pc' = [pc EXCEPT ![p] = "install_dst"]
      BY <1>4 DEF Install, BreadLog, Goto
    <2>2. tail + 1 \in Block
      BY <1>3, <1>4 DEF Block, Slot
    <2>3. pc'[p] = "install_dst" /\ held'[p] = Append(held[p], tail + 1) /\ dirty' = dirty
      BY <1>0, <2>1 DEF TypesOK, Bget
    <2>4. Extra(p)' = 1 /\ Extra(p)' = Extra(p) + 1
      <3>1. Extra(p)' = 1
        BY <2>3 DEF Extra
      <3> QED BY <1>2, <3>1
    <2>5. StackOK(p)' /\ Base(p)' = Base(p) /\ \A i \in 1 .. Base(p) : held'[p][i] = held[p][i]
      <3>1. {"install", "install_dst"} \cap Heads = {}
            /\ {"install", "install_dst"} \subseteq Logging \cup Installing \cup {"write_head"}
        BY DEF Heads, Installing
      <3>2. UNCHANGED <<lh, tail>> /\ (p \in inop' <=> p \in inop)
        BY <1>1
      <3>3. pc[p] # "user" /\ pc'[p] # "user" /\ pc[p] \notin Heads /\ pc'[p] \notin Heads
            /\ pc[p] \in Logging \cup Installing \cup {"write_head"} /\ p \notin waits'
        BY <1>0, <2>1, <2>3, <3>1
      <3> QED BY <1>0, <1>2, <2>2, <2>3, <2>4, <3>2, <3>3, GrowStack
    <2>6. (\A x \in dirty : data'[x] = data[x]) => Phase(p)'
      <3>1. (\A x \in dirty : data'[x] = data[x]) => Placed(tail)'
        BY <1>0, <1>1, <1>2, <2>3, DiskKept
      <3> QED BY <1>1, <1>2, <1>4, <2>3, <3>1 DEF Phase, Logging, Installing
    <2> QED BY <1>0, <1>1, <1>2, <2>1, <2>2, <2>5, <2>6, TakeStep
            DEF PCs, Boots, Writing, Commits, Logging, Installing
  <1>5. CASE ~ (tail < Len(lh))
    <2>1. UNCHANGED <<cached, data, dirty, held, waits, panic>>
          /\ pc' = [pc EXCEPT ![p] = "erase"]
      BY <1>5 DEF Install, cache, Goto
    <2>2. pc'[p] = "erase"
      BY <1>0, <2>1 DEF TypesOK
    <2>3. TypesOK' /\ Lists'
      BY <1>0, <1>1, <2>1 DEF TypesOK, Lists, PCs, Commits
    <2>4. tail = Len(lh)
      BY <1>3, <1>5
    <2>5. Placed(Len(lh))'
      BY <1>1, <1>2, <2>1, <2>4 DEF Placed, Apart, Later
    <2>6. Phase(p)'
      BY <1>1, <1>2, <2>2, <2>5 DEF Phase, Logging, Installing
    <2>7. p \in inop <=> Len(held[p]) > 0
      BY <1>0, <1>2, HoldsFor
    <2>8. IF booting THEN inop' = {} /\ ~ committing' /\ ref' = <<>> ELSE committing'
      BY <1>0, <1>1 DEF Places, Phases, Commits, Installing
    <2>9. "erase" \in Boots /\ "erase" \in Commits /\ "erase" \notin Writing
      BY DEF Boots, Commits, Writing
    <2> QED BY <1>0, <1>1, <1>2, <2>1, <2>3, <2>6, <2>7, <2>8, <2>9, MoveStep
  <1> QED BY <1>4, <1>5

LEMMA InstallDstKeeps ==
    ASSUME Alone, IInv, NEW p \in Proc, InstallDst(p)
    PROVE  IInv'
  <1>0. TypesOK /\ Places /\ Lists /\ Phase(p) /\ pc[p] = "install_dst" /\ StackOK(p) /\ ~ panic
        /\ p \notin waits
    BY DEF IInv, InstallDst, At, Stacks, Phases
  <1>1. UNCHANGED <<home, slot, header, booting, lh, outstanding, committing, inop,
                    tail, todo, noref, ref>>
        /\ Bget(p, lh[tail + 1]) /\ waits' = waits \cup {p} /\ pc' = [pc EXCEPT ![p] = "install_copy"]
    BY DEF InstallDst, BreadHome, disk, log, frame, Goto
  <1>2. Actor(p) /\ Extra(p) = 1 /\ Placed(tail) /\ tail < Len(lh)
        /\ (p \notin inop => ref = <<>>)
    BY <1>0, Busy, ExtraOf DEF Commits, Phase, Installing
  <1>3. tail \in Nat /\ Len(lh) \in Nat /\ lh \in Seq(Blocks)
    BY <1>0 DEF TypesOK
  <1>4. lh[tail + 1] \in Blocks /\ lh[tail + 1] \in Block
    BY <1>2, <1>3 DEF Block
  <1>5. pc'[p] = "install_copy" /\ held'[p] = Append(held[p], lh[tail + 1]) /\ dirty' = dirty
    BY <1>0, <1>1 DEF TypesOK, Bget
  <1>6. Extra(p)' = 2 /\ Extra(p)' = Extra(p) + 1
    <2>1. Extra(p)' = 2
      BY <1>5 DEF Extra, Heads
    <2> QED BY <1>2, <2>1
  <1>7. StackOK(p)' /\ Base(p)' = Base(p) /\ \A i \in 1 .. Base(p) : held'[p][i] = held[p][i]
    <2>1. {"install_dst", "install_copy"} \cap Heads = {}
          /\ {"install_dst", "install_copy"} \subseteq Logging \cup Installing \cup {"write_head"}
      BY DEF Heads, Installing
    <2>2. UNCHANGED <<lh, tail>> /\ (p \in inop' <=> p \in inop)
      BY <1>1
    <2>3. pc[p] # "user" /\ pc'[p] # "user" /\ pc[p] \notin Heads /\ pc'[p] \notin Heads
          /\ pc'[p] \in {"log_copy", "install_copy"}
          /\ pc[p] \in Logging \cup Installing \cup {"write_head"}
      BY <1>0, <1>5, <2>1
    <2>4. Extra(p) = 1 /\ Extra(p)' = Extra(p) + 1
      BY <1>2, <1>6
    <2> QED BY <1>0, <1>4, <1>5, <2>2, <2>3, <2>4, GrowStack
  <1>8. (\A x \in dirty : data'[x] = data[x]) => Phase(p)'
    <2>1. (\A x \in dirty : data'[x] = data[x]) => Placed(tail)'
      BY <1>0, <1>1, <1>2, <1>5, DiskKept
    <2> QED BY <1>1, <1>2, <1>5, <2>1 DEF Phase, Logging, Installing
  <1> QED BY <1>0, <1>1, <1>2, <1>4, <1>7, <1>8, TakeStep
          DEF PCs, Boots, Writing, Commits, Logging, Installing

LEMMA InstallCopyKeeps ==
    ASSUME Alone, IInv, NEW p \in Proc, InstallCopy(p)
    PROVE  IInv'
  <1>0. TypesOK /\ Places /\ Lists /\ Phase(p) /\ pc[p] = "install_copy" /\ StackOK(p) /\ ~ panic
        /\ p \notin waits /\ Pinned /\ Coherent /\ Phases
    BY DEF IInv, InstallCopy, At, Stacks, Phases
  <1>1. UNCHANGED <<slot, header, cached, waits, lh, outstanding, committing, inop,
                    todo, noref, ref, booting, panic>>
        /\ data' = [data EXCEPT ![Top(p)] = slot[tail + 1]]
        /\ home' = [home EXCEPT ![Top(p)] = slot[tail + 1]]
        /\ dirty' = dirty \ {Top(p)} /\ Brelse(p, 2)
        /\ tail' = tail + 1 /\ pc' = [pc EXCEPT ![p] = "install"]
    BY DEF InstallCopy, log, Goto
  <1>2. Actor(p) /\ Placed(tail) /\ tail < Len(lh) /\ (p \notin inop => ref = <<>>)
    BY <1>0, Busy DEF Installing, Commits, Phase
  <1>3. tail \in Nat /\ Len(lh) \in Nat /\ lh \in Seq(Blocks) /\ Len(lh) <= LOGSIZE /\ LOGSIZE \in Nat
    BY <1>0, <1>2, PlacedFits, LogAssumption DEF TypesOK
  <1>4. Extra(p) = 2 /\ Top(p) = lh[tail + 1] /\ Top(p) \in Blocks
    BY <1>0, <1>2, SecondBuffer
  <1>5. PICK b, v : b = lh[tail + 1] /\ v = slot[tail + 1]
    OBVIOUS
  <1>6. pc'[p] = "install"
    BY <1>0, <1>1 DEF TypesOK
  <1>7. /\ held' \in [Proc -> Seq(Block)] /\ \A q \in Proc : q # p => held'[q] = held[q]
        /\ StackOK(p)' /\ Base(p)' = Base(p) /\ Pinned'
        /\ p \in inop => held'[p][Base(p)] = held[p][Base(p)]
    <2>1. dirty' \subseteq dirty /\ Brelse(p, Extra(p))
      BY <1>1, <1>4
    <2> QED BY <1>0, <1>1, <1>6, <2>1, GiveBack DEF Installing, Heads
  <1>8. b \in Blocks /\ v \in Data
    <2>1. tail + 1 \in Slot
      BY <1>2, <1>3 DEF Slot
    <2> QED BY <1>0, <1>4, <1>5, <2>1 DEF TypesOK
  <1>9. /\ data' \in [Blocks -> Data] /\ home' \in [Blocks -> Data] /\ data'[b] = v /\ home'[b] = v
        /\ \A x \in Blocks : x # b => data'[x] = data[x] /\ home'[x] = home[x]
        /\ dirty' = dirty \ {b}
    BY <1>0, <1>1, <1>4, <1>5, <1>8 DEF TypesOK
  <1>10. TypesOK'
    <2>1. tail' \in Nat
      BY <1>1, <1>3
    <2>2. pc' \in [Proc -> PCs]
      BY <1>0, <1>1 DEF TypesOK, PCs, Commits, Installing
    <2>3. dirty' \subseteq Blocks
      BY <1>0, <1>9 DEF TypesOK
    <2> QED BY <1>0, <1>1, <1>7, <1>9, <2>1, <2>2, <2>3 DEF TypesOK
  <1>11. Coherent'
    <2>1. SUFFICES ASSUME NEW x \in (cached \cap Blocks) \ dirty'
                   PROVE  data'[x] = home'[x] \/ \E q \in Proc : Changes(q, x)'
      BY <1>1 DEF Coherent
    <2>2. CASE x = b
      BY <1>9, <2>2
    <2>3. CASE x # b
      <3>1. data[x] = home[x] \/ \E q \in Proc : Changes(q, x)
        BY <1>0, <1>9, <2>3 DEF Coherent
      <3>2. ASSUME NEW q \in Proc, Changes(q, x) PROVE Changes(p, x)'
        <4>1. q = p
          BY <1>2, <3>2, Solo DEF Changes
        <4> QED BY <1>1, <1>6, <1>7, <3>2, <4>1 DEF Changes
      <3> QED BY <1>9, <2>3, <3>1, <3>2
    <2> QED BY <2>2, <2>3
  <1>12. \A i \in 1 .. Len(lh) : lh[i] \in Blocks /\ lh[i] \in ToSet(lh) /\ (lh[i] = b => i = tail + 1)
    <2>1. tail + 1 \in 1 .. Len(lh)
      BY <1>2, <1>3
    <2>2. \A i, j \in 1 .. Len(lh) : lh[i] = lh[j] => i = j
      BY <1>0, <1>3, Injective DEF Lists
    <2>3. \A i \in 1 .. Len(lh) : lh[i] = b => i = tail + 1
      BY <1>5, <2>1, <2>2
    <2>4. \A i \in 1 .. Len(lh) : lh[i] \in Blocks /\ lh[i] \in ToSet(lh)
      BY <1>3, Elements
    <2> QED BY <2>3, <2>4
  <1>13. Placed(tail)'
    <2>1. tail + 1 <= Len(lh) /\ tail + 1 \in 1 .. Len(lh)
      BY <1>2, <1>3
    <2>2. header = lh /\ Apart(lh, ref) /\ dirty = (IF booting THEN {} ELSE Later(tail)) \cup ToSet(ref)
          /\ (\A i \in 1 .. tail : home[lh[i]] = slot[i])
          /\ (~ booting => \A i \in tail + 1 .. Len(lh) : data[lh[i]] = slot[i])
      BY <1>2 DEF Placed
    <2>3. ASSUME NEW i \in 1 .. tail + 1 PROVE home'[lh[i]] = slot[i]
      <3>1. CASE i = tail + 1
        BY <1>5, <1>9, <3>1
      <3>2. CASE i # tail + 1
        <4>1. i \in 1 .. tail /\ i \in 1 .. Len(lh)
          BY <1>3, <2>1, <3>2
        <4> QED BY <1>9, <1>12, <2>2, <3>2, <4>1
      <3> QED BY <3>1, <3>2
    <2>4. ASSUME ~ booting, NEW i \in (tail + 1) + 1 .. Len(lh) PROVE data'[lh[i]] = slot[i]
      <3>1. i \in tail + 1 .. Len(lh) /\ i \in 1 .. Len(lh) /\ i # tail + 1
        BY <1>3
      <3> QED BY <1>9, <1>12, <2>2, <2>4, <3>1
    <2>5. dirty' = (IF booting THEN {} ELSE {lh[i] : i \in (tail + 1) + 1 .. Len(lh)}) \cup ToSet(ref)
      <3>1. b \in ToSet(lh) /\ b \notin ToSet(ref)
        BY <1>5, <1>12, <2>1, <2>2 DEF Apart
      <3>2. CASE booting
        BY <1>9, <2>2, <3>1, <3>2
      <3>3. CASE ~ booting
        <4>1. ASSUME NEW x
              PROVE  x \in Later(tail) \ {b} <=> x \in {lh[i] : i \in (tail + 1) + 1 .. Len(lh)}
          <5>1. x \in Later(tail) <=> \E i \in tail + 1 .. Len(lh) : x = lh[i]
            BY DEF Later
          <5>2. ASSUME NEW i \in tail + 1 .. Len(lh), lh[i] # b PROVE i \in (tail + 1) + 1 .. Len(lh)
            BY <1>3, <1>5, <5>2
          <5>3. ASSUME NEW i \in (tail + 1) + 1 .. Len(lh)
                PROVE  i \in tail + 1 .. Len(lh) /\ lh[i] # b
            <6>1. i \in tail + 1 .. Len(lh) /\ i \in 1 .. Len(lh) /\ i # tail + 1
              BY <1>3
            <6> QED BY <1>12, <6>1
          <5> QED BY <5>1, <5>2, <5>3
        <4>2. Later(tail) \ {b} = {lh[i] : i \in (tail + 1) + 1 .. Len(lh)}
          BY <4>1
        <4> QED BY <1>9, <2>2, <3>1, <3>3, <4>2
      <3> QED BY <3>2, <3>3
    <2>6. Later(tail)' = {lh[i] : i \in (tail + 1) + 1 .. Len(lh)}
      BY <1>1 DEF Later
    <2>7. header' = lh' /\ Apart(lh', ref') /\ tail' <= Len(lh')
      BY <1>1, <2>1, <2>2
    <2>8. (dirty = (IF booting THEN {} ELSE Later(tail)) \cup ToSet(ref))'
      BY <1>1, <2>5, <2>6
    <2>9. (\A i \in 1 .. tail : home[lh[i]] = slot[i])'
      BY <1>1, <2>3
    <2>10. (~ booting => \A i \in tail + 1 .. Len(lh) : data[lh[i]] = slot[i])'
      BY <1>1, <2>4
    <2> QED BY <2>7, <2>8, <2>9, <2>10 DEF Placed, Apart
  <1>14. Phase(p)' /\ Lists'
    BY <1>0, <1>1, <1>2, <1>6, <1>13 DEF Phase, Logging, Installing, Lists
  <1>15. IF booting THEN inop' = {} /\ ~ committing' /\ ref' = <<>> ELSE committing'
    BY <1>0, <1>1 DEF Places, Phases, Commits, Installing
  <1>16. "install" \in Boots /\ "install" \in Commits /\ "install" \notin Writing
    BY DEF Boots, Commits, Writing, Installing
  <1> QED BY <1>1, <1>2, <1>7, <1>10, <1>11, <1>14, <1>15, <1>16, ActorStep

LEMMA EraseKeeps ==
    ASSUME Alone, IInv, NEW p \in Proc, Erase(p)
    PROVE  IInv'
  <1>0. TypesOK /\ Places /\ Lists /\ Phase(p) /\ pc[p] = "erase" /\ p \notin waits /\ StackOK(p)
        /\ Phases
    BY DEF IInv, Erase, At, Stacks, Phases
  <1>1. UNCHANGED <<home, slot, header, cached, data, dirty, held, waits, panic, booting,
                    outstanding, committing, inop, tail, todo, noref, ref>>
        /\ lh' = <<>> /\ pc' = [pc EXCEPT ![p] = "write_erased"]
    BY DEF Erase, disk, cache, frame, Goto
  <1>2. Actor(p) /\ Extra(p) = 0 /\ Placed(Len(lh)) /\ (p \notin inop => ref = <<>>)
    BY <1>0, Busy, ExtraOf DEF Heads, Commits, Phase
  <1>3. pc'[p] = "write_erased"
    BY <1>0, <1>1 DEF TypesOK
  <1>4. p \in inop <=> Len(held[p]) > 0
    BY <1>0, <1>2, HoldsFor
  <1>5. TypesOK'
    <2>1. <<>> \in Seq(Blocks)
      OBVIOUS
    <2> QED BY <1>0, <1>1, <2>1 DEF TypesOK, PCs, Commits
  <1>6. Lists'
    BY <1>0, <1>1, NoBlocks DEF Lists
  <1>7. Phase(p)'
    <2>1. lh \in Seq(Blocks) /\ Len(lh) \in Nat
      BY <1>0 DEF TypesOK
    <2>2. Later(Len(lh)) = {}
      BY <2>1 DEF Later
    <2>3. dirty = ToSet(ref) /\ \A i \in 1 .. Len(header) : home[header[i]] = slot[i]
      BY <1>2, <2>2 DEF Placed
    <2> QED BY <1>1, <1>2, <1>3, <2>3 DEF Phase, Logging, Installing
  <1>8. IF booting THEN inop' = {} /\ ~ committing' /\ ref' = <<>> ELSE committing'
    BY <1>0, <1>1 DEF Places, Phases, Commits
  <1>9. "write_erased" \in Boots /\ "write_erased" \in Commits /\ "write_erased" \notin Writing
    BY DEF Boots, Commits, Writing
  <1> QED BY <1>0, <1>1, <1>2, <1>4, <1>5, <1>6, <1>7, <1>8, <1>9, MoveStep

LEMMA RestoreKeeps ==
    ASSUME Alone, IInv, NEW p \in Proc, Restore(p)
    PROVE  IInv'
  <1>0. TypesOK /\ Places /\ Lists /\ Phase(p) /\ pc[p] = "restore" /\ p \notin waits /\ StackOK(p)
        /\ ~ booting
    BY DEF IInv, Restore, At, Stacks, Phases
  <1>1. UNCHANGED <<home, slot, header, cached, data, dirty, held, waits, panic, booting,
                    outstanding, committing, inop, tail, todo, noref>>
        /\ lh' = (IF p \notin inop THEN lh ELSE ref) /\ ref' = <<>>
        /\ pc' = [pc EXCEPT ![p] = "end"]
    BY DEF Restore, disk, cache, Goto, SyncAll
  <1>2. Actor(p) /\ Extra(p) = 0 /\ (p \notin inop => ref = <<>>)
        /\ lh = <<>> /\ header = <<>> /\ dirty = ToSet(ref) /\ committing
    BY <1>0, Busy, ExtraOf DEF Heads, Commits, Phase, Places
  <1>3. pc'[p] = "end"
    BY <1>0, <1>1 DEF TypesOK
  <1>4. p \in inop <=> Len(held[p]) > 0
    BY <1>0, <1>2, HoldsFor
  <1>5. TypesOK'
    <2>1. <<>> \in Seq(Blocks)
      OBVIOUS
    <2> QED BY <1>0, <1>1, <2>1 DEF TypesOK, PCs, Commits
  <1>6. Lists'
    BY <1>0, <1>1, NoBlocks DEF Lists
  <1>7. lh' = ref
    BY <1>1, <1>2
  <1>8. Phase(p)'
    BY <1>1, <1>2, <1>3, <1>7 DEF Phase, Logging, Installing, Quiet
  <1>9. "end" \in Commits /\ "end" \notin Writing
    BY DEF Commits, Writing
  <1> QED BY <1>0, <1>1, <1>2, <1>4, <1>5, <1>6, <1>8, <1>9, MoveStep

LEMMA CommitEndKeeps ==
    ASSUME Alone, IInv, NEW p \in Proc, CommitEnd(p)
    PROVE  IInv'
  <1>0. TypesOK /\ Places /\ Lists /\ Phase(p) /\ pc[p] = "end" /\ p \notin waits /\ StackOK(p)
    BY DEF IInv, CommitEnd, At, Stacks, Phases
  <1>1. UNCHANGED <<home, slot, header, cached, data, dirty, held, waits, panic, booting,
                    lh, outstanding, inop, tail, todo, noref, ref>> /\ committing' = FALSE
    BY DEF CommitEnd, disk, cache, frame
  <1>2. PICK l : pc' = [pc EXCEPT ![p] = l] /\ l = (IF p \notin inop THEN "user" ELSE "append")
    BY DEF CommitEnd, Goto, SyncAll
  <1>3. Actor(p) /\ Extra(p) = 0 /\ ~ booting /\ Quiet
    BY <1>0, Busy, ExtraOf DEF Heads, Commits, Phase, Places, Boots, Installing
  <1>4. pc'[p] = l /\ l \in {"user", "append"}
    BY <1>0, <1>2 DEF TypesOK
  <1>5. p \in inop <=> Len(held[p]) > 0
    BY <1>0, <1>3, HoldsFor
  <1>6. TypesOK'
    BY <1>0, <1>1, <1>2, <1>4 DEF TypesOK, PCs, Writing
  <1>7. Lists' /\ Quiet' /\ Phase(p)'
    BY <1>0, <1>1, <1>3, <1>4 DEF Lists, Quiet, Phase, Logging, Installing, Commits
  <1>8. l \notin Commits
    BY <1>4 DEF Commits, Logging, Installing
  <1>9. (p \in inop => l # "user") /\ (l # "user" => p \in inop)
    BY <1>2
  <1> QED BY <1>0, <1>1, <1>2, <1>3, <1>4, <1>5, <1>6, <1>7, <1>8, <1>9, MoveStep DEF Writing

LEMMA ReadHeadReads ==
    ASSUME Alone, IInv, NEW p \in Proc, ReadHead(p), HeaderBlock \notin Holds(p)
    PROVE  IInv'
  <1>0. TypesOK /\ Places /\ Lists /\ Phase(p) /\ pc[p] = "read_head"
        /\ StackOK(p) /\ ~ panic /\ p \notin waits /\ booting
    BY DEF IInv, ReadHead, At, Stacks, Phases, Places
  <1>1. UNCHANGED <<home, slot, header, booting, lh, outstanding, committing, inop,
                    tail, todo, noref, ref, pc>>
        /\ Bget(p, HeaderBlock) /\ waits' = waits
    BY DEF ReadHead, BreadLog, disk, frame
  <1>2. Actor(p) /\ Extra(p) = 0 /\ HeaderBlock \in Block
    BY <1>0, Busy, ExtraOf DEF Heads, Block
  <1>3. held'[p] = Append(held[p], HeaderBlock) /\ dirty' = dirty /\ pc'[p] = pc[p]
    BY <1>0, <1>1 DEF TypesOK, Bget
  <1>4. Extra(p)' = 1
    <2>1. held[p] \in Seq(Block)
      BY <1>0 DEF TypesOK
    <2>2. HeaderBlock \in ToSet(held'[p])
      BY <1>2, <1>3, <2>1, AppendFacts
    <2>3. (HeaderBlock \in Holds(p))'
      BY <2>2 DEF Holds, HeaderBlock
    <2>4. (pc[p] \in Heads)'
      BY <1>0, <1>3 DEF Heads
    <2> QED BY <2>3, <2>4 DEF Extra, Heads
  <1>5. StackOK(p)' /\ Base(p)' = Base(p) /\ \A i \in 1 .. Base(p) : held'[p][i] = held[p][i]
    <2>1. UNCHANGED <<lh, tail>> /\ (p \in inop' <=> p \in inop) /\ p \notin waits'
      BY <1>0, <1>1
    <2>2. pc[p] # "user" /\ pc'[p] # "user" /\ pc'[p] \in Heads
          /\ pc'[p] \notin Logging \cup Installing \cup {"write_head"}
      BY <1>0, <1>3 DEF Heads, Logging, Installing
    <2>3. Extra(p)' = Extra(p) + 1
      BY <1>2, <1>4
    <2> QED BY <1>0, <1>2, <1>3, <2>1, <2>2, <2>3, GrowStack
  <1>6. (\A x \in dirty : data'[x] = data[x]) => Phase(p)'
    BY <1>0, <1>1, <1>3, PhaseKept
  <1>7. pc' = [pc EXCEPT ![p] = pc[p]] /\ pc[p] \in PCs
    BY <1>0, <1>1 DEF TypesOK
  <1>8. pc[p] \in Boots
    BY <1>0 DEF Boots
  <1>9. pc[p] # "user" /\ waits' \subseteq waits \cup {p} /\ waits \subseteq waits'
    BY <1>0, <1>1
  <1> QED BY <1>0, <1>1, <1>2, <1>5, <1>6, <1>7, <1>8, <1>9, TakeStep

LEMMA ReadHeadStarts ==
    ASSUME Alone, IInv, NEW p \in Proc, ReadHead(p), HeaderBlock \in Holds(p)
    PROVE  IInv'
  <1>0. TypesOK /\ Places /\ Lists /\ Phase(p) /\ pc[p] = "read_head"
        /\ StackOK(p) /\ ~ panic /\ p \notin waits /\ Pinned /\ Coherent /\ Phases /\ booting
    BY DEF IInv, ReadHead, At, Stacks, Phases, Places
  <1>1. UNCHANGED <<home, slot, header, cached, data, dirty, waits, booting, outstanding, committing,
                    inop, tail, todo, noref, ref, panic>>
        /\ lh' = header /\ Brelse(p, 1) /\ pc' = [pc EXCEPT ![p] = "install"]
    BY DEF ReadHead, cache, disk, frame, Goto
  <1>2. Actor(p) /\ Extra(p) = 1 /\ ref = <<>> /\ tail = 0 /\ dirty = {} /\ inop = {} /\ ~ committing
    BY <1>0, Busy, ExtraOf DEF Heads, Phase, Phases, Places
  <1>3. pc'[p] = "install"
    BY <1>0, <1>1 DEF TypesOK
  <1>4. /\ held' \in [Proc -> Seq(Block)] /\ \A q \in Proc : q # p => held'[q] = held[q]
        /\ StackOK(p)' /\ Base(p)' = Base(p) /\ Pinned'
        /\ p \in inop => held'[p][Base(p)] = held[p][Base(p)]
    <2>1. Base(p) = 0
      BY <1>0, <1>2 DEF StackOK
    <2>2. Brelse(p, Extra(p)) /\ dirty' \subseteq dirty /\ (p \in inop' <=> p \in inop)
      BY <1>1, <1>2
    <2> QED BY <1>0, <1>1, <1>3, <2>1, <2>2, GiveBack
  <1>5. header \in Seq(Blocks) /\ Len(header) \in Nat
    BY <1>0 DEF TypesOK
  <1>6. TypesOK'
    BY <1>0, <1>1, <1>4 DEF TypesOK, PCs, Commits, Installing
  <1>7. Coherent'
    <2>1. \A q \in Proc : q # p => ~ (q \in inop /\ pc[q] # "user")
      BY <1>2, Solo
    <2> QED BY <1>0, <1>1, <1>2, <2>1, CoherentKept
  <1>8. Lists'
    BY <1>0, <1>1 DEF Lists
  <1>9. Placed(tail)'
    BY <1>0, <1>1, <1>2, <1>5, NoBlocks DEF Placed, Apart
  <1>10. Phase(p)'
    BY <1>1, <1>2, <1>3, <1>9 DEF Phase, Logging, Installing
  <1> QED BY <1>0, <1>1, <1>2, <1>4, <1>6, <1>7, <1>8, <1>10, ActorStep DEF Boots, Installing

LEMMA BootDoneKeeps ==
    ASSUME IInv, NEW p \in Proc, BootDone(p)
    PROVE  IInv'
  <1>0. TypesOK /\ Places /\ Lists /\ Phase(p) /\ pc[p] = "restore" /\ p \notin waits /\ booting
        /\ Pinned /\ Coherent /\ Phases /\ Stacks
    BY DEF IInv, BootDone, At, Phases
  <1>1. UNCHANGED <<home, slot, header, cached, data, dirty, held, waits, panic, lh,
                    outstanding, committing, inop, tail, todo, noref, ref>>
        /\ booting' = FALSE /\ pc' = [q \in Proc |-> "user"]
    BY DEF BootDone, disk, cache, log, frame
  <1>2. inop = {} /\ ~ committing /\ ref = <<>> /\ lh = <<>> /\ header = <<>> /\ dirty = {}
    BY <1>0, NoBlocks DEF Places, Phases, Phase
  <1>3. ASSUME NEW q \in Proc PROVE pc[q] \in {"restore", "off"} /\ pc'[q] = "user" /\ q \notin waits
    <2>1. pc[q] \in {"restore", "off"}
      BY <1>0 DEF Places
    <2>2. q \notin waits
      BY <1>0, <2>1 DEF Stacks, StackOK
    <2> QED BY <1>1, <2>1, <2>2
  <1>4. ASSUME NEW q \in Proc PROVE StackOK(q)'
    <2>1. StackOK(q) /\ Extra(q) = 0
      BY <1>0, <1>3, ExtraOf DEF Stacks, Heads
    <2>2. Extra(q)' = 0
      BY <1>3 DEF Extra, Heads
    <2>3. Base(q)' = Base(q)
      BY <1>1, <2>1, <2>2 DEF Base
    <2>4. Base(q) \in Nat /\ \A i \in 1 .. Base(q) : held[q][i] \in Blocks
      BY <2>1 DEF StackOK
    <2>5. (\A i \in 1 .. Base(q) : held[q][i] \in Blocks)'
      BY <1>1, <2>3, <2>4
    <2>6. q \notin waits' /\ pc'[q] = "user"
      BY <1>1, <1>3
    <2> QED BY <2>2, <2>3, <2>4, <2>5, <2>6 DEF StackOK, Logging, Installing
  <1>5. TypesOK'
    BY <1>0, <1>1 DEF TypesOK, PCs
  <1>6. Places'
    BY <1>1, <1>2, <1>3 DEF Places, Writing, Commits, Logging, Installing
  <1>7. Pinned' /\ Lists'
    BY <1>0, <1>1 DEF Pinned, Referred, Holds, Lists
  <1>8. Coherent'
    BY <1>0, <1>1, <1>2 DEF Coherent, Changes
  <1>9. \A q \in Proc : Phase(q)'
    BY <1>3 DEF Phase, Logging, Installing, Commits
  <1>10. Phases'
    BY <1>1, <1>2, <1>9, NoBlocks DEF Phases, Quiet
  <1> QED BY <1>4, <1>5, <1>6, <1>7, <1>8, <1>10 DEF IInv, Stacks

-----------------------------------------------------------------------------
(* The invariant *)

LEMMA InitHolds ==
    ASSUME Init
    PROVE  IInv
  <1>1. \A q \in Proc : /\ pc[q] = (IF q = Booter THEN "read_head" ELSE "off") /\ held[q] = <<>>
                        /\ Extra(q) = 0 /\ Base(q) = 0
    <2>1. ASSUME NEW q \in Proc PROVE pc[q] \in {"read_head", "off"} /\ held[q] = <<>> /\ Holds(q) = {}
      BY NoBlocks DEF Init, Holds
    <2>2. ASSUME NEW q \in Proc PROVE Extra(q) = 0
      BY <2>1, ExtraOf DEF Heads
    <2>3. ASSUME NEW q \in Proc PROVE Base(q) = 0
      BY <2>1, <2>2 DEF Base
    <2> QED BY <2>1, <2>2, <2>3 DEF Init
  <1>2. TypesOK
    <2>1. IsFiniteSet({}) /\ Cardinality({}) = 0
      BY FS_EmptySet
    <2>2. NBUF \in Nat
      BY LogAssumption
    <2>3. outstanding = Cardinality(inop) /\ IsFiniteSet(cached) /\ Cardinality(cached) <= NBUF
      BY <2>1, <2>2 DEF Init
    <2>4. Blank \in Data
      BY LogAssumption
    <2>5. <<>> \in Seq(Blocks) /\ <<>> \in Seq(Block)
      OBVIOUS
    <2> QED BY <2>3, <2>4, <2>5 DEF Init, TypesOK, PCs
  <1>3. Places
    BY <1>1 DEF Init, Places, Boots
  <1>4. Stacks
    BY <1>1 DEF Init, Stacks, StackOK, Logging, Installing
  <1>5. Pinned
    BY <1>1, NoBlocks DEF Init, Pinned, Referred, Holds
  <1>6. Coherent
    BY DEF Init, Coherent
  <1>7. Lists
    BY NoBlocks, LogAssumption DEF Init, Lists
  <1>8. \A q \in Proc : Phase(q)
    BY <1>1 DEF Init, Phase, Logging, Installing, Commits
  <1>9. Phases
    BY <1>8 DEF Init, Phases
  <1> QED BY <1>2, <1>3, <1>4, <1>5, <1>6, <1>7, <1>9 DEF IInv

LEMMA CrashKeeps ==
    ASSUME IInv, Crash
    PROVE  IInv'
  <1>0. /\ home \in [Blocks -> Data] /\ slot \in [Slot -> Data] /\ header \in Seq(Blocks)
        /\ IsInjective(header) /\ Len(header) <= LOGSIZE
    BY DEF IInv, TypesOK, Lists
  <1>1. UNCHANGED <<home, slot, header>> /\ Reset
    BY DEF Crash, disk
  <1>2. \A q \in Proc : /\ pc'[q] = (IF q = Booter THEN "read_head" ELSE "off") /\ held'[q] = <<>>
                        /\ Extra(q)' = 0 /\ Base(q)' = 0
    <2>1. ASSUME NEW q \in Proc
          PROVE  pc'[q] \in {"read_head", "off"} /\ held'[q] = <<>> /\ (HeaderBlock \notin Holds(q))'
      BY <1>1, NoBlocks DEF Reset, Holds
    <2>2. ASSUME NEW q \in Proc PROVE Extra(q)' = 0
      BY <2>1 DEF Extra, Heads
    <2>3. ASSUME NEW q \in Proc PROVE Base(q)' = 0
      BY <2>1, <2>2 DEF Base
    <2> QED BY <1>1, <2>1, <2>2, <2>3 DEF Reset
  <1>3. TypesOK'
    <2>1. IsFiniteSet({}) /\ Cardinality({}) = 0
      BY FS_EmptySet
    <2>2. NBUF \in Nat
      BY LogAssumption
    <2>3. outstanding' = Cardinality(inop') /\ IsFiniteSet(cached') /\ Cardinality(cached') <= NBUF
      BY <1>1, <2>1, <2>2 DEF Reset
    <2>4. Blank \in Data
      BY LogAssumption
    <2>5. <<>> \in Seq(Blocks) /\ <<>> \in Seq(Block)
      OBVIOUS
    <2> QED BY <1>0, <1>1, <2>3, <2>4, <2>5 DEF Reset, TypesOK, PCs
  <1>4. Places'
    BY <1>1, <1>2 DEF Reset, Places, Boots
  <1>5. Stacks'
    <2>1. ASSUME NEW q \in Proc PROVE StackOK(q)'
      BY <1>1, <1>2 DEF Reset, StackOK, Logging, Installing
    <2> QED BY <2>1 DEF Stacks
  <1>6. Pinned'
    BY <1>1, <1>2, NoBlocks DEF Reset, Pinned, Referred, Holds
  <1>7. Coherent'
    BY <1>1 DEF Reset, Coherent
  <1>8. Lists'
    BY <1>0, <1>1, NoBlocks DEF Reset, Lists
  <1>9. \A q \in Proc : Phase(q)'
    BY <1>1, <1>2 DEF Reset, Phase, Logging, Installing, Commits
  <1>10. Phases'
    BY <1>1, <1>9 DEF Reset, Phases
  <1> QED BY <1>3, <1>4, <1>5, <1>6, <1>7, <1>8, <1>10 DEF IInv

LEMMA StutterKeeps ==
    ASSUME IInv, UNCHANGED vars
    PROVE  IInv'
  <1>1. UNCHANGED <<home, slot, header, cached, data, dirty, held, waits, lh, outstanding, committing,
                    inop, pc, tail, todo, noref, ref, booting, panic>>
    BY DEF vars, disk, cache, log, frame
  <1>2. TypesOK' /\ Places' /\ Lists' /\ Pinned'
    BY <1>1 DEF IInv, TypesOK, Places, Lists, Pinned, Referred, Holds
  <1>3. ASSUME NEW q \in Proc PROVE StackOK(q)' /\ Base(q)' = Base(q) /\ Phase(q)'
    <2>1. StackOK(q) /\ Phase(q) /\ TypesOK
      BY DEF IInv, Stacks, Phases
    <2>2. StackOK(q)' /\ Base(q)' = Base(q)
      BY <1>1, <2>1, StackSame
    <2> QED BY <1>1, <2>1, <2>2, PhaseKept
  <1>4. Coherent'
    BY <1>1, <1>3 DEF IInv, Coherent, Changes
  <1>5. Phases'
    BY <1>1, <1>3 DEF IInv, Phases, Quiet
  <1> QED BY <1>2, <1>3, <1>4, <1>5 DEF IInv, Stacks

LEMMA StepKeeps ==
    ASSUME Alone, Roomy, IInv, NEW p \in Proc, Step(p)
    PROVE  IInv'
  <1>1. CASE Acquire(p) \/ BeginOp(p) \/ EndOp(p) \/ BrelseTop(p) \/ Sync(p)
    BY <1>1, AcquireKeeps, BeginOpKeeps, EndOpKeeps, BrelseTopKeeps, SyncKeeps
  <1>2. CASE \E b \in Blocks : Bread(p, b)
    BY <1>2, BreadKeeps
  <1>3. CASE \E v \in Data : Modify(p, v)
    BY <1>3, ModifyKeeps
  <1>4. CASE WaitUntilCommitFinish(p) \/ CheckFull(p) \/ LogAppend(p) \/ CommitBegin(p)
    BY <1>4, WaitKeeps, CheckKeeps, LogAppendKeeps, CommitBeginKeeps
  <1>5. CASE CommitStart(p) \/ Classify(p) \/ CommitNoref(p) \/ WriteLog(p) \/ LogFrom(p) \/ LogCopy(p)
    BY <1>5, CommitStartKeeps, ClassifyKeeps, CommitNorefKeeps, WriteLogKeeps, LogFromKeeps, LogCopyKeeps
  <1>6. CASE WriteHead(p)
    BY <1>6, WriteHeadReads, WriteHeadWrites
  <1>7. CASE Install(p) \/ InstallDst(p) \/ InstallCopy(p) \/ Erase(p) \/ Restore(p) \/ CommitEnd(p)
    BY <1>7, InstallKeeps, InstallDstKeeps, InstallCopyKeeps, EraseKeeps, RestoreKeeps, CommitEndKeeps
  <1>8. CASE ReadHead(p)
    BY <1>8, ReadHeadReads, ReadHeadStarts
  <1>9. CASE BootDone(p)
    BY <1>9, BootDoneKeeps
  <1> QED BY <1>1, <1>2, <1>3, <1>4, <1>5, <1>6, <1>7, <1>8, <1>9 DEF Step

LEMMA NextKeeps ==
    ASSUME Alone, Roomy, IInv, [Next]_vars
    PROVE  IInv'
  BY StepKeeps, CrashKeeps, StutterKeeps DEF Next

LEMMA Invariant ==
    ASSUME Alone, Roomy
    PROVE  Spec => []IInv
  <1>1. Init => IInv
    BY InitHolds
  <1>2. IInv /\ [Next]_vars => IInv'
    BY NextKeeps
  <1> QED BY <1>1, <1>2, PTL DEF Spec

-----------------------------------------------------------------------------
(* What it gives *)

LEMMA ListFits ==
    ASSUME Roomy, IInv
    PROVE  DirtyIsLogged
  <1>0. TypesOK /\ Places /\ Lists /\ Phases /\ Pinned
    BY DEF IInv
  <1>1. lh \in Seq(Blocks) /\ Len(lh) \in Nat /\ LOGSIZE \in Nat
    BY <1>0, LogAssumption DEF TypesOK
  <1>2. ToSet(lh) \subseteq dirty => Len(lh) <= LOGSIZE
    BY <1>0, LhFits DEF Pinned, Lists
  <1>3. ~ booting /\ ~ committing => Quiet
    BY <1>0 DEF Phases
  <1>4. Len(lh) <= LOGSIZE
    <2>1. CASE ~ booting /\ ~ committing
      BY <1>2, <1>3, <2>1 DEF Quiet
    <2>2. CASE booting \/ committing
      <3>1. PICK p \in Proc : pc[p] \in Commits \cup {"read_head"}
        BY <1>0, <2>2, LogAssumption DEF Places, Boots, Commits
      <3>2. Phase(p)
        BY <1>0 DEF Phases
      <3>3. CASE pc[p] \in {"start", "classify", "end"}
        BY <1>2, <3>2, <3>3 DEF Phase, Quiet
      <3>4. CASE pc[p] \in Logging \cup {"write_head"}
        BY <1>2, <3>2, <3>4 DEF Phase, Logged
      <3>5. CASE pc[p] \in Installing \cup {"erase"}
        BY <1>0, <3>2, <3>5 DEF Phase, Placed, Lists
      <3>6. CASE pc[p] \in {"write_erased", "restore", "read_head"}
        <4>1. lh = <<>>
          BY <3>2, <3>6 DEF Phase
        <4> QED BY <1>1, <4>1
      <3> QED BY <3>1, <3>3, <3>4, <3>5, <3>6 DEF Commits
    <2> QED BY <2>1, <2>2
  <1> QED BY <1>0, <1>3, <1>4 DEF DirtyIsLogged, Lists, Quiet

\* The blocks a process has got, but for the last one, are locked.
LEMMA Locked ==
    ASSUME NEW p \in Proc, NEW s \in Seq(Block), s = held[p], s # <<>>, NEW i \in 1 .. Len(s),
           p \in waits => i < Len(s)
    PROVE  s[i] \in Locks(p)
  <1>1. p \notin waits => s[i] \in Locks(p)
    BY Elements DEF Locks
  <1>2. CASE p \in waits
    <2>1. Locks(p) = ToSet(Front(s))
      BY <1>2 DEF Locks
    <2>2. Front(s) \in Seq(Block) /\ Len(Front(s)) = Len(s) - 1
          /\ \A j \in 1 .. Len(s) - 1 : Front(s)[j] = s[j]
      BY DEF Front
    <2>3. i \in 1 .. Len(s) - 1
      BY <1>2
    <2> QED BY <2>1, <2>2, <2>3, Elements
  <1> QED BY <1>1, <1>2

LEMMA CleanIsOnDisk ==
    ASSUME IInv
    PROVE  CacheIsCoherent
  <1>0. TypesOK /\ Coherent /\ Stacks
    BY DEF IInv
  <1>1. SUFFICES ASSUME NEW p \in Proc, NEW b, Changes(p, b)
                 PROVE  b \in Locks(p)
    BY <1>0 DEF Coherent, CacheIsCoherent
  <1>2. p \in inop /\ pc[p] # "user" /\ b = held[p][Base(p)] /\ StackOK(p)
    BY <1>0, <1>1 DEF Changes, Stacks
  <1>3. Base(p) \in Nat /\ Base(p) > 0 /\ Base(p) = Len(held[p]) - Extra(p)
    BY <1>2 DEF StackOK, Base
  <1>4. held[p] \in Seq(Block) /\ Len(held[p]) \in Nat
    BY <1>0 DEF TypesOK
  <1>5. p \in waits => Extra(p) = 2
    BY <1>2, ExtraOf DEF StackOK
  <1>6. Base(p) \in 1 .. Len(held[p]) /\ (p \in waits => Base(p) < Len(held[p]))
    BY <1>3, <1>4, <1>5, ExtraIs
  <1>7. held[p] # <<>>
    BY <1>4, <1>6
  <1> QED BY <1>2, <1>4, <1>6, <1>7, Locked

LEMMA CommitterGoesOn ==
    ASSUME Alone, IInv
    PROVE  CommitterIsNotBlocked
  <1>0. TypesOK /\ Places /\ Stacks /\ Phases
    BY DEF IInv
  <1>1. SUFFICES ASSUME NEW p \in waits, pc[p] \in {"log_copy", "install_copy"}
                 PROVE  /\ Top(p) \notin Locks(p)
                        /\ \A q \in Proc : Top(p) \in Locks(q) => pc[q] \notin {"log_write", "commit"}
    BY DEF CommitterIsNotBlocked
  <1>2. p \in Proc /\ StackOK(p) /\ Phase(p)
    BY <1>0 DEF TypesOK, Stacks, Phases
  <1>3. Actor(p) /\ tail < Len(lh)
    BY <1>0, <1>1, <1>2, Busy DEF Phase, Logging, Installing
  <1>4. Extra(p) = 2 /\ Top(p) = lh[tail + 1] /\ Top(p) \in Blocks
    BY <1>0, <1>1, <1>2, <1>3, SecondBuffer
  <1>5. Top(p) \in ToSet(lh)
    <2>1. lh \in Seq(Blocks) /\ tail + 1 \in 1 .. Len(lh)
      BY <1>0, <1>3 DEF TypesOK
    <2> QED BY <1>4, <2>1, Elements
  <1>6. PICK s \in Seq(Block) : s = held[p]
    BY <1>0, <1>2 DEF TypesOK
  <1>7. Base(p) = Len(s) - 2 /\ Base(p) \in Nat /\ s[Base(p) + 1] = tail + 1
        /\ \A i \in 1 .. Base(p) : s[i] \notin ToSet(lh)
    BY <1>1, <1>2, <1>4, <1>6 DEF StackOK, Base, Heads, Logging, Installing
  <1>8. Top(p) \notin Locks(p)
    <2>1. Locks(p) = ToSet(Front(s))
      BY <1>6 DEF Locks
    <2>2. Front(s) \in Seq(Block) /\ Len(Front(s)) = Len(s) - 1
          /\ \A j \in 1 .. Len(s) - 1 : Front(s)[j] = s[j]
      BY <1>7 DEF Front
    <2>3. tail + 1 \notin Blocks
      <3>1. tail + 1 \in Int
        BY <1>0 DEF TypesOK
      <3> QED BY <3>1, LogAssumption
    <2>4. ASSUME NEW j \in 1 .. Len(s) - 1 PROVE s[j] # Top(p)
      <3>1. CASE j = Base(p) + 1
        BY <1>4, <1>7, <2>3, <3>1
      <3>2. CASE j # Base(p) + 1
        <4>1. j \in 1 .. Base(p)
          BY <1>7, <3>2
        <4> QED BY <1>5, <1>7, <4>1
      <3> QED BY <3>1, <3>2
    <2> QED BY <2>1, <2>2, <2>4, Elements
  <1>9. \A q \in Proc : pc[q] \notin {"log_write", "commit"}
    <2>1. \A q \in Proc : q # p => pc[q] \in {"user", "off"}
      BY <1>2, <1>3, Solo
    <2> QED BY <1>1, <2>1
  <1> QED BY <1>8, <1>9

\* With one process that writes and syncs, and no more buffers than blocks in
\* the log, the list of the log fits the header of the log (log_write() does not
\* look), has a block once, and between commits is what is pinned: log_write()
\* pins a block and enters it in the list, install_trans() unpins it, and
\* commit() enters again those it left out.
THEOREM LogFits ==
    ASSUME Alone, Roomy
    PROVE  Spec => []DirtyIsLogged
  <1>1. Spec => []IInv
    BY Invariant
  <1>2. IInv => DirtyIsLogged
    BY ListFits
  <1> QED BY <1>1, <1>2, PTL

\* With one process that writes and syncs, a clean buffer nobody has locked is
\* what the disk has: bget() may give it to another block.
THEOREM CacheCoherent ==
    ASSUME Alone, Roomy
    PROVE  Spec => []CacheIsCoherent
  <1>1. Spec => []IInv
    BY Invariant
  <1>2. IInv => CacheIsCoherent
    BY CleanIsOnDisk
  <1> QED BY <1>1, <1>2, PTL

\* With one process that writes and syncs, commit() does not wait in bread() for
\* a buffer it has itself, or one of a process that waits for it: it leaves out
\* the blocks somebody refers to.
THEOREM CommitterFree ==
    ASSUME Alone, Roomy
    PROVE  Spec => []CommitterIsNotBlocked
  <1>1. Spec => []IInv
    BY Invariant
  <1>2. IInv => CommitterIsNotBlocked
    BY CommitterGoesOn
  <1> QED BY <1>1, <1>2, PTL

-----------------------------------------------------------------------------
(* What a crash leaves, and what the system calls see *)

LEMMA StoreAt ==
    ASSUME header \in Seq(Blocks), IsInjective(header), NEW b \in Blocks
    PROVE  /\ b \notin ToSet(header) => Store[b] = home[b]
           /\ \A i \in 1 .. Len(header) : header[i] = b => Store[b] = slot[i]
  <1>1. b \notin ToSet(header) => Store[b] = home[b]
    BY DEF Store
  <1>2. ASSUME NEW i \in 1 .. Len(header), header[i] = b PROVE Store[b] = slot[i]
    <2>1. b \in ToSet(header)
      BY <1>2, Elements
    <2>2. \A j \in 1 .. Len(header) : header[j] = b => j = i
      BY <1>2, Injective
    <2>3. (CHOOSE j \in 1 .. Len(header) : header[j] = b) = i
      BY <1>2, <2>2
    <2> QED BY <2>1, <2>3 DEF Store
  <1> QED BY <1>1, <1>2

LEMMA StoreAtNext ==
    ASSUME header' \in Seq(Blocks), IsInjective(header'), NEW b \in Blocks
    PROVE  /\ b \notin ToSet(header') => Store'[b] = home'[b]
           /\ \A i \in 1 .. Len(header') : header'[i] = b => Store'[b] = slot'[i]
  <1>1. PICK h, s, g : h = header' /\ s = slot' /\ g = home'
    OBVIOUS
  <1>2. Store' = [x \in Blocks |->
                    IF x \in ToSet(h) THEN s[CHOOSE i \in 1 .. Len(h) : h[i] = x] ELSE g[x]]
    BY <1>1 DEF Store
  <1>3. b \notin ToSet(h) => Store'[b] = g[b]
    BY <1>2
  <1>4. ASSUME NEW i \in 1 .. Len(h), h[i] = b PROVE Store'[b] = s[i]
    <2>1. b \in ToSet(h)
      BY <1>1, <1>4, Elements
    <2>2. \A j \in 1 .. Len(h) : h[j] = b => j = i
      BY <1>1, <1>4, Injective
    <2>3. (CHOOSE j \in 1 .. Len(h) : h[j] = b) = i
      BY <1>4, <2>2
    <2> QED BY <1>2, <2>1, <2>3
  <1> QED BY <1>1, <1>3, <1>4

\* With nothing in the log, the store is the blocks at home.
LEMMA StoreIsHome ==
    ASSUME TypesOK, header = <<>>
    PROVE  Store = home
  <1>1. \A b \in Blocks : Store[b] = home[b]
    BY NoBlocks DEF Store
  <1> QED BY <1>1 DEF Store, TypesOK

LEMMA SameStore ==
    ASSUME UNCHANGED <<home, slot, header>>
    PROVE  Store' = Store
  BY DEF Store

LEMMA SameMemory ==
    ASSUME UNCHANGED <<home, slot, header, cached, data, booting>>
    PROVE  Store' = Store /\ Memory' = Memory
  <1>1. Store' = Store
    BY SameStore
  <1> QED BY <1>1 DEF Memory

\* A buffer that is taken or given to another block changes nothing.
LEMMA TakeSame ==
    ASSUME IInv, ~ panic, NEW p \in Proc, NEW b \in Block, Bget(p, b),
           UNCHANGED <<home, slot, header, booting>>
    PROVE  Store' = Store /\ Memory' = Memory
  <1>0. TypesOK /\ Pinned /\ Coherent /\ Stacks
    BY DEF IInv
  <1>1. /\ \A x \in cached \cap Blocks : data'[x] = data[x]
        /\ \A x \in Blocks : x \in cached' => x \in cached \/ data'[x] = home[x]
        /\ \A x \in Blocks : x \in cached /\ x \notin cached' => x \notin Referred \cup dirty
    BY <1>0, BgetDoes
  <1>2. Store' = Store
    BY SameStore
  <1>3. ASSUME NEW x \in Blocks, x \in cached, x \notin Referred \cup dirty PROVE data[x] = home[x]
    <2>1. data[x] = home[x] \/ \E q \in Proc : Changes(q, x)
      BY <1>0, <1>3 DEF Coherent
    <2>2. ASSUME NEW q \in Proc, Changes(q, x) PROVE x \in Referred
      <3>1. StackOK(q) /\ x = held[q][Base(q)] /\ q \in inop /\ pc[q] # "user"
        BY <1>0, <2>2 DEF Changes, Stacks
      <3>2. Base(q) \in 1 .. Len(held[q]) /\ held[q] \in Seq(Block)
        <4>1. Base(q) \in Nat /\ Base(q) > 0 /\ Base(q) = Len(held[q]) - Extra(q)
          BY <3>1 DEF StackOK, Base
        <4>2. held[q] \in Seq(Block) /\ Len(held[q]) \in Nat
          BY <1>0 DEF TypesOK
        <4> QED BY <4>1, <4>2, ExtraIs
      <3>3. x \in Holds(q)
        BY <3>1, <3>2, Elements DEF Holds
      <3> QED BY <3>3 DEF Referred
    <2> QED BY <1>3, <2>1, <2>2
  <1>4. ASSUME NEW x \in Blocks PROVE Memory'[x] = Memory[x]
    <2>1. CASE booting
      BY <1>2, <2>1 DEF Memory
    <2>2. CASE ~ booting
      <3>1. Memory[x] = (IF x \in cached THEN data[x] ELSE home[x])
        BY <2>2 DEF Memory
      <3>2. Memory'[x] = (IF x \in cached' THEN data'[x] ELSE home[x])
        BY <2>2 DEF Memory
      <3> QED BY <1>1, <1>3, <3>1, <3>2
    <2> QED BY <2>1, <2>2
  <1>5. Memory' = Memory
    BY <1>4 DEF Memory
  <1> QED BY <1>2, <1>5

LEMMA WriteHeadMaps ==
    ASSUME Roomy, IInv, NEW p \in Proc, WriteHead(p), HeaderBlock \in Holds(p), IInv'
    PROVE  /\ Memory' = Memory
           /\ Store' = [b \in Blocks |-> IF b \in ToSet(lh) THEN Memory[b] ELSE Store[b]]
  <1>0. TypesOK /\ Places /\ Lists /\ Phase(p) /\ pc[p] \in {"write_head", "write_erased"}
        /\ ~ panic /\ Pinned
    BY DEF IInv, WriteHead, At, Phases
  <1>1. UNCHANGED <<home, slot, cached, data, booting>> /\ header' = lh
    BY DEF WriteHead, cache
  <1>2. lh \in Seq(Blocks) /\ IsInjective(lh) /\ header \in Seq(Blocks) /\ IsInjective(header)
    BY <1>0 DEF TypesOK, Lists
  <1>3. ASSUME NEW b \in Blocks
        PROVE  /\ b \notin ToSet(lh) => Store'[b] = home[b]
               /\ \A i \in 1 .. Len(lh) : lh[i] = b => Store'[b] = slot[i]
    BY <1>1, <1>2, StoreAtNext
  <1>4. CASE pc[p] = "write_head"
    <2>1. ~ booting /\ Logged(Len(lh))
      BY <1>0, <1>4 DEF Places, Boots, Installing, Phase
    <2>2. Memory' = Memory
      BY <1>1, <2>1 DEF Memory
    <2>3. Store = home
      BY <1>0, <2>1, StoreIsHome DEF Logged
    <2>4. ASSUME NEW b \in Blocks
          PROVE  Store'[b] = IF b \in ToSet(lh) THEN Memory[b] ELSE Store[b]
      <3>1. CASE b \notin ToSet(lh)
        BY <1>3, <2>3, <3>1
      <3>2. CASE b \in ToSet(lh)
        <4>1. PICK i \in 1 .. Len(lh) : lh[i] = b
          BY <1>2, <3>2, Elements
        <4>2. Store'[b] = data[b]
          BY <1>3, <2>1, <4>1 DEF Logged
        <4>3. b \in cached
          BY <1>0, <2>1, <3>2 DEF Logged, Pinned
        <4>4. Memory[b] = data[b]
          BY <2>1, <4>3 DEF Memory
        <4> QED BY <3>2, <4>2, <4>4
      <3> QED BY <3>1, <3>2
    <2>5. Store' = [b \in Blocks |-> Store'[b]]
      BY DEF Store
    <2>6. [b \in Blocks |-> Store'[b]]
             = [b \in Blocks |-> IF b \in ToSet(lh) THEN Memory[b] ELSE Store[b]]
      BY <2>4
    <2>7. Store' = [b \in Blocks |-> IF b \in ToSet(lh) THEN Memory[b] ELSE Store[b]]
      BY <2>5, <2>6, Zenon
    <2> QED BY <2>2, <2>7
  <1>5. CASE pc[p] = "write_erased"
    <2>1. lh = <<>> /\ \A i \in 1 .. Len(header) : home[header[i]] = slot[i]
      BY <1>0, <1>5 DEF Phase
    <2>2. ToSet(lh) = {}
      BY <2>1, NoBlocks
    <2>3. ASSUME NEW b \in Blocks PROVE Store'[b] = Store[b]
      <3>1. Store'[b] = home[b]
        BY <1>3, <2>2
      <3>2. CASE b \notin ToSet(header)
        BY <1>2, <3>1, <3>2, StoreAt
      <3>3. CASE b \in ToSet(header)
        <4>1. PICK i \in 1 .. Len(header) : header[i] = b
          BY <1>2, <3>3, Elements
        <4>2. Store[b] = slot[i]
          BY <1>2, <4>1, StoreAt
        <4> QED BY <2>1, <3>1, <4>1, <4>2
      <3> QED BY <3>2, <3>3
    <2>4. Store' = Store
      BY <2>3 DEF Store
    <2>5. Memory' = Memory
      BY <1>1, <2>4 DEF Memory
    <2>6. Store = [b \in Blocks |-> Store[b]]
      BY DEF Store
    <2> QED BY <2>2, <2>4, <2>5, <2>6
  <1> QED BY <1>0, <1>4, <1>5

LEMMA LogCopySame ==
    ASSUME IInv, NEW p \in Proc, LogCopy(p), IInv'
    PROVE  Store' = Store /\ Memory' = Memory
  <1>1. UNCHANGED <<home, header, cached, data, booting>>
    BY DEF LogCopy, cache
  <1>2. header = <<>> /\ ~ booting /\ TypesOK
    <2>1. pc[p] = "log_copy" /\ Places /\ Phase(p) /\ TypesOK
      BY DEF LogCopy, At, IInv, Phases
    <2> QED BY <2>1 DEF Places, Boots, Installing, Phase, Logging, Logged
  <1>3. Store = home
    BY <1>2, StoreIsHome
  <1>4. Store' = home
    <2>1. \A b \in Blocks : Store'[b] = home[b]
      BY <1>1, <1>2, NoBlocks DEF Store
    <2> QED BY <1>2, <2>1 DEF Store, TypesOK
  <1> QED BY <1>1, <1>2, <1>3, <1>4 DEF Memory

LEMMA InstallCopySame ==
    ASSUME IInv, NEW p \in Proc, InstallCopy(p)
    PROVE  Store' = Store /\ Memory' = Memory
  <1>0. TypesOK /\ Places /\ Lists /\ Phase(p) /\ pc[p] = "install_copy" /\ StackOK(p) /\ ~ panic
        /\ Pinned
    BY DEF IInv, InstallCopy, At, Stacks, Phases
  <1>1. UNCHANGED <<slot, header, cached, booting>>
        /\ data' = [data EXCEPT ![Top(p)] = slot[tail + 1]]
        /\ home' = [home EXCEPT ![Top(p)] = slot[tail + 1]]
    BY DEF InstallCopy
  <1>2. Placed(tail) /\ tail < Len(lh)
    BY <1>0 DEF Installing, Phase
  <1>3. tail \in Nat /\ lh \in Seq(Blocks) /\ Len(lh) \in Nat /\ header = lh /\ IsInjective(header)
    BY <1>0, <1>2 DEF TypesOK, Placed, Lists
  <1>4. Top(p) = lh[tail + 1] /\ Top(p) \in Blocks /\ Top(p) \in Holds(p)
    BY <1>0, <1>2, SecondBuffer
  <1>5. PICK b, v : b = Top(p) /\ v = slot[tail + 1]
    OBVIOUS
  <1>6. /\ data'[b] = v /\ home'[b] = v /\ b \in Blocks
        /\ \A x \in Blocks : x # b => data'[x] = data[x] /\ home'[x] = home[x]
    BY <1>0, <1>1, <1>4, <1>5 DEF TypesOK
  <1>7. tail + 1 \in 1 .. Len(header) /\ header[tail + 1] = b
    BY <1>2, <1>3, <1>4, <1>5
  <1>8. Store' = Store
    <2>1. b \in ToSet(header)
      BY <1>3, <1>7, Elements
    <2>2. ASSUME NEW x \in Blocks PROVE Store'[x] = Store[x]
      <3>1. CASE x \in ToSet(header)
        BY <1>1, <3>1 DEF Store
      <3>2. CASE x \notin ToSet(header)
        <4>1. Store'[x] = home'[x] /\ Store[x] = home[x]
          BY <1>1, <3>2 DEF Store
        <4> QED BY <1>6, <2>1, <3>2, <4>1
      <3> QED BY <3>1, <3>2
    <2> QED BY <2>2 DEF Store
  <1>9. b \in cached
    BY <1>0, <1>4, <1>5 DEF Pinned, Referred
  <1>10. ASSUME NEW x \in Blocks PROVE Memory'[x] = Memory[x]
    <2>1. CASE booting
      BY <1>1, <1>8, <2>1 DEF Memory
    <2>2. CASE ~ booting
      <3>1. Memory[x] = (IF x \in cached THEN data[x] ELSE home[x])
        BY <2>2 DEF Memory
      <3>2. Memory'[x] = (IF x \in cached THEN data'[x] ELSE home'[x])
        BY <1>1, <2>2 DEF Memory
      <3>3. CASE x = b
        <4>1. tail + 1 \in tail + 1 .. Len(lh)
          BY <1>2, <1>3
        <4>2. data[b] = v
          BY <1>2, <1>4, <1>5, <2>2, <4>1 DEF Placed
        <4> QED BY <1>6, <1>9, <3>1, <3>2, <3>3, <4>2
      <3>4. CASE x # b
        BY <1>6, <3>1, <3>2, <3>4
      <3> QED BY <3>3, <3>4
    <2> QED BY <2>1, <2>2
  <1>11. Memory' = Memory
    BY <1>10 DEF Memory
  <1> QED BY <1>8, <1>11

LEMMA BootDoneSame ==
    ASSUME IInv, NEW p \in Proc, BootDone(p)
    PROVE  Store' = Store /\ Memory' = Memory
  <1>0. TypesOK /\ Places /\ Phases /\ Phase(p) /\ pc[p] = "restore" /\ booting /\ Coherent
    BY DEF IInv, BootDone, At, Phases
  <1>1. UNCHANGED <<home, slot, header, cached, data>> /\ booting' = FALSE
    BY DEF BootDone, disk, cache
  <1>2. inop = {} /\ header = <<>> /\ dirty = {}
    BY <1>0, NoBlocks DEF Places, Phases, Phase
  <1>3. Store = home /\ Store' = Store
    BY <1>0, <1>1, <1>2, StoreIsHome, SameStore
  <1>4. \A x \in Blocks : x \in cached => data[x] = home[x]
    BY <1>0, <1>2 DEF Coherent, Changes
  <1>5. \A x \in Blocks : Memory'[x] = home[x]
    BY <1>1, <1>4 DEF Memory
  <1>6. \A x \in Blocks : Memory[x] = home[x]
    BY <1>0, <1>3 DEF Memory
  <1>7. Memory' = Memory
    BY <1>5, <1>6 DEF Memory
  <1> QED BY <1>3, <1>7

LEMMA ModifyMaps ==
    ASSUME Alone, IInv, NEW p \in Proc, NEW v \in Data, Modify(p, v)
    PROVE  Top(p) \in Blocks /\ Atomic!Write(Top(p), v)
  <1>0. TypesOK /\ Places /\ Pinned /\ StackOK(p) /\ pc[p] = "user" /\ ~ panic
    BY DEF IInv, Modify, At, Stacks
  <1>1. UNCHANGED <<home, slot, header, cached, booting>> /\ p \in inop /\ held[p] # <<>>
        /\ data' = [data EXCEPT ![Top(p)] = v]
    BY DEF Modify, disk
  <1>2. ~ booting /\ Extra(p) = 0
    BY <1>0, <1>1, InOp, ExtraOf DEF Heads
  <1>3. Base(p) = Len(held[p]) /\ Len(held[p]) \in Nat /\ held[p] \in Seq(Blocks)
    BY <1>0, <1>2, NoExtra
  <1>4. Len(held[p]) \in 1 .. Len(held[p])
    BY <1>1, <1>3
  <1>5. Top(p) \in Blocks /\ Top(p) \in Holds(p)
    BY <1>3, <1>4, Elements DEF Top, Last, Holds
  <1>6. Top(p) \in cached
    BY <1>0, <1>5 DEF Pinned, Referred
  <1>7. Store' = Store
    BY <1>1, SameStore
  <1>8. PICK b \in Blocks : b = Top(p) /\ b \in cached
    BY <1>5, <1>6
  <1>9. data'[b] = v /\ \A x \in Blocks : x # b => data'[x] = data[x]
    BY <1>0, <1>1, <1>8 DEF TypesOK
  <1>10. ASSUME NEW x \in Blocks PROVE Memory'[x] = IF x = b THEN v ELSE Memory[x]
    <2>1. Memory[x] = (IF x \in cached THEN data[x] ELSE home[x])
      BY <1>2 DEF Memory
    <2>2. Memory'[x] = (IF x \in cached THEN data'[x] ELSE home[x])
      BY <1>1, <1>2 DEF Memory
    <2> QED BY <1>8, <1>9, <2>1, <2>2
  <1>11. Memory' = [Memory EXCEPT ![b] = v]
    BY <1>10 DEF Memory
  <1> QED BY <1>5, <1>7, <1>8, <1>11 DEF Atomic!Write

\* The steps that touch neither the disk nor the buffers.
Aside(p) ==
    \/ Acquire(p) \/ BeginOp(p) \/ EndOp(p) \/ BrelseTop(p) \/ Sync(p)
    \/ WaitUntilCommitFinish(p) \/ CheckFull(p) \/ LogAppend(p)
    \/ CommitBegin(p) \/ CommitStart(p) \/ Classify(p) \/ CommitNoref(p)
    \/ Erase(p) \/ Restore(p) \/ CommitEnd(p)

LEMMA AsideSame ==
    ASSUME NEW p \in Proc, Aside(p)
    PROVE  Store' = Store /\ Memory' = Memory
  <1>1. UNCHANGED <<home, slot, header, cached, data, booting>>
    <2>1. CASE Acquire(p) \/ BeginOp(p) \/ EndOp(p) \/ BrelseTop(p) \/ Sync(p)
      BY <2>1 DEF Acquire, BeginOp, EndOp, BrelseTop, Sync, disk, cache
    <2>2. CASE WaitUntilCommitFinish(p) \/ CheckFull(p) \/ LogAppend(p) \/ CommitBegin(p)
      BY <2>2 DEF WaitUntilCommitFinish, CheckFull, LogAppend, CommitBegin, disk, cache
    <2>3. CASE CommitStart(p) \/ Classify(p) \/ CommitNoref(p)
      BY <2>3 DEF CommitStart, Classify, CommitNoref, disk, cache
    <2>4. CASE Erase(p) \/ Restore(p) \/ CommitEnd(p)
      BY <2>4 DEF Erase, Restore, CommitEnd, disk, cache
    <2> QED BY <2>1, <2>2, <2>3, <2>4 DEF Aside
  <1> QED BY <1>1, SameMemory

\* A step that reads the header, or that begins to copy a block.
LEMMA ReadSame ==
    ASSUME Roomy, IInv, NEW p \in Proc,
           \/ WriteLog(p) \/ LogFrom(p) \/ Install(p) \/ InstallDst(p) \/ ReadHead(p)
           \/ WriteHead(p) /\ HeaderBlock \notin Holds(p)
    PROVE  Store' = Store /\ Memory' = Memory
  <1>0. TypesOK /\ Phase(p) /\ tail \in Nat /\ lh \in Seq(Blocks) /\ Len(lh) \in Nat
    BY DEF IInv, Phases, TypesOK
  <1>1. ~ panic /\ UNCHANGED <<home, slot, header, booting>>
        /\ (UNCHANGED <<cached, data>> \/ \E b \in Block : Bget(p, b))
    <2>1. CASE WriteLog(p)
      <3>1. ~ panic /\ pc[p] = "write_log" /\ UNCHANGED <<home, slot, header, booting>>
            /\ (UNCHANGED <<cached, data>> \/ (tail < Len(lh) /\ Bget(p, tail + 1)))
        BY <2>1 DEF WriteLog, At, BreadLog, disk, cache
      <3>2. Len(lh) <= LOGSIZE /\ LOGSIZE \in Nat
        <4>1. Logged(tail)
          BY <1>0, <3>1 DEF Phase, Logging
        <4> QED BY <3>1, <4>1, LoggedFits, LogAssumption
      <3>3. tail < Len(lh) => tail + 1 \in Block
        BY <1>0, <3>2 DEF Block, Slot
      <3> QED BY <3>1, <3>3
    <2>2. CASE Install(p)
      <3>1. ~ panic /\ pc[p] = "install" /\ UNCHANGED <<home, slot, header, booting>>
            /\ (UNCHANGED <<cached, data>> \/ (tail < Len(lh) /\ Bget(p, tail + 1)))
        BY <2>2 DEF Install, At, BreadLog, disk, cache
      <3>2. Len(lh) <= LOGSIZE /\ LOGSIZE \in Nat
        <4>1. Placed(tail)
          BY <1>0, <3>1 DEF Phase, Installing
        <4> QED BY <4>1, PlacedFits, LogAssumption
      <3>3. tail < Len(lh) => tail + 1 \in Block
        BY <1>0, <3>2 DEF Block, Slot
      <3> QED BY <3>1, <3>3
    <2>3. CASE LogFrom(p) \/ InstallDst(p)
      <3>1. ~ panic /\ pc[p] \in {"log_from", "install_dst"} /\ UNCHANGED <<home, slot, header, booting>>
            /\ Bget(p, lh[tail + 1])
        BY <2>3 DEF LogFrom, InstallDst, At, BreadHome, disk
      <3>2. tail < Len(lh)
        BY <1>0, <3>1 DEF Phase, Logging, Installing
      <3>3. lh[tail + 1] \in Block
        BY <1>0, <3>2 DEF Block
      <3> QED BY <3>1, <3>3
    <2>4. CASE ReadHead(p)
      <3>1. ~ panic /\ UNCHANGED <<home, slot, header, booting>>
            /\ (UNCHANGED <<cached, data>> \/ Bget(p, HeaderBlock))
        BY <2>4 DEF ReadHead, At, BreadLog, disk, cache
      <3>2. HeaderBlock \in Block
        BY DEF Block
      <3> QED BY <3>1, <3>2
    <2>5. CASE WriteHead(p) /\ HeaderBlock \notin Holds(p)
      <3>1. ~ panic /\ UNCHANGED <<home, slot, header, booting>> /\ Bget(p, HeaderBlock)
        BY <2>5 DEF WriteHead, At, BreadLog
      <3>2. HeaderBlock \in Block
        BY DEF Block
      <3> QED BY <3>1, <3>2
    <2> QED BY <2>1, <2>2, <2>3, <2>4, <2>5
  <1>2. CASE UNCHANGED <<cached, data>>
    BY <1>1, <1>2, SameMemory
  <1>3. CASE \E b \in Block : Bget(p, b)
    BY <1>1, <1>3, TakeSame
  <1> QED BY <1>1, <1>2, <1>3

LEMMA StepMaps ==
    ASSUME Alone, Roomy, IInv, IInv', NEW p \in Proc, Step(p)
    PROVE  [Atomic!Next]_(Atomic!vars)
  <1>1. CASE Aside(p)
    BY <1>1, AsideSame DEF Atomic!vars
  <1>2. CASE \/ WriteLog(p) \/ LogFrom(p) \/ Install(p) \/ InstallDst(p) \/ ReadHead(p)
             \/ WriteHead(p) /\ HeaderBlock \notin Holds(p)
    BY <1>2, ReadSame DEF Atomic!vars
  <1>3. CASE LogCopy(p) \/ InstallCopy(p) \/ BootDone(p)
    BY <1>3, LogCopySame, InstallCopySame, BootDoneSame DEF Atomic!vars
  <1>4. ASSUME NEW b \in Blocks, Bread(p, b) PROVE UNCHANGED Atomic!vars
    <2>1. ~ panic /\ Bget(p, b) /\ UNCHANGED <<home, slot, header, booting>> /\ b \in Block
      BY <1>4 DEF Bread, At, BreadHome, disk, Block
    <2> QED BY <2>1, TakeSame DEF Atomic!vars
  <1>5. ASSUME NEW v \in Data, Modify(p, v) PROVE Atomic!Next
    BY <1>5, ModifyMaps DEF Atomic!Next
  <1>6. CASE WriteHead(p) /\ HeaderBlock \in Holds(p)
    <2>1. /\ Memory' = Memory
          /\ Store' = [b \in Blocks |-> IF b \in ToSet(lh) THEN Memory[b] ELSE Store[b]]
      BY <1>6, WriteHeadMaps
    <2>2. lh \in Seq(Blocks)
      BY DEF IInv, TypesOK
    <2>3. ToSet(lh) \in SUBSET Blocks
      BY <2>2, Elements
    <2>4. Atomic!Commit(ToSet(lh))
      BY <2>1 DEF Atomic!Commit
    <2> QED BY <2>3, <2>4 DEF Atomic!Next
  <1> QED BY <1>1, <1>2, <1>3, <1>4, <1>5, <1>6 DEF Step, Aside

LEMMA CrashMaps ==
    ASSUME Crash
    PROVE  Atomic!Next
  <1>1. UNCHANGED <<home, slot, header>> /\ booting' = TRUE
    BY DEF Crash, Reset, disk
  <1>2. Store' = Store
    BY <1>1, SameStore
  <1>3. \A b \in Blocks : Memory'[b] = Store[b]
    BY <1>1, <1>2 DEF Memory
  <1>4. Memory' = Store
    BY <1>3 DEF Memory, Store
  <1> QED BY <1>2, <1>4 DEF Atomic!Crash, Atomic!Next

LEMMA InitMaps ==
    ASSUME Init
    PROVE  Atomic!Init
  <1>1. TypesOK /\ header = <<>> /\ booting = TRUE
    BY InitHolds DEF IInv, Init
  <1>2. Store = home /\ home \in [Blocks -> Data]
    BY <1>1, StoreIsHome DEF TypesOK
  <1>3. \A b \in Blocks : Memory[b] = Store[b]
    BY <1>1 DEF Memory
  <1>4. Memory = Store
    BY <1>3 DEF Memory, Store
  <1> QED BY <1>2, <1>4 DEF Atomic!Init, Atomic!TypeOK

LEMMA SyncedIsWhole ==
    ASSUME Alone, IInv, NEW p \in Proc, CommitEnd(p), SyncAll(p)
    PROVE  Store = Memory
  <1>0. TypesOK /\ Places /\ Phase(p) /\ pc[p] = "end" /\ Coherent /\ p \notin inop
    BY DEF IInv, CommitEnd, At, Phases, SyncAll
  <1>1. ~ booting /\ Actor(p) /\ Quiet /\ lh = <<>>
    BY <1>0, Busy DEF Places, Boots, Installing, Phase
  <1>2. header = <<>> /\ dirty = {}
    BY <1>1, NoBlocks DEF Quiet
  <1>3. inop = {}
    BY <1>0, <1>1, Solo
  <1>4. \A x \in Blocks : x \in cached => data[x] = home[x]
    BY <1>0, <1>2, <1>3 DEF Coherent, Changes
  <1>5. Store = home
    BY <1>0, <1>2, StoreIsHome
  <1>6. \A x \in Blocks : Memory[x] = Store[x]
    BY <1>1, <1>4, <1>5 DEF Memory
  <1> QED BY <1>6 DEF Memory, Store

\* With one process that writes and syncs, a crash at any step, in recovery too,
\* leaves what the last commit left: the disk changes for all the blocks of a
\* commit at once, when write_head() writes the header, to what they hold then,
\* and neither install_trans() nor bget() changes what the system calls see.
THEOREM StoreAtomic ==
    ASSUME Alone, Roomy
    PROVE  Spec => StoreIsAtomic
  <1>1. Init => Atomic!Init
    BY InitMaps
  <1>2. IInv /\ IInv' /\ [Next]_vars => [Atomic!Next]_(Atomic!vars)
    <2>1. SUFFICES ASSUME IInv, IInv', [Next]_vars PROVE [Atomic!Next]_(Atomic!vars)
      OBVIOUS
    <2>2. CASE Next
      BY <2>1, <2>2, StepMaps, CrashMaps DEF Next
    <2>3. CASE UNCHANGED vars
      <3>1. UNCHANGED <<home, slot, header, cached, data, booting>>
        BY <2>3 DEF vars, disk, cache
      <3> QED BY <3>1, SameMemory DEF Atomic!vars
    <2> QED BY <2>1, <2>2, <2>3
  <1>3. Spec => []IInv
    BY Invariant
  <1> QED BY <1>1, <1>2, <1>3, PTL DEF Spec, StoreIsAtomic, Atomic!Spec

\* With one process that writes and syncs, what the system calls see is on disk
\* whole when sync() returns.
THEOREM SyncDurable ==
    ASSUME Alone, Roomy
    PROVE  Spec => SyncIsDurable
  <1>1. Spec => []IInv
    BY Invariant
  <1>2. IInv => [\A p \in Proc : CommitEnd(p) /\ SyncAll(p) => Store = Memory]_vars
    BY SyncedIsWhole
  <1> QED BY <1>1, <1>2, PTL DEF SyncIsDurable
=============================================================================
