-------------------------- MODULE UserTasksProofs --------------------------
(***************************************************************************)
(* Proofs about the user tasks of safe-RTOS, for any processes, tasks,     *)
(* interrupts, levels and permissions.                                     *)
(*                                                                         *)
(* The argument: the supervisor stack is a chain of frames of which each   *)
(* fits on the one below (FitsOn). What a task needs when it gets the CPU  *)
(* back or is aborted (SPRG0, the stack pointer of its process, the gate)  *)
(* was saved in the frame on top of it or in its own, and is compared with *)
(* all frames below. A step replaces the frame on top, puts one on it or   *)
(* takes it away, and the lemmas say for each of these what is left to be  *)
(* shown of the frame itself.                                              *)
(***************************************************************************)
EXTENDS UserTasks, SequenceTheorems, WellFoundedInduction, TLAPS

-----------------------------------------------------------------------------
(* The inductive invariant *)

IsUser(f) == f.kind = "task" /\ f.pc = "user"
IsEntered(f) == f.kind = "task" /\ f.pc \in {"user", "count", "total", "leave"}
IsActive(f) == f.kind = "task" /\ f.pc \in {"user", "count", "total", "leave", "unwind"}
Waits(f) == f.kind = "sc" /\ f.pc \in {"call", "ungate"}

(* What each kind of frame looks like at each of its points.               *)
WellFormed(f) ==
  /\ f \in FrameType
  /\ f.kind = "os" => f.pc \in {"init", "release", "failed", "run"} /\ f.level \in 0..MaxLevel
  /\ f.kind = "isr" => f.pc \in {"run", "exit"}
  /\ f.kind = "task" =>
       /\ f.pc \in {"enter", "user", "restore", "sched", "return", "count", "total", "leave",
                    "unwind"}
       /\ f.pid \in PIDs
       /\ f.pc \in {"count", "total"} => f.load \in 0..MaxCount
  /\ f.kind = "sc" =>
       /\ f.pc \in {"gate", "call", "ungate", "trigger", "done", "return"}
       /\ f.pc = "call" => f.level \in PIDs
       /\ Waits(f) => f.load \in 0..(MaxLevel + 1)

(* f may be on top of g: what has interrupted user code knows its process  *)
(* and the user stack from where it was interrupted.                       *)
FitsOn(f, g) ==
  /\ f.kind = "os" => f.pc = "run" /\ ~IsActive(g)
  /\ f.kind = "isr" => f.pid = IF IsUser(g) THEN g.pid ELSE 0
  /\ f.kind = "task" => /\ g.kind \in {"os", "isr"} \/ Waits(g)
                        /\ g.pc = "init" => f.pid = g.pid
  /\ f.kind = "sc" => IsUser(g) /\ f.pid = g.pid
  /\ IsUser(g) => g.usp <= f.usp

Nested(s) ==
  /\ s \in Seq(FrameType) /\ s # <<>>
  /\ s[1].kind = "os"
  /\ \A i \in 1..Len(s) : WellFormed(s[i])
  /\ \A i \in 1..(Len(s) - 1) : FitsOn(s[i + 1], s[i])

(* x is the innermost task below position d, 0 if there is none.           *)
IsInner(s, x, d) ==
  /\ x \in 0..(d - 1)
  /\ x # 0 => IsEntered(s[x])
  /\ \A e \in (x + 1)..(d - 1) : ~IsEntered(s[e])

(* SPRG0 and the frames it leads to.                                       *)
Chained(s, v) ==
  /\ IsInner(s, v, Len(s) + 1)
  /\ \A d \in 1..Len(s) : IsEntered(s[d]) => IsInner(s, s[d].svsp, d)

(* Above a task that was interrupted or waits in a system call its stack   *)
(* is not touched below where it was left.                                 *)
Apart(s, u) ==
  \A d \in 1..(Len(s) - 1) : IsUser(s[d]) =>
    /\ s[d + 1].usp <= u[s[d].pid]
    /\ \A e \in (d + 1)..Len(s) :
         IsActive(s[e]) /\ s[e].pid = s[d].pid => s[d + 1].usp <= s[e].usp

(* A stack is in use only while one of its tasks is not over, and the      *)
(* first of them has begun with the empty stack.                           *)
Returned(s, u) ==
  /\ \A p \in PIDs : u[p] # 0 => \E d \in 1..Len(s) : IsActive(s[d]) /\ s[d].pid = p
  /\ \A d \in 1..Len(s) : IsActive(s[d]) /\ s[d].usp # 0
       => \E e \in 1..(d - 1) : IsActive(s[e]) /\ s[e].pid = s[d].pid

(* The gate of rtos_runTask: callers have rising priorities, and each has  *)
(* saved the level that the one before it has set.                         *)
Base(s, d) == BasePriority(SubSeq(s, 1, d))
IsGateBelow(s, m, d) ==
  \/ m = 0 /\ \A e \in 1..(d - 1) : ~Waits(s[e])
  \/ \E e \in 1..(d - 1) : /\ Waits(s[e]) /\ m = Base(s, e) + 1
                           /\ \A c \in (e + 1)..(d - 1) : ~Waits(s[c])
Gated(s, m) ==
  /\ IsGateBelow(s, m, Len(s) + 1)
  /\ \A d \in 1..Len(s) : Waits(s[d]) => IsGateBelow(s, s[d].load, d)
  /\ \A d, e \in 1..Len(s) : Waits(s[d]) /\ Waits(s[e]) /\ d < e => Base(s, d) < Base(s, e)

(* The startup: init tasks are through up to the one in progress.          *)
Started(s, done) ==
  /\ s[1].pc = "init" =>
       /\ done \subseteq 1..s[1].pid
       /\ \A p \in InitTasks \ {0} : p < s[1].pid => p \in done
       /\ s[1].pid \in InitTasks \ ({0} \cup done) => Len(s) >= 2 /\ s[2].kind = "task"
  /\ s[1].pc # "init" => InitTasks \ {0} \subseteq done

StackInv(s, v, u, m) ==
  Nested(s) /\ Chained(s, v) /\ Apart(s, u) /\ Returned(s, u) /\ Gated(s, m)

(* The registers belong to the user code if that executes.                 *)
CpuInv ==
  /\ pid0 = IF IsUser(Top) THEN Top.pid ELSE 0
  /\ usp \in 0..MaxSp
  /\ IsUser(Top) => Top.usp <= usp

TypesInv ==
  /\ userSP \in [PIDs -> 0..MaxSp]
  /\ state \in [PIDs -> {0, 1}]
  /\ cnt \in [PIDs -> [Counters -> 0..MaxCount]]
  /\ currentPrio \in 0..MaxLevel
  /\ aborts \in [PIDs -> 0..MaxCount]
  /\ initDone \subseteq 0..NoProcesses

IInv == /\ StackInv(stack, svsp, userSP, minLevel) /\ Started(stack, initDone)
        /\ CpuInv /\ TypesInv

(* Without system call handlers that may be preempted while they count,    *)
(* each failure is counted at once.                                        *)
CountsInv ==
  /\ \A d \in 1..Len(stack) : stack[d].pc \notin {"gate", "trigger", "count", "total"}
  /\ \A p \in PIDs :
       LET sum == cnt[p].badArg + cnt[p].other
       IN /\ cnt[p].total = aborts[p]
          /\ cnt[p].total = (IF sum < MaxCount THEN sum ELSE MaxCount)

-----------------------------------------------------------------------------
(* Maxima and sequences *)

LEMMA NatLessWellFounded ==
  IsWellFoundedOn({ss \in Nat \X Nat : ss[1] < ss[2]}, Nat)
BY NatLessThanWellFounded, Zenon DEF OpToRel

LEMMA LeastExists ==
  ASSUME NEW S \in SUBSET Nat, S # {}
  PROVE  \E x \in S : \A y \in S : x <= y
<1> DEFINE R == {ss \in Nat \X Nat : ss[1] < ss[2]}
<1>1. IsWellFoundedOn(R, Nat)
  BY NatLessWellFounded
<1> HIDE DEF R
<1>2. PICK x \in S : \A y \in S : ~(<<y, x>> \in R)
  BY <1>1, WFMin
<1>3. ASSUME NEW y \in S PROVE x <= y
  <2>1. ~(y < x)
    BY <1>2 DEF R
  <2> QED BY <2>1
<1> QED BY <1>3

LEMMA MaxIs ==
  ASSUME NEW S \in SUBSET Int, NEW m \in S, \A y \in S : m >= y
  PROVE  Max(S) = m
<1>1. Max(S) \in S /\ \A y \in S : Max(S) >= y
  BY Zenon DEF Max
<1>2. Max(S) \in Int /\ m \in Int /\ Max(S) >= m /\ m >= Max(S)
  BY <1>1
<1> QED BY <1>2

LEMMA MaxProperties ==
  ASSUME NEW n \in Nat, NEW S \in SUBSET (1..n), S # {}
  PROVE  Max(S) \in S /\ \A y \in S : Max(S) >= y
<1> DEFINE D == {d \in Nat : n - d \in S}
<1>1. \A x \in S : n - x \in D
  OBVIOUS
<1>2. D \in SUBSET Nat /\ D # {}
  BY <1>1
<1> HIDE DEF D
<1>3. PICK d \in D : \A y \in D : d <= y
  BY <1>2, LeastExists
<1>4. n - d \in S /\ d \in Nat
  BY <1>3 DEF D
<1>5. \A x \in S : n - d >= x
  BY <1>1, <1>3, <1>4
<1> QED BY <1>4, <1>5, Zenon DEF Max

(* The stack without its top, and with f in place of it.                   *)
But(s) == SubSeq(s, 1, Len(s) - 1)
With(s, f) == Append(But(s), f)

LEMMA ButProperties ==
  ASSUME NEW S, NEW s \in Seq(S), s # <<>>
  PROVE  /\ Len(s) \in Nat \ {0} /\ But(s) \in Seq(S) /\ Len(But(s)) = Len(s) - 1
         /\ \A i \in 1..(Len(s) - 1) : But(s)[i] = s[i]
         /\ \A i \in 1..Len(s) : s[i] \in S
<1> DEFINE n == Len(s) - 1
<1>1. Len(s) \in Nat \ {0} /\ n \in Int /\ n >= 0 /\ \A i \in 1..Len(s) : s[i] \in S
  OBVIOUS
<1>2. \A i \in 1..n : s[i] \in S
  BY <1>1
<1>3. But(s) = SubSeq(s, 1, n)
  BY DEF But
<1> HIDE DEF n
<1>4. /\ But(s) \in Seq(S) /\ Len(But(s)) = IF 1 <= n THEN n - 1 + 1 ELSE 0
      /\ \A i \in 1..(n - 1 + 1) : But(s)[i] = s[1 + i - 1]
  BY <1>1, <1>2, <1>3, SubSeqProperties
<1>5. But(s) \in Seq(S) /\ Len(But(s)) = n /\ \A i \in 1..n : But(s)[i] = s[i]
  BY <1>1, <1>4
<1> QED BY <1>1, <1>5 DEF n

LEMMA WithProperties ==
  ASSUME NEW S, NEW s \in Seq(S), s # <<>>, NEW f \in S
  PROVE  /\ With(s, f) \in Seq(S) /\ With(s, f) # <<>> /\ Len(With(s, f)) = Len(s)
         /\ With(s, f)[Len(s)] = f
         /\ \A i \in 1..(Len(s) - 1) : With(s, f)[i] = s[i]
BY ButProperties DEF With

LEMMA PushProperties ==
  ASSUME NEW S, NEW s \in Seq(S), NEW f \in S
  PROVE  /\ Append(s, f) \in Seq(S) /\ Append(s, f) # <<>> /\ Len(Append(s, f)) = Len(s) + 1
         /\ Append(s, f)[Len(s) + 1] = f
         /\ \A i \in 1..Len(s) : Append(s, f)[i] = s[i]
OBVIOUS

(* Two sequences that agree are the same.                                  *)
LEMMA SameSeq ==
  ASSUME NEW S, NEW s \in Seq(S), NEW t \in Seq(S), Len(s) = Len(t),
         \A i \in 1..Len(s) : s[i] = t[i]
  PROVE  s = t
BY SeqEqual

(* The last two elements are removed one by one.                           *)
LEMMA ButBut ==
  ASSUME NEW S, NEW s \in Seq(S), Len(s) > 1
  PROVE  SubSeq(s, 1, Len(s) - 2) = But(But(s))
<1> DEFINE t == But(s)
           k == Len(s) - 2
<1>1. /\ Len(s) \in Nat \ {0} /\ s # <<>>
      /\ t \in Seq(S) /\ Len(t) = Len(s) - 1 /\ \A i \in 1..(Len(s) - 1) : t[i] = s[i]
      /\ \A i \in 1..Len(s) : s[i] \in S
  BY ButProperties
<1>2. /\ k \in Int /\ k >= 0 /\ t # <<>> /\ Len(t) - 1 = k
      /\ \A i \in 1..k : s[i] \in S /\ t[i] = s[i]
  BY <1>1
<1> HIDE DEF t, k
<1>3. But(t) \in Seq(S) /\ Len(But(t)) = k /\ \A i \in 1..k : But(t)[i] = t[i]
  BY <1>1, <1>2, ButProperties
<1>4. /\ SubSeq(s, 1, k) \in Seq(S) /\ Len(SubSeq(s, 1, k)) = IF 1 <= k THEN k - 1 + 1 ELSE 0
      /\ \A i \in 1..(k - 1 + 1) : SubSeq(s, 1, k)[i] = s[1 + i - 1]
  BY <1>1, <1>2, SubSeqProperties
<1>5. Len(SubSeq(s, 1, k)) = k /\ \A i \in 1..k : SubSeq(s, 1, k)[i] = s[i]
  BY <1>2, <1>4
<1>6. \A i \in 1..k : SubSeq(s, 1, k)[i] = But(t)[i]
  BY <1>2, <1>3, <1>5
<1>7. SubSeq(s, 1, k) = But(t)
  BY <1>3, <1>4, <1>5, <1>6, SameSeq
<1> QED BY <1>7 DEF t, k

-----------------------------------------------------------------------------
(* Frames *)

LEMMA FrameFields ==
  ASSUME NEW f \in FrameType
  PROVE  /\ f.pid \in 0..NoProcesses /\ f.level \in Nat /\ f.cpr \in 0..MaxLevel
         /\ f.usp \in 0..MaxSp /\ f.svsp \in Nat /\ f.load \in Nat /\ f.late \in BOOLEAN
BY DEF FrameType

LEMMA BlankFrame == Frame \in FrameType
<1>1. 0 \in 0..NoProcesses /\ 0 \in 0..MaxLevel /\ 0 \in 0..MaxSp /\ 0 \in Nat
  BY ProcessAssumption, LevelAssumption
<1> QED BY <1>1 DEF Frame, FrameType

LEMMA OsFrameType ==
  ASSUME NEW level \in Nat, currentPrio \in 0..MaxLevel
  PROVE  OsFrame(level) \in FrameType
BY BlankFrame DEF OsFrame, FrameType

LEMMA IsrFrameType ==
  ASSUME NEW i \in Nat, pid0 \in 0..NoProcesses, usp \in 0..MaxSp
  PROVE  IsrFrame(i) \in FrameType
BY BlankFrame DEF IsrFrame, FrameType

LEMMA TaskFrameType ==
  ASSUME NEW p \in PIDs, currentPrio \in 0..MaxLevel
  PROVE  TaskFrame(p) \in FrameType
<1>1. p \in 0..NoProcesses
  BY DEF PIDs
<1> QED BY <1>1, BlankFrame DEF TaskFrame, FrameType

LEMMA CallFrameType ==
  ASSUME NEW pc \in {"gate", "trigger", "done"}, pid0 \in 0..NoProcesses, usp \in 0..MaxSp
  PROVE  CallFrame(pc) \in FrameType
BY BlankFrame DEF CallFrame, FrameType

LEMMA NestedFrames ==
  ASSUME NEW s, Nested(s)
  PROVE  /\ s \in Seq(FrameType) /\ Len(s) \in Nat \ {0}
         /\ \A i \in 1..Len(s) : s[i] \in FrameType /\ WellFormed(s[i])
BY DEF Nested, WellFormed

(* The priority of the event that a position of the stack belongs to.      *)
LEMMA BaseIs ==
  ASSUME NEW s, Nested(s), NEW d \in 1..Len(s)
  PROVE  \E o \in 1..d : /\ s[o].kind = "os" /\ Base(s, d) = s[o].level
                         /\ \A i \in (o + 1)..d : s[i].kind # "os"
<1> DEFINE t == SubSeq(s, 1, d)
           S == {i \in 1..d : s[i].kind = "os"}
<1>1. s \in Seq(FrameType) /\ Len(s) \in Nat \ {0} /\ d \in Nat \ {0} /\ s[1].kind = "os"
  BY NestedFrames DEF Nested
<1>2. Len(t) = d /\ \A i \in 1..d : t[i] = s[i]
  BY <1>1
<1>3. S \in SUBSET (1..d) /\ S # {}
  BY <1>1
<1>4. {i \in 1..Len(t) : t[i].kind = "os"} = S
  BY <1>2
<1>5. Base(s, d) = t[Max({i \in 1..Len(t) : t[i].kind = "os"})].level
  BY DEF Base, BasePriority
<1>6. Base(s, d) = t[Max(S)].level
  BY <1>4, <1>5
<1> HIDE DEF t
<1>7. /\ Max(S) \in S /\ \A y \in S : Max(S) >= y
  BY <1>1, <1>3, MaxProperties
<1>8. Base(s, d) = s[Max(S)].level
  BY <1>2, <1>6, <1>7
<1>9. \A i \in (Max(S) + 1)..d : i \notin S /\ i \in 1..d
  BY <1>1, <1>7
<1> QED BY <1>7, <1>8, <1>9

LEMMA BaseType ==
  ASSUME NEW s, Nested(s), NEW d \in 1..Len(s)
  PROVE  Base(s, d) \in 0..MaxLevel
<1>1. PICK o \in 1..d : s[o].kind = "os" /\ Base(s, d) = s[o].level
  BY BaseIs
<1>2. WellFormed(s[o])
  BY NestedFrames
<1> QED BY <1>1, <1>2 DEF WellFormed

(* It depends on the frames of the scheduler up to there only.             *)
LEMMA BaseSame ==
  ASSUME NEW s, Nested(s), NEW t, Nested(t), NEW d \in 1..Len(s), d <= Len(t),
         \A i \in 1..d : \/ s[i].kind = t[i].kind /\ s[i].level = t[i].level
                         \/ s[i].kind # "os" /\ t[i].kind # "os"
  PROVE  Base(s, d) = Base(t, d)
<1>1. d \in 1..Len(t) /\ d \in Nat
  BY NestedFrames
<1>2. PICK o \in 1..d : /\ s[o].kind = "os" /\ Base(s, d) = s[o].level
                        /\ \A i \in (o + 1)..d : s[i].kind # "os"
  BY BaseIs
<1>3. PICK q \in 1..d : /\ t[q].kind = "os" /\ Base(t, d) = t[q].level
                        /\ \A i \in (q + 1)..d : t[i].kind # "os"
  BY <1>1, BaseIs
<1>4. s[q].kind = "os" /\ t[o].kind = "os"
  BY <1>2, <1>3
<1>5. ~(o < q) /\ ~(q < o)
  BY <1>2, <1>3, <1>4
<1>6. o = q
  BY <1>5
<1> QED BY <1>2, <1>3, <1>6
-----------------------------------------------------------------------------
(* The frame on top is replaced *)

(* What the other frames and registers see of f is what they saw of g.     *)
Like(f, g) ==
  /\ WellFormed(f)
  /\ f.kind = g.kind /\ f.pid = g.pid /\ f.usp = g.usp
  /\ f.kind = "os" => f.level = g.level /\ f.pc = g.pc
  /\ IsEntered(f) => IsEntered(g) /\ f.svsp = g.svsp

SameWait(f, g) ==
  /\ Waits(f) <=> Waits(g)
  /\ Waits(f) => f.load = g.load

LEMMA WithFrames ==
  ASSUME NEW s, Nested(s), NEW f, WellFormed(f)
  PROVE  /\ With(s, f) \in Seq(FrameType) /\ With(s, f) # <<>> /\ Len(With(s, f)) = Len(s)
         /\ With(s, f)[Len(s)] = f
         /\ \A i \in 1..(Len(s) - 1) : With(s, f)[i] = s[i]
         /\ \A i \in 1..Len(s) : i # Len(s) => With(s, f)[i] = s[i]
         /\ Len(s) \in Nat \ {0}
<1>1. s \in Seq(FrameType) /\ s # <<>> /\ f \in FrameType /\ Len(s) \in Nat \ {0}
  BY NestedFrames DEF Nested, WellFormed
<1>2. \A i \in 1..Len(s) : i # Len(s) => i \in 1..(Len(s) - 1)
  BY <1>1
<1>3. /\ With(s, f) \in Seq(FrameType) /\ With(s, f) # <<>> /\ Len(With(s, f)) = Len(s)
      /\ With(s, f)[Len(s)] = f
      /\ \A i \in 1..(Len(s) - 1) : With(s, f)[i] = s[i]
  BY <1>1, WithProperties
<1> QED BY <1>1, <1>2, <1>3

LEMMA ReplaceNested ==
  ASSUME NEW s, Nested(s), NEW f, Like(f, s[Len(s)])
  PROVE  Nested(With(s, f))
<1> DEFINE n == Len(s)
           t == With(s, f)
<1>1. /\ t \in Seq(FrameType) /\ t # <<>> /\ Len(t) = n /\ t[n] = f /\ n \in Nat \ {0}
      /\ \A i \in 1..n : i # n => t[i] = s[i]
  BY WithFrames DEF Like
<1> HIDE DEF t, n
<1>2. t[1].kind = "os"
  BY <1>1 DEF Nested, Like, n
<1>3. ASSUME NEW i \in 1..n PROVE WellFormed(t[i])
  BY <1>1 DEF Nested, Like, n
<1>4. ASSUME NEW i \in 1..(n - 1) PROVE FitsOn(t[i + 1], t[i])
  <2>1. /\ i \in 1..n /\ i + 1 \in 1..n /\ i # n /\ t[i] = s[i] /\ FitsOn(s[i + 1], s[i])
    BY <1>1 DEF Nested, n
  <2>2. CASE i + 1 = n
    BY <1>1, <2>1, <2>2 DEF FitsOn, Like, n
  <2>3. CASE i + 1 # n
    BY <1>1, <2>1, <2>3
  <2> QED BY <2>2, <2>3
<1>5. Nested(t)
  BY <1>1, <1>2, <1>3, <1>4 DEF Nested
<1> QED BY <1>5 DEF t

(* The innermost task does not change with a frame that is none.           *)
LEMMA InnerBelow ==
  ASSUME NEW s, NEW n \in Nat \ {0}, ~IsEntered(s[n]), NEW x
  PROVE  IsInner(s, x, n + 1) <=> IsInner(s, x, n)
<1>1. ASSUME IsInner(s, x, n + 1) PROVE IsInner(s, x, n)
  <2>1. x \in 0..n /\ x # n
    BY <1>1 DEF IsInner
  <2> QED BY <1>1, <2>1 DEF IsInner
<1>2. ASSUME IsInner(s, x, n) PROVE IsInner(s, x, n + 1)
  BY <1>2 DEF IsInner
<1> QED BY <1>1, <1>2

LEMMA ReplaceChained ==
  ASSUME NEW s, Nested(s), NEW v, Chained(s, v), NEW f, Like(f, s[Len(s)]),
         NEW w, w = IF IsEntered(s[Len(s)]) /\ ~IsEntered(f) THEN s[Len(s)].svsp ELSE v
  PROVE  Chained(With(s, f), w)
<1> DEFINE n == Len(s)
           t == With(s, f)
<1>1. /\ Len(t) = n /\ t[n] = f /\ n \in Nat \ {0}
      /\ \A i \in 1..n : i # n => t[i] = s[i]
  BY WithFrames DEF Like
<1>2. /\ IsInner(s, v, n + 1)
      /\ \A d \in 1..n : IsEntered(s[d]) => IsInner(s, s[d].svsp, d)
  BY DEF Chained
<1>3. IsEntered(f) => IsEntered(s[n]) /\ f.svsp = s[n].svsp
  BY DEF Like
<1> HIDE DEF t, n
<1>4. ASSUME NEW d \in 1..n, NEW x, IsInner(s, x, d)
      PROVE  IsInner(t, x, d)
  BY <1>1, <1>4 DEF IsInner
<1>5. \A d \in 1..n : IsEntered(t[d]) => IsInner(t, t[d].svsp, d)
  <2> SUFFICES ASSUME NEW d \in 1..n, IsEntered(t[d]) PROVE IsInner(t, t[d].svsp, d)
    OBVIOUS
  <2>1. IsEntered(s[d]) /\ t[d].svsp = s[d].svsp
    BY <1>1, <1>3
  <2> QED BY <1>2, <1>4, <2>1
<1>6. IsInner(t, w, n + 1)
  <2>1. CASE IsEntered(s[n]) /\ ~IsEntered(f)
    <3>1. w = s[n].svsp /\ IsInner(t, w, n)
      BY <1>1, <1>2, <1>4, <2>1 DEF n
    <3> QED BY <1>1, <2>1, <3>1 DEF IsInner
  <2>2. CASE IsEntered(f)
    <3>1. w = v /\ v = n
      BY <1>1, <1>2, <1>3, <2>2 DEF IsInner, n
    <3> QED BY <1>1, <2>2, <3>1 DEF IsInner
  <2>3. CASE ~IsEntered(s[n])
    <3>1. w = v /\ v # n
      BY <1>1, <1>2, <2>3 DEF IsInner, n
    <3>2. IsInner(s, v, n)
      BY <1>1, <1>2, <3>1 DEF IsInner
    <3>3. IsInner(t, v, n) /\ ~IsEntered(f)
      BY <1>1, <1>3, <1>4, <2>3, <3>2
    <3> QED BY <1>1, <3>1, <3>3 DEF IsInner
  <2> QED BY <2>1, <2>2, <2>3
<1> QED BY <1>1, <1>5, <1>6 DEF Chained, t

LEMMA ReplaceApart ==
  ASSUME NEW s, Nested(s), NEW u, Apart(s, u), NEW f, Like(f, s[Len(s)]),
         IsActive(f) => IsActive(s[Len(s)])
  PROVE  Apart(With(s, f), u)
<1> DEFINE n == Len(s)
           t == With(s, f)
<1>1. /\ Len(t) = n /\ t[n] = f /\ n \in Nat \ {0}
      /\ \A i \in 1..n : i # n => t[i] = s[i]
  BY WithFrames DEF Like
<1>2. f.pid = s[n].pid /\ f.usp = s[n].usp
  BY DEF Like
<1> HIDE DEF t
<1>3. ASSUME NEW i \in 1..n
      PROVE  t[i].pid = s[i].pid /\ t[i].usp = s[i].usp /\ (IsActive(t[i]) => IsActive(s[i]))
  BY <1>1, <1>2
<1>4. ASSUME NEW d \in 1..(n - 1), IsUser(t[d]) PROVE IsUser(s[d])
  BY <1>1, <1>4
<1>5. ASSUME NEW d \in 1..(n - 1), IsUser(t[d])
      PROVE  /\ t[d + 1].usp <= u[t[d].pid]
             /\ \A e \in (d + 1)..n :
                  IsActive(t[e]) /\ t[e].pid = t[d].pid => t[d + 1].usp <= t[e].usp
  <2>1. d \in 1..n /\ d + 1 \in 1..n /\ \A e \in (d + 1)..n : e \in 1..n
    BY <1>1
  <2>2. /\ s[d + 1].usp <= u[s[d].pid]
        /\ \A e \in (d + 1)..n :
             IsActive(s[e]) /\ s[e].pid = s[d].pid => s[d + 1].usp <= s[e].usp
    BY <1>4, <1>5 DEF Apart
  <2> QED BY <1>3, <2>1, <2>2
<1> HIDE DEF n
<1>6. Apart(t, u)
  BY <1>1, <1>5 DEF Apart
<1> QED BY <1>6 DEF t

LEMMA ReplaceReturned ==
  ASSUME NEW s, Nested(s), NEW u, Returned(s, u), NEW f, Like(f, s[Len(s)]),
         IsActive(f) <=> IsActive(s[Len(s)])
  PROVE  Returned(With(s, f), u)
<1> DEFINE n == Len(s)
           t == With(s, f)
<1>1. /\ Len(t) = n /\ t[n] = f /\ n \in Nat \ {0}
      /\ \A i \in 1..n : i # n => t[i] = s[i]
  BY WithFrames DEF Like
<1>2. f.pid = s[n].pid /\ f.usp = s[n].usp
  BY DEF Like
<1> HIDE DEF t
<1>3. ASSUME NEW i \in 1..n
      PROVE  t[i].pid = s[i].pid /\ t[i].usp = s[i].usp /\ (IsActive(t[i]) <=> IsActive(s[i]))
  BY <1>1, <1>2
<1>4. ASSUME NEW d \in 1..n, IsActive(t[d]), t[d].usp # 0
      PROVE  \E e \in 1..(d - 1) : IsActive(t[e]) /\ t[e].pid = t[d].pid
  <2>1. PICK e \in 1..(d - 1) : IsActive(s[e]) /\ s[e].pid = s[d].pid
    BY <1>3, <1>4 DEF Returned
  <2>2. e \in 1..n
    BY <1>1
  <2> QED BY <1>3, <2>1, <2>2
<1>5. ASSUME NEW p \in PIDs, u[p] # 0
      PROVE  \E d \in 1..n : IsActive(t[d]) /\ t[d].pid = p
  BY <1>3, <1>5 DEF Returned
<1> HIDE DEF n
<1>6. Returned(t, u)
  BY <1>1, <1>4, <1>5 DEF Returned
<1> QED BY <1>6 DEF t

(* Two stacks that agree up to k in what the gate depends on.              *)
SameGates(s, t, k) ==
  \A d \in 1..k : /\ Base(t, d) = Base(s, d)
                  /\ Waits(t[d]) <=> Waits(s[d])
                  /\ Waits(t[d]) => t[d].load = s[d].load

LEMMA SameGateBelow ==
  ASSUME NEW s, NEW t, NEW k \in Nat, SameGates(s, t, k),
         NEW d \in 1..(k + 1), NEW x, IsGateBelow(s, x, d)
  PROVE  IsGateBelow(t, x, d)
<1>1. \A e \in 1..(d - 1) : e \in 1..k
  OBVIOUS
<1>2. CASE x = 0 /\ \A e \in 1..(d - 1) : ~Waits(s[e])
  BY <1>1, <1>2 DEF IsGateBelow, SameGates
<1>3. ASSUME NEW e \in 1..(d - 1), Waits(s[e]), x = Base(s, e) + 1,
             \A c \in (e + 1)..(d - 1) : ~Waits(s[c])
      PROVE  IsGateBelow(t, x, d)
  <2>1. e \in 1..k /\ Waits(t[e]) /\ x = Base(t, e) + 1
    BY <1>1, <1>3 DEF SameGates
  <2>2. \A c \in (e + 1)..(d - 1) : c \in 1..(d - 1)
    OBVIOUS
  <2>3. \A c \in (e + 1)..(d - 1) : ~Waits(t[c])
    BY <1>1, <1>3, <2>2 DEF SameGates
  <2> QED BY <2>1, <2>3 DEF IsGateBelow
<1> QED BY <1>2, <1>3 DEF IsGateBelow

LEMMA SameGated ==
  ASSUME NEW s, NEW t, Len(s) \in Nat, Len(t) = Len(s), SameGates(s, t, Len(s)),
         NEW m, Gated(s, m)
  PROVE  Gated(t, m)
<1> DEFINE n == Len(s)
<1>1. ASSUME NEW d \in 1..(n + 1), NEW x, IsGateBelow(s, x, d)
      PROVE  IsGateBelow(t, x, d)
  BY <1>1, SameGateBelow
<1>2. IsGateBelow(t, m, n + 1)
  BY <1>1 DEF Gated
<1>3. ASSUME NEW d \in 1..n, Waits(t[d]) PROVE IsGateBelow(t, t[d].load, d)
  <2>1. IsGateBelow(s, t[d].load, d)
    BY <1>3 DEF Gated, SameGates
  <2> QED BY <1>1, <2>1
<1>4. ASSUME NEW d \in 1..n, NEW e \in 1..n, Waits(t[d]), Waits(t[e]), d < e
      PROVE  Base(t, d) < Base(t, e)
  BY <1>4 DEF Gated, SameGates
<1> QED BY <1>2, <1>3, <1>4 DEF Gated

(* They do if their frames are of the same kind and level, and wait for    *)
(* the same.                                                               *)
LEMMA SameFramesGates ==
  ASSUME NEW s, Nested(s), NEW t, Nested(t), NEW k \in Nat, k <= Len(s), k <= Len(t),
         \A i \in 1..k : /\ s[i].kind = t[i].kind
                         /\ s[i].kind = "os" => s[i].level = t[i].level
                         /\ Waits(t[i]) <=> Waits(s[i])
                         /\ Waits(t[i]) => t[i].load = s[i].load
  PROVE  SameGates(s, t, k)
<1>1. ASSUME NEW d \in 1..k
      PROVE  Base(s, d) = Base(t, d)
  <2>1. d \in 1..Len(s) /\ d <= Len(t) /\ \A i \in 1..d : i \in 1..k
    BY NestedFrames
  <2>2. \A i \in 1..d : \/ s[i].kind = t[i].kind /\ s[i].level = t[i].level
                        \/ s[i].kind # "os" /\ t[i].kind # "os"
    BY <2>1
  <2> QED BY <2>1, <2>2, BaseSame
<1> QED BY <1>1 DEF SameGates

LEMMA ReplaceGated ==
  ASSUME NEW s, Nested(s), NEW m, Gated(s, m), NEW f, Like(f, s[Len(s)]), SameWait(f, s[Len(s)])
  PROVE  Gated(With(s, f), m)
<1> DEFINE n == Len(s)
           t == With(s, f)
<1>1. /\ Len(t) = n /\ t[n] = f /\ n \in Nat \ {0}
      /\ \A i \in 1..n : i # n => t[i] = s[i]
  BY WithFrames DEF Like
<1>2. Nested(t)
  BY ReplaceNested
<1> HIDE DEF t
<1>3. ASSUME NEW i \in 1..n
      PROVE  /\ s[i].kind = t[i].kind
             /\ s[i].kind = "os" => s[i].level = t[i].level
             /\ Waits(t[i]) <=> Waits(s[i])
             /\ Waits(t[i]) => t[i].load = s[i].load
  <2>1. CASE i = n
    BY <1>1, <2>1 DEF Like, SameWait
  <2>2. CASE i # n
    BY <1>1, <2>2
  <2> QED BY <2>1, <2>2
<1>4. SameGates(s, t, n)
  BY <1>1, <1>2, <1>3, SameFramesGates
<1>5. Gated(t, m)
  BY <1>1, <1>4, SameGated
<1> QED BY <1>5 DEF t
(* A task gives its stack back: it is as empty as the task has found it.   *)
LEMMA GiveBackApart ==
  ASSUME NEW s, Nested(s), NEW u \in [PIDs -> 0..MaxSp], Apart(s, u),
         NEW f, Like(f, s[Len(s)]), IsActive(s[Len(s)]), ~IsActive(f)
  PROVE  Apart(With(s, f), [u EXCEPT ![f.pid] = f.usp])
<1> DEFINE n == Len(s)
           t == With(s, f)
           w == [u EXCEPT ![f.pid] = f.usp]
<1>1. Apart(t, u)
  BY ReplaceApart
<1>2. /\ Len(t) = n /\ t[n] = f /\ n \in Nat \ {0}
      /\ \A i \in 1..n : i # n => t[i] = s[i]
  BY WithFrames DEF Like
<1>3. f.pid = s[n].pid /\ f.usp = s[n].usp /\ f.pid \in PIDs
  <2>1. WellFormed(s[n]) /\ s[n].kind = "task"
    BY <1>2 DEF Nested, IsActive
  <2> QED BY <2>1 DEF Like, WellFormed
<1>4. \A p \in PIDs : w[p] = IF p = f.pid THEN f.usp ELSE u[p]
  BY <1>3
<1> HIDE DEF t, w
<1>5. ASSUME NEW d \in 1..(n - 1), IsUser(t[d]) PROVE t[d + 1].usp <= w[t[d].pid]
  <2>1. t[d + 1].usp <= u[t[d].pid]
    BY <1>1, <1>2, <1>5 DEF Apart
  <2>2. t[d] = s[d] /\ t[d].pid \in PIDs
    <3>1. d \in 1..n /\ d # n /\ t[d] = s[d] /\ WellFormed(s[d])
      BY <1>2 DEF Nested
    <3> QED BY <1>5, <3>1 DEF WellFormed, IsUser
  <2>3. CASE t[d].pid = f.pid
    <3>1. IsUser(s[d]) /\ n \in (d + 1)..Len(s) /\ s[n].pid = s[d].pid /\ d \in 1..(Len(s) - 1)
      BY <1>2, <1>3, <1>5, <2>2, <2>3
    <3>2. s[d + 1].usp <= s[n].usp
      BY <3>1 DEF Apart
    <3>3. t[d + 1].usp = s[d + 1].usp
      BY <1>2, <1>3
    <3> QED BY <1>3, <1>4, <2>2, <2>3, <3>2, <3>3
  <2>4. CASE t[d].pid # f.pid
    BY <1>4, <2>1, <2>2, <2>4
  <2> QED BY <2>3, <2>4
<1>6. Apart(t, w)
  BY <1>1, <1>2, <1>5 DEF Apart
<1> QED BY <1>6 DEF t, w

LEMMA GiveBackReturned ==
  ASSUME NEW s, Nested(s), NEW u \in [PIDs -> 0..MaxSp], Returned(s, u),
         NEW f, Like(f, s[Len(s)]), IsActive(s[Len(s)]), ~IsActive(f)
  PROVE  Returned(With(s, f), [u EXCEPT ![f.pid] = f.usp])
<1> DEFINE n == Len(s)
           t == With(s, f)
           w == [u EXCEPT ![f.pid] = f.usp]
<1>1. /\ Len(t) = n /\ t[n] = f /\ n \in Nat \ {0}
      /\ \A i \in 1..n : i # n => t[i] = s[i]
  BY WithFrames DEF Like
<1>2. f.pid = s[n].pid /\ f.usp = s[n].usp /\ f.pid \in PIDs
  <2>1. WellFormed(s[n]) /\ s[n].kind = "task"
    BY <1>1 DEF Nested, IsActive
  <2> QED BY <2>1 DEF Like, WellFormed
<1>3. \A p \in PIDs : w[p] = IF p = f.pid THEN f.usp ELSE u[p]
  BY <1>2
<1> HIDE DEF t, w
<1>4. ASSUME NEW d \in 1..n, IsActive(t[d])
      PROVE  d # n /\ t[d] = s[d] /\ IsActive(s[d])
  BY <1>1, <1>4
<1>5. ASSUME NEW d \in 1..n, IsActive(s[d]), d # n
      PROVE  IsActive(t[d]) /\ t[d].pid = s[d].pid
  BY <1>1, <1>5
<1>6. ASSUME NEW d \in 1..n, IsActive(s[d]), s[d].usp # 0
      PROVE  \E e \in 1..(d - 1) : IsActive(t[e]) /\ t[e].pid = s[d].pid
  <2>1. PICK e \in 1..(d - 1) : IsActive(s[e]) /\ s[e].pid = s[d].pid
    BY <1>6 DEF Returned
  <2>2. e \in 1..n /\ e # n
    BY <1>1
  <2> QED BY <1>5, <2>1, <2>2
<1>7. ASSUME NEW d \in 1..n, IsActive(t[d]), t[d].usp # 0
      PROVE  \E e \in 1..(d - 1) : IsActive(t[e]) /\ t[e].pid = t[d].pid
  BY <1>4, <1>6, <1>7
<1>8. ASSUME NEW p \in PIDs, w[p] # 0
      PROVE  \E d \in 1..n : IsActive(t[d]) /\ t[d].pid = p
  <2>1. CASE p = f.pid
    <3>1. s[n].usp # 0 /\ n \in 1..n
      BY <1>1, <1>2, <1>3, <1>8, <2>1
    <3>2. PICK e \in 1..(n - 1) : IsActive(t[e]) /\ t[e].pid = s[n].pid
      BY <1>6, <3>1
    <3>3. e \in 1..n
      BY <1>1
    <3> QED BY <1>2, <2>1, <3>2, <3>3
  <2>2. CASE p # f.pid
    <3>1. PICK d \in 1..n : IsActive(s[d]) /\ s[d].pid = p
      BY <1>3, <1>8, <2>2 DEF Returned
    <3>2. d # n
      BY <1>2, <2>2, <3>1
    <3> QED BY <1>5, <3>1, <3>2
  <2> QED BY <2>1, <2>2
<1> HIDE DEF n
<1>9. Returned(t, w)
  BY <1>1, <1>7, <1>8 DEF Returned
<1> QED BY <1>9 DEF t, w

(* The three ways to replace the frame on top: it stays what it is, it     *)
(* stops being a task that SPRG0 leads to, and it gives its stack back.    *)
LEMMA ReplaceStep ==
  ASSUME NEW s, NEW v, NEW u, NEW m, StackInv(s, v, u, m),
         NEW f, Like(f, s[Len(s)]), SameWait(f, s[Len(s)]), IsActive(f) <=> IsActive(s[Len(s)]),
         NEW w, w = IF IsEntered(s[Len(s)]) /\ ~IsEntered(f) THEN s[Len(s)].svsp ELSE v
  PROVE  StackInv(With(s, f), w, u, m)
<1>1. Nested(s) /\ Chained(s, v) /\ Apart(s, u) /\ Returned(s, u) /\ Gated(s, m)
  BY DEF StackInv
<1>2. Nested(With(s, f))
  BY <1>1, ReplaceNested
<1>3. Chained(With(s, f), w)
  BY <1>1, ReplaceChained
<1>4. Apart(With(s, f), u)
  BY <1>1, ReplaceApart
<1>5. Returned(With(s, f), u)
  BY <1>1, ReplaceReturned
<1>6. Gated(With(s, f), m)
  BY <1>1, ReplaceGated
<1> QED BY <1>2, <1>3, <1>4, <1>5, <1>6 DEF StackInv

LEMMA GiveBackStep ==
  ASSUME NEW s, NEW v, NEW u \in [PIDs -> 0..MaxSp], NEW m, StackInv(s, v, u, m),
         NEW f, Like(f, s[Len(s)]), SameWait(f, s[Len(s)]), IsActive(s[Len(s)]), ~IsActive(f),
         NEW w, w = IF IsEntered(s[Len(s)]) /\ ~IsEntered(f) THEN s[Len(s)].svsp ELSE v
  PROVE  StackInv(With(s, f), w, [u EXCEPT ![f.pid] = f.usp], m)
<1>1. Nested(s) /\ Chained(s, v) /\ Apart(s, u) /\ Returned(s, u) /\ Gated(s, m)
  BY DEF StackInv
<1>2. Nested(With(s, f))
  BY <1>1, ReplaceNested
<1>3. Chained(With(s, f), w)
  BY <1>1, ReplaceChained
<1>4. Apart(With(s, f), [u EXCEPT ![f.pid] = f.usp])
  BY <1>1, GiveBackApart
<1>5. Returned(With(s, f), [u EXCEPT ![f.pid] = f.usp])
  BY <1>1, GiveBackReturned
<1>6. Gated(With(s, f), m)
  BY <1>1, ReplaceGated
<1> QED BY <1>2, <1>3, <1>4, <1>5, <1>6 DEF StackInv

(* A task enters its user code: SPRG0 leads to its frame, and it begins    *)
(* where the stack of its process ends.                                    *)
LEMMA EnterStep ==
  ASSUME NEW s, NEW v, NEW u \in [PIDs -> 0..MaxSp], NEW m, StackInv(s, v, u, m),
         NEW f, WellFormed(f), IsUser(f),
         s[Len(s)].kind = "task", s[Len(s)].pc = "enter",
         f.pid = s[Len(s)].pid, f.usp = u[f.pid], f.svsp = v
  PROVE  StackInv(With(s, f), Len(s), u, m)
<1> DEFINE n == Len(s)
           t == With(s, f)
           g == s[Len(s)]
<1>1. Nested(s) /\ Chained(s, v) /\ Apart(s, u) /\ Returned(s, u) /\ Gated(s, m)
  BY DEF StackInv
<1>2. /\ t \in Seq(FrameType) /\ t # <<>> /\ Len(t) = n /\ t[n] = f /\ n \in Nat \ {0}
      /\ \A i \in 1..n : i # n => t[i] = s[i]
  BY <1>1, WithFrames
<1>3. /\ f.kind = "task" /\ f.pid \in PIDs /\ IsEntered(f) /\ IsActive(f)
      /\ ~IsEntered(g) /\ ~IsActive(g) /\ ~IsUser(g)
      /\ ~Waits(f) /\ ~Waits(g) /\ g.kind = "task"
  BY DEF IsUser, IsEntered, IsActive, Waits, WellFormed
<1>4. Nested(t)
  <2>1. ASSUME NEW i \in 1..n PROVE WellFormed(t[i])
    BY <1>1, <1>2 DEF Nested
  <2>2. t[1].kind = "os"
    BY <1>1, <1>2, <1>3 DEF Nested
  <2>3. ASSUME NEW i \in 1..(n - 1) PROVE FitsOn(t[i + 1], t[i])
    <3>1. /\ i \in 1..n /\ i + 1 \in 1..n /\ i # n /\ t[i] = s[i] /\ FitsOn(s[i + 1], s[i])
      BY <1>1, <1>2 DEF Nested
    <3>2. CASE i + 1 = n
      <4>1. FitsOn(g, s[i])
        BY <3>1, <3>2
      <4>2. ~IsUser(s[i])
        BY <1>3, <4>1 DEF FitsOn, IsUser, Waits
      <4> QED BY <1>2, <1>3, <3>1, <3>2, <4>1, <4>2 DEF FitsOn
    <3>3. CASE i + 1 # n
      BY <1>2, <3>1, <3>3
    <3> QED BY <3>2, <3>3
  <2> HIDE DEF t, n
  <2> QED BY <1>2, <2>1, <2>2, <2>3 DEF Nested
<1> HIDE DEF t, n, g
<1>5. Chained(t, n)
  <2>1. /\ IsInner(s, v, n + 1)
        /\ \A d \in 1..n : IsEntered(s[d]) => IsInner(s, s[d].svsp, d)
    BY <1>1 DEF Chained, n
  <2>2. ASSUME NEW d \in 1..n, NEW x, IsInner(s, x, d)
        PROVE  IsInner(t, x, d)
    BY <1>2, <2>2 DEF IsInner
  <2>3. IsInner(t, v, n)
    <3>1. ~IsEntered(s[n])
      BY <1>3 DEF g, n
    <3>2. n \in Nat \ {0} /\ IsInner(s, v, n + 1)
      BY <1>2, <2>1
    <3>3. IsInner(s, v, n)
      BY <3>1, <3>2, InnerBelow
    <3>4. n \in 1..n
      BY <3>2
    <3> QED BY <2>2, <3>3, <3>4
  <2>4. ASSUME NEW d \in 1..n, IsEntered(t[d]) PROVE IsInner(t, t[d].svsp, d)
    <3>1. CASE d = n
      BY <1>2, <2>3, <3>1
    <3>2. CASE d # n
      BY <1>2, <2>1, <2>2, <2>4, <3>2
    <3> QED BY <3>1, <3>2
  <2>5. IsInner(t, n, n + 1)
    BY <1>2, <1>3 DEF IsInner
  <2> QED BY <1>2, <2>4, <2>5 DEF Chained
<1>6. Apart(t, u)
  <2> SUFFICES ASSUME NEW d \in 1..(n - 1), IsUser(t[d])
               PROVE  /\ t[d + 1].usp <= u[t[d].pid]
                      /\ \A e \in (d + 1)..n :
                           IsActive(t[e]) /\ t[e].pid = t[d].pid => t[d + 1].usp <= t[e].usp
    BY <1>2 DEF Apart
  <2>1. /\ d \in 1..n /\ d # n /\ t[d] = s[d] /\ IsUser(s[d]) /\ d + 1 \in 1..n
        /\ FitsOn(s[d + 1], s[d]) /\ d \in 1..(Len(s) - 1)
    BY <1>1, <1>2 DEF Nested, n
  <2>2. d + 1 # n
    BY <1>3, <2>1 DEF FitsOn, IsUser, Waits, g, n
  <2>3. t[d + 1] = s[d + 1]
    BY <1>2, <2>1, <2>2
  <2>4. /\ s[d + 1].usp <= u[s[d].pid]
        /\ \A e \in (d + 1)..n :
             IsActive(s[e]) /\ s[e].pid = s[d].pid => s[d + 1].usp <= s[e].usp
    BY <1>1, <2>1 DEF Apart, n
  <2>5. ASSUME NEW e \in (d + 1)..n, IsActive(t[e]), t[e].pid = t[d].pid
        PROVE  t[d + 1].usp <= t[e].usp
    <3>1. e \in 1..n
      BY <1>2
    <3>2. CASE e = n
      BY <1>2, <2>1, <2>3, <2>4, <2>5, <3>2
    <3>3. CASE e # n
      BY <1>2, <2>1, <2>3, <2>4, <2>5, <3>1, <3>3
    <3> QED BY <3>2, <3>3
  <2> QED BY <2>1, <2>3, <2>4, <2>5
<1>7. Returned(t, u)
  <2>1. ASSUME NEW d \in 1..n, IsActive(s[d])
        PROVE  d # n /\ t[d] = s[d]
    BY <1>2, <1>3, <2>1 DEF g, n
  <2>2. ASSUME NEW p \in PIDs, u[p] # 0
        PROVE  \E d \in 1..(n - 1) : IsActive(t[d]) /\ t[d].pid = p
    <3>1. PICK d \in 1..n : IsActive(s[d]) /\ s[d].pid = p
      BY <1>1, <2>2 DEF Returned, n
    <3>2. d # n /\ t[d] = s[d] /\ d \in 1..(n - 1)
      BY <1>2, <2>1, <3>1
    <3> QED BY <3>1, <3>2
  <2>3. ASSUME NEW d \in 1..n, IsActive(t[d]), t[d].usp # 0
        PROVE  \E e \in 1..(d - 1) : IsActive(t[e]) /\ t[e].pid = t[d].pid
    <3>1. CASE d = n
      BY <1>2, <1>3, <2>2, <2>3, <3>1
    <3>2. CASE d # n
      <4>1. IsActive(s[d]) /\ s[d].usp # 0
        BY <1>2, <2>3, <3>2
      <4>2. PICK e \in 1..(d - 1) : IsActive(s[e]) /\ s[e].pid = s[d].pid
        BY <1>1, <4>1 DEF Returned, n
      <4>3. e \in 1..n /\ t[e] = s[e]
        BY <1>2, <2>1, <4>2
      <4> QED BY <1>2, <3>2, <4>2, <4>3
    <3> QED BY <3>1, <3>2
  <2>4. ASSUME NEW p \in PIDs, u[p] # 0
        PROVE  \E d \in 1..n : IsActive(t[d]) /\ t[d].pid = p
    <3>1. PICK d \in 1..(n - 1) : IsActive(t[d]) /\ t[d].pid = p
      BY <2>2, <2>4
    <3>2. d \in 1..n
      BY <1>2
    <3> QED BY <3>1, <3>2
  <2> QED BY <1>2, <2>3, <2>4 DEF Returned
<1>8. Gated(t, m)
  <2>1. n = Len(s)
    BY DEF n
  <2>2. ASSUME NEW i \in 1..n
        PROVE  /\ s[i].kind = t[i].kind
               /\ s[i].kind = "os" => s[i].level = t[i].level
               /\ Waits(t[i]) <=> Waits(s[i])
               /\ Waits(t[i]) => t[i].load = s[i].load
    <3>1. CASE i = n
      BY <1>2, <1>3, <3>1 DEF g, n
    <3>2. CASE i # n
      BY <1>2, <3>2
    <3> QED BY <3>1, <3>2
  <2>3. SameGates(s, t, n)
    BY <1>1, <1>2, <1>4, <2>1, <2>2, SameFramesGates
  <2> QED BY <1>1, <1>2, <2>1, <2>3, SameGated
<1> QED BY <1>4, <1>5, <1>6, <1>7, <1>8 DEF StackInv, t, n
-----------------------------------------------------------------------------
(* The gate of rtos_runTask *)

LEMMA GateBelow ==
  ASSUME NEW s, NEW n \in Nat \ {0}, ~Waits(s[n]), NEW x
  PROVE  IsGateBelow(s, x, n + 1) <=> IsGateBelow(s, x, n)
<1>1. ASSUME NEW e \in 1..n, Waits(s[e]) PROVE e \in 1..(n - 1)
  BY <1>1
<1>2. \A e \in 1..(n - 1) : e \in 1..n /\ \A c \in (e + 1)..n : c = n \/ c \in (e + 1)..(n - 1)
  OBVIOUS
<1>3. (\A e \in 1..n : ~Waits(s[e])) <=> (\A e \in 1..(n - 1) : ~Waits(s[e]))
  BY <1>1
<1>4. ASSUME NEW e \in 1..(n - 1)
      PROVE  (\A c \in (e + 1)..n : ~Waits(s[c])) <=> (\A c \in (e + 1)..(n - 1) : ~Waits(s[c]))
  BY <1>2
<1>5. n + 1 - 1 = n
  OBVIOUS
<1> QED BY <1>1, <1>2, <1>3, <1>4, <1>5 DEF IsGateBelow

(* A caller passes: its priority is not below the level of the gate, hence *)
(* above that of all who wait.                                             *)
LEMMA GateStep ==
  ASSUME NEW s, NEW v, NEW u, NEW m \in Nat, StackInv(s, v, u, m),
         NEW f, Like(f, s[Len(s)]), Waits(f), ~Waits(s[Len(s)]), f.load = m,
         Base(s, Len(s)) >= m
  PROVE  StackInv(With(s, f), v, u, Base(s, Len(s)) + 1)
<1> DEFINE n == Len(s)
           t == With(s, f)
<1>1. Nested(s) /\ Chained(s, v) /\ Apart(s, u) /\ Returned(s, u) /\ Gated(s, m)
  BY DEF StackInv
<1>2. /\ Len(t) = n /\ t[n] = f /\ n \in Nat \ {0}
      /\ \A i \in 1..n : i # n => t[i] = s[i]
  BY <1>1, WithFrames DEF Like
<1>3. ~IsEntered(s[n]) /\ ~IsActive(f) /\ ~IsActive(s[n]) /\ ~IsEntered(f)
  BY DEF Waits, Like, IsEntered, IsActive
<1>4. Nested(t)
  BY <1>1, ReplaceNested
<1>5. Chained(t, v)
  BY <1>1, <1>3, ReplaceChained
<1>6. Apart(t, u)
  BY <1>1, <1>3, ReplaceApart
<1>7. Returned(t, u)
  BY <1>1, <1>3, ReplaceReturned
<1>8. f.kind = s[n].kind /\ f.kind # "os"
  BY DEF Like, Waits
<1> HIDE DEF t
<1>9. SameGates(s, t, n - 1)
  <2>1. \A i \in 1..(n - 1) : i \in 1..n /\ i # n
    BY <1>2
  <2>2. n - 1 \in Nat /\ n - 1 <= Len(s) /\ n - 1 <= Len(t)
    BY <1>2
  <2> QED BY <1>1, <1>2, <1>4, <2>1, <2>2, SameFramesGates
<1>10. ASSUME NEW d \in 1..n PROVE Base(t, d) = Base(s, d) /\ Base(s, d) \in Int
  <2>1. \A i \in 1..d : \/ s[i].kind = t[i].kind /\ s[i].level = t[i].level
                        \/ s[i].kind # "os" /\ t[i].kind # "os"
    <3> SUFFICES ASSUME NEW i \in 1..d
                 PROVE  \/ s[i].kind = t[i].kind /\ s[i].level = t[i].level
                        \/ s[i].kind # "os" /\ t[i].kind # "os"
      OBVIOUS
    <3>1. CASE i = n
      BY <1>2, <1>8, <3>1
    <3>2. CASE i # n
      BY <1>2, <3>2
    <3> QED BY <3>1, <3>2
  <2>2. d \in 1..Len(s) /\ d <= Len(t)
    BY <1>2
  <2>3. Base(s, d) = Base(t, d)
    BY <1>1, <1>4, <2>1, <2>2, BaseSame
  <2>4. Base(s, d) \in 0..MaxLevel
    BY <1>1, BaseType
  <2> QED BY <2>3, <2>4
<1>11. IsGateBelow(s, m, n + 1)
  BY <1>1 DEF Gated
<1>12. IsGateBelow(t, m, n)
  <2>1. IsGateBelow(s, m, n)
    BY <1>2, <1>11, GateBelow
  <2>2. n - 1 \in Nat /\ n \in 1..(n - 1 + 1)
    BY <1>2
  <2> QED BY <1>9, <2>1, <2>2, SameGateBelow
<1>13. IsGateBelow(t, Base(s, n) + 1, n + 1)
  <2>1. /\ n \in 1..(n + 1 - 1) /\ Waits(t[n]) /\ Base(s, n) + 1 = Base(t, n) + 1
        /\ \A c \in (n + 1)..(n + 1 - 1) : ~Waits(t[c])
    BY <1>2, <1>10
  <2> QED BY <2>1 DEF IsGateBelow
<1>14. ASSUME NEW d \in 1..n, Waits(t[d]) PROVE IsGateBelow(t, t[d].load, d)
  <2>1. CASE d = n
    BY <1>2, <1>12, <2>1
  <2>2. CASE d # n
    <3>1. IsGateBelow(s, t[d].load, d)
      BY <1>1, <1>2, <1>14, <2>2 DEF Gated
    <3>2. n - 1 \in Nat /\ d \in 1..(n - 1 + 1)
      BY <1>2
    <3> QED BY <1>9, <3>1, <3>2, SameGateBelow
  <2> QED BY <2>1, <2>2
<1>15. ASSUME NEW d \in 1..n, Waits(s[d]) PROVE Base(s, d) < Base(s, n)
  <2>1. d \in 1..(n + 1 - 1)
    BY <1>2
  <2>2. PICK e \in 1..(n + 1 - 1) : /\ Waits(s[e]) /\ m = Base(s, e) + 1
                                    /\ \A c \in (e + 1)..(n + 1 - 1) : ~Waits(s[c])
    BY <1>11, <1>15, <2>1 DEF IsGateBelow
  <2>3. e \in 1..n /\ d <= e
    BY <1>2, <1>15, <2>2
  <2>4. Base(s, d) <= Base(s, e)
    <3>1. CASE d = e
      BY <1>10, <3>1
    <3>2. CASE d < e
      BY <1>1, <1>10, <1>15, <2>2, <2>3, <3>2 DEF Gated
    <3> QED BY <2>3, <3>1, <3>2
  <2>5. Base(s, d) \in Int /\ Base(s, e) \in Int /\ Base(s, n) \in Int
    BY <1>2, <1>10, <2>3
  <2> QED BY <2>2, <2>4, <2>5
<1>16. ASSUME NEW d \in 1..n, NEW e \in 1..n, Waits(t[d]), Waits(t[e]), d < e
       PROVE  Base(t, d) < Base(t, e)
  <2>1. d # n /\ Waits(s[d])
    BY <1>2, <1>16
  <2>2. CASE e = n
    BY <1>10, <1>15, <2>1, <2>2
  <2>3. CASE e # n
    <3>1. Waits(s[e])
      BY <1>2, <1>16, <2>3
    <3> QED BY <1>1, <1>10, <1>16, <2>1, <3>1 DEF Gated
  <2> QED BY <2>2, <2>3
<1>17. Gated(t, Base(s, n) + 1)
  BY <1>2, <1>13, <1>14, <1>16 DEF Gated
<1> QED BY <1>4, <1>5, <1>6, <1>7, <1>17 DEF StackInv, t

(* It returns and puts the gate back to what it has found.                 *)
LEMMA UngateStep ==
  ASSUME NEW s, NEW v, NEW u, NEW m, StackInv(s, v, u, m),
         NEW f, Like(f, s[Len(s)]), ~Waits(f), Waits(s[Len(s)])
  PROVE  StackInv(With(s, f), v, u, s[Len(s)].load)
<1> DEFINE n == Len(s)
           t == With(s, f)
<1>1. Nested(s) /\ Chained(s, v) /\ Apart(s, u) /\ Returned(s, u) /\ Gated(s, m)
  BY DEF StackInv
<1>2. /\ Len(t) = n /\ t[n] = f /\ n \in Nat \ {0}
      /\ \A i \in 1..n : i # n => t[i] = s[i]
  BY <1>1, WithFrames DEF Like
<1>3. ~IsEntered(s[n]) /\ ~IsActive(f) /\ ~IsActive(s[n]) /\ ~IsEntered(f)
  BY DEF Waits, Like, IsEntered, IsActive
<1>4. Nested(t)
  BY <1>1, ReplaceNested
<1>5. Chained(t, v)
  BY <1>1, <1>3, ReplaceChained
<1>6. Apart(t, u)
  BY <1>1, <1>3, ReplaceApart
<1>7. Returned(t, u)
  BY <1>1, <1>3, ReplaceReturned
<1> HIDE DEF t
<1>8. SameGates(s, t, n - 1)
  <2>1. \A i \in 1..(n - 1) : i \in 1..n /\ i # n
    BY <1>2
  <2>2. n - 1 \in Nat /\ n - 1 <= Len(s) /\ n - 1 <= Len(t)
    BY <1>2
  <2> QED BY <1>1, <1>2, <1>4, <2>1, <2>2, SameFramesGates
<1>9. \A d \in 1..n : Waits(t[d]) => d # n /\ d \in 1..(n - 1) /\ Waits(s[d]) /\ t[d].load = s[d].load
  BY <1>2
<1>10. ASSUME NEW d \in 1..n, NEW x, IsGateBelow(s, x, d) PROVE IsGateBelow(t, x, d)
  <2>1. n - 1 \in Nat /\ d \in 1..(n - 1 + 1)
    BY <1>2
  <2> QED BY <1>8, <1>10, <2>1, SameGateBelow
<1>11. IsGateBelow(t, s[n].load, n + 1)
  <2>1. IsGateBelow(s, s[n].load, n) /\ n \in 1..n
    BY <1>1, <1>2 DEF Gated
  <2>2. IsGateBelow(t, s[n].load, n)
    BY <1>10, <2>1
  <2> QED BY <1>2, <2>2, GateBelow
<1>12. ASSUME NEW d \in 1..n, Waits(t[d]) PROVE IsGateBelow(t, t[d].load, d)
  <2>1. IsGateBelow(s, t[d].load, d)
    BY <1>1, <1>9, <1>12 DEF Gated
  <2> QED BY <1>10, <2>1
<1>13. ASSUME NEW d \in 1..n, NEW e \in 1..n, Waits(t[d]), Waits(t[e]), d < e
       PROVE  Base(t, d) < Base(t, e)
  <2>1. Base(t, d) = Base(s, d) /\ Base(t, e) = Base(s, e)
    BY <1>8, <1>9, <1>13 DEF SameGates
  <2>2. Base(s, d) < Base(s, e)
    BY <1>1, <1>9, <1>13 DEF Gated
  <2> QED BY <2>1, <2>2
<1>14. Gated(t, s[n].load)
  BY <1>2, <1>11, <1>12, <1>13 DEF Gated
<1> QED BY <1>4, <1>5, <1>6, <1>7, <1>14 DEF StackInv, t
-----------------------------------------------------------------------------
(* A frame is put on the stack or taken away *)

LEMMA PushFrames ==
  ASSUME NEW s, Nested(s), NEW f, WellFormed(f)
  PROVE  /\ Append(s, f) \in Seq(FrameType) /\ Append(s, f) # <<>>
         /\ Len(Append(s, f)) = Len(s) + 1 /\ Len(s) \in Nat \ {0}
         /\ Append(s, f)[Len(s) + 1] = f
         /\ \A i \in 1..Len(s) : Append(s, f)[i] = s[i]
<1>1. s \in Seq(FrameType) /\ f \in FrameType /\ Len(s) \in Nat \ {0}
  BY NestedFrames DEF WellFormed
<1> QED BY <1>1, PushProperties

LEMMA PushNested ==
  ASSUME NEW s, Nested(s), NEW f, WellFormed(f), FitsOn(f, s[Len(s)])
  PROVE  Nested(Append(s, f))
<1> DEFINE n == Len(s)
           t == Append(s, f)
<1>1. /\ t \in Seq(FrameType) /\ t # <<>> /\ Len(t) = n + 1 /\ n \in Nat \ {0} /\ t[n + 1] = f
      /\ \A i \in 1..n : t[i] = s[i]
  BY PushFrames
<1>2. /\ s[1].kind = "os" /\ \A i \in 1..n : WellFormed(s[i])
      /\ \A i \in 1..(n - 1) : FitsOn(s[i + 1], s[i])
      /\ FitsOn(f, s[n])
  BY DEF Nested
<1> HIDE DEF t, n
<1>3. ASSUME NEW i \in 1..(n + 1) PROVE WellFormed(t[i])
  BY <1>1, <1>2
<1>4. ASSUME NEW i \in 1..n PROVE FitsOn(t[i + 1], t[i])
  <2>1. CASE i = n
    BY <1>1, <1>2, <2>1
  <2>2. CASE i # n
    <3>1. i \in 1..(n - 1) /\ i + 1 \in 1..n
      BY <1>1, <2>2
    <3> QED BY <1>1, <1>2, <3>1
  <2> QED BY <2>1, <2>2
<1>5. Nested(t)
  BY <1>1, <1>2, <1>3, <1>4 DEF Nested
<1> QED BY <1>5 DEF t

LEMMA PushChained ==
  ASSUME NEW s, Nested(s), NEW v, Chained(s, v), NEW f, WellFormed(f), ~IsEntered(f)
  PROVE  Chained(Append(s, f), v)
<1> DEFINE n == Len(s)
           t == Append(s, f)
<1>1. /\ Len(t) = n + 1 /\ n \in Nat \ {0} /\ t[n + 1] = f /\ \A i \in 1..n : t[i] = s[i]
  BY PushFrames
<1>2. /\ IsInner(s, v, n + 1)
      /\ \A d \in 1..n : IsEntered(s[d]) => IsInner(s, s[d].svsp, d)
  BY DEF Chained
<1> HIDE DEF t, n
<1>3. ASSUME NEW d \in 1..(n + 1), NEW x, IsInner(s, x, d)
      PROVE  IsInner(t, x, d)
  BY <1>1, <1>3 DEF IsInner
<1>4. IsInner(t, v, n + 1) /\ n + 1 \in Nat \ {0} /\ ~IsEntered(t[n + 1])
  BY <1>1, <1>2, <1>3
<1>5. IsInner(t, v, n + 1 + 1)
  BY <1>4, InnerBelow
<1>6. ASSUME NEW d \in 1..(n + 1), IsEntered(t[d]) PROVE IsInner(t, t[d].svsp, d)
  <2>1. d \in 1..n
    BY <1>1, <1>6
  <2> QED BY <1>1, <1>2, <1>3, <1>6, <2>1
<1> QED BY <1>1, <1>5, <1>6 DEF Chained, t

LEMMA PushApart ==
  ASSUME NEW s, Nested(s), NEW u \in [PIDs -> 0..MaxSp], Apart(s, u),
         NEW f, WellFormed(f), FitsOn(f, s[Len(s)]), ~IsActive(f),
         NEW w, w = IF IsUser(s[Len(s)]) THEN [u EXCEPT ![s[Len(s)].pid] = f.usp] ELSE u
  PROVE  Apart(Append(s, f), w)
<1> DEFINE n == Len(s)
           t == Append(s, f)
<1>1. /\ Len(t) = n + 1 /\ n \in Nat \ {0} /\ t[n + 1] = f /\ \A i \in 1..n : t[i] = s[i]
  BY PushFrames
<1>2. /\ \A i \in 1..n : WellFormed(s[i]) /\ s[i] \in FrameType
      /\ \A i \in 1..n : IsUser(s[i]) => s[i].pid \in PIDs /\ IsActive(s[i])
      /\ \A i \in 1..n : s[i].usp \in Nat
      /\ f.usp \in Nat
  <2>1. \A i \in 1..n : WellFormed(s[i]) /\ s[i] \in FrameType
    BY NestedFrames
  <2>2. \A i \in 1..n : s[i].usp \in 0..MaxSp
    BY <2>1, FrameFields
  <2>3. f.usp \in 0..MaxSp
    BY FrameFields DEF WellFormed
  <2> QED BY <2>1, <2>2, <2>3 DEF WellFormed, IsUser, IsActive
<1>3. \A p \in PIDs : w[p] = IF IsUser(s[n]) /\ p = s[n].pid THEN f.usp ELSE u[p]
  OBVIOUS
<1>4. IsUser(s[n]) => s[n].usp <= f.usp
  BY DEF FitsOn
<1>5. ASSUME NEW d \in 1..(n - 1), IsUser(s[d])
      PROVE  /\ s[d + 1].usp <= u[s[d].pid]
             /\ \A e \in (d + 1)..n :
                  IsActive(s[e]) /\ s[e].pid = s[d].pid => s[d + 1].usp <= s[e].usp
  BY <1>5 DEF Apart
<1> HIDE DEF t, n
<1>6. ASSUME NEW d \in 1..n, IsUser(t[d])
      PROVE  t[d + 1].usp <= w[t[d].pid]
  <2>1. t[d] = s[d] /\ IsUser(s[d]) /\ s[d].pid \in PIDs
    BY <1>1, <1>2, <1>6
  <2>2. CASE d = n
    BY <1>1, <1>2, <1>3, <2>1, <2>2
  <2>3. CASE d # n
    <3>1. d \in 1..(n - 1) /\ d + 1 \in 1..n /\ n \in 1..n /\ n \in (d + 1)..n
      BY <1>1, <2>3
    <3>2. s[d + 1].usp <= u[s[d].pid] /\ t[d + 1] = s[d + 1]
      BY <1>1, <1>5, <2>1, <3>1
    <3>3. CASE IsUser(s[n]) /\ s[d].pid = s[n].pid
      <4>1. s[d + 1].usp <= s[n].usp
        BY <1>2, <1>5, <2>1, <3>1, <3>3
      <4>2. s[d + 1].usp \in Nat /\ s[n].usp \in Nat
        BY <1>2, <3>1
      <4> QED BY <1>2, <1>3, <1>4, <2>1, <3>2, <3>3, <4>1, <4>2
    <3>4. CASE ~(IsUser(s[n]) /\ s[d].pid = s[n].pid)
      BY <1>3, <2>1, <3>2, <3>4
    <3> QED BY <3>3, <3>4
  <2> QED BY <2>2, <2>3
<1>7. ASSUME NEW d \in 1..n, IsUser(t[d]), NEW e \in (d + 1)..(n + 1),
             IsActive(t[e]), t[e].pid = t[d].pid
      PROVE  t[d + 1].usp <= t[e].usp
  <2>1. e # n + 1
    BY <1>1, <1>7
  <2>2. d \in 1..(n - 1) /\ d + 1 \in 1..n /\ e \in 1..n /\ e \in (d + 1)..n
    BY <1>1, <2>1
  <2>3. t[d] = s[d] /\ t[e] = s[e] /\ t[d + 1] = s[d + 1]
    BY <1>1, <2>2
  <2> QED BY <1>5, <1>7, <2>2, <2>3
<1>8. Apart(t, w)
  BY <1>1, <1>6, <1>7 DEF Apart
<1> QED BY <1>8 DEF t

LEMMA PushReturned ==
  ASSUME NEW s, Nested(s), NEW u \in [PIDs -> 0..MaxSp], Returned(s, u),
         NEW f, WellFormed(f), ~IsActive(f),
         NEW w, w = IF IsUser(s[Len(s)]) THEN [u EXCEPT ![s[Len(s)].pid] = f.usp] ELSE u
  PROVE  Returned(Append(s, f), w)
<1> DEFINE n == Len(s)
           t == Append(s, f)
<1>1. /\ Len(t) = n + 1 /\ n \in Nat \ {0} /\ t[n + 1] = f /\ \A i \in 1..n : t[i] = s[i]
  BY PushFrames
<1>2. \A p \in PIDs : w[p] = IF IsUser(s[n]) /\ p = s[n].pid THEN f.usp ELSE u[p]
  OBVIOUS
<1>3. IsUser(s[n]) => IsActive(s[n])
  BY DEF IsUser, IsActive
<1>4. /\ \A p \in PIDs : u[p] # 0 => \E d \in 1..n : IsActive(s[d]) /\ s[d].pid = p
      /\ \A d \in 1..n : IsActive(s[d]) /\ s[d].usp # 0
           => \E e \in 1..(d - 1) : IsActive(s[e]) /\ s[e].pid = s[d].pid
  BY DEF Returned
<1> HIDE DEF t, n
<1>5. ASSUME NEW p \in PIDs, w[p] # 0
      PROVE  \E d \in 1..(n + 1) : IsActive(t[d]) /\ t[d].pid = p
  <2>1. PICK d \in 1..n : IsActive(s[d]) /\ s[d].pid = p
    <3>1. CASE IsUser(s[n]) /\ p = s[n].pid
      BY <1>1, <1>3, <3>1
    <3>2. CASE ~(IsUser(s[n]) /\ p = s[n].pid)
      BY <1>2, <1>4, <1>5, <3>2
    <3> QED BY <3>1, <3>2
  <2>2. d \in 1..(n + 1) /\ t[d] = s[d]
    BY <1>1
  <2> QED BY <2>1, <2>2
<1>6. ASSUME NEW d \in 1..(n + 1), IsActive(t[d]), t[d].usp # 0
      PROVE  \E e \in 1..(d - 1) : IsActive(t[e]) /\ t[e].pid = t[d].pid
  <2>1. d \in 1..n /\ t[d] = s[d] /\ \A e \in 1..(d - 1) : t[e] = s[e]
    BY <1>1, <1>6
  <2> QED BY <1>4, <1>6, <2>1
<1>7. Returned(t, w)
  BY <1>1, <1>5, <1>6 DEF Returned
<1> QED BY <1>7 DEF t

LEMMA PushGated ==
  ASSUME NEW s, Nested(s), NEW m, Gated(s, m),
         NEW f, WellFormed(f), FitsOn(f, s[Len(s)]), ~Waits(f)
  PROVE  Gated(Append(s, f), m)
<1> DEFINE n == Len(s)
           t == Append(s, f)
<1>1. /\ Len(t) = n + 1 /\ n \in Nat \ {0} /\ t[n + 1] = f /\ \A i \in 1..n : t[i] = s[i]
  BY PushFrames
<1>2. Nested(t)
  BY PushNested
<1>3. /\ IsGateBelow(s, m, n + 1)
      /\ \A d \in 1..n : Waits(s[d]) => IsGateBelow(s, s[d].load, d)
      /\ \A d, e \in 1..n : Waits(s[d]) /\ Waits(s[e]) /\ d < e => Base(s, d) < Base(s, e)
  BY DEF Gated
<1> HIDE DEF t
<1>4. SameGates(s, t, n)
  BY <1>1, <1>2, SameFramesGates
<1> HIDE DEF n
<1>5. ASSUME NEW d \in 1..(n + 1), NEW x, IsGateBelow(s, x, d) PROVE IsGateBelow(t, x, d)
  BY <1>1, <1>4, <1>5, SameGateBelow
<1>6. IsGateBelow(t, m, n + 1 + 1)
  <2>1. IsGateBelow(t, m, n + 1) /\ n + 1 \in Nat \ {0} /\ ~Waits(t[n + 1])
    BY <1>1, <1>3, <1>5
  <2> QED BY <2>1, GateBelow
<1>7. ASSUME NEW d \in 1..(n + 1), Waits(t[d]) PROVE d \in 1..n /\ Waits(s[d]) /\ t[d] = s[d]
  BY <1>1, <1>7
<1>8. ASSUME NEW d \in 1..(n + 1), Waits(t[d]) PROVE IsGateBelow(t, t[d].load, d)
  BY <1>3, <1>5, <1>7, <1>8
<1>9. ASSUME NEW d \in 1..(n + 1), NEW e \in 1..(n + 1), Waits(t[d]), Waits(t[e]), d < e
      PROVE  Base(t, d) < Base(t, e)
  <2>1. Base(t, d) = Base(s, d) /\ Base(t, e) = Base(s, e)
    BY <1>4, <1>7, <1>9 DEF SameGates
  <2> QED BY <1>3, <1>7, <1>9, <2>1
<1> QED BY <1>1, <1>6, <1>8, <1>9 DEF Gated, t

(* What is put on user code publishes the pointer to the stack in use.     *)
LEMMA PushStep ==
  ASSUME NEW s, NEW v, NEW u \in [PIDs -> 0..MaxSp], NEW m, StackInv(s, v, u, m),
         NEW f, WellFormed(f), FitsOn(f, s[Len(s)]), ~IsActive(f), ~Waits(f),
         NEW w, w = IF IsUser(s[Len(s)]) THEN [u EXCEPT ![s[Len(s)].pid] = f.usp] ELSE u
  PROVE  StackInv(Append(s, f), v, w, m)
<1>1. Nested(s) /\ Chained(s, v) /\ Apart(s, u) /\ Returned(s, u) /\ Gated(s, m)
  BY DEF StackInv
<1>2. ~IsEntered(f)
  BY DEF IsEntered, IsActive
<1>3. Nested(Append(s, f))
  BY <1>1, PushNested
<1>4. Chained(Append(s, f), v)
  BY <1>1, <1>2, PushChained
<1>5. Apart(Append(s, f), w)
  BY <1>1, PushApart
<1>6. Returned(Append(s, f), w)
  BY <1>1, PushReturned
<1>7. Gated(Append(s, f), m)
  BY <1>1, PushGated
<1> QED BY <1>3, <1>4, <1>5, <1>6, <1>7 DEF StackInv

LEMMA PopFrames ==
  ASSUME NEW s, Nested(s), Len(s) > 1
  PROVE  /\ But(s) \in Seq(FrameType) /\ But(s) # <<>>
         /\ Len(But(s)) = Len(s) - 1 /\ Len(s) \in Nat \ {0} /\ Len(s) - 1 \in Nat \ {0}
         /\ \A i \in 1..(Len(s) - 1) : But(s)[i] = s[i]
<1>1. s \in Seq(FrameType) /\ s # <<>> /\ Len(s) \in Nat \ {0}
  BY NestedFrames DEF Nested
<1>2. /\ But(s) \in Seq(FrameType) /\ Len(But(s)) = Len(s) - 1
      /\ \A i \in 1..(Len(s) - 1) : But(s)[i] = s[i]
  BY <1>1, ButProperties
<1> QED BY <1>1, <1>2

LEMMA PopNested ==
  ASSUME NEW s, Nested(s), Len(s) > 1
  PROVE  Nested(But(s))
<1> DEFINE n == Len(s)
           t == But(s)
<1>1. /\ t \in Seq(FrameType) /\ t # <<>> /\ Len(t) = n - 1 /\ n \in Nat \ {0} /\ n > 1
      /\ \A i \in 1..(n - 1) : t[i] = s[i]
  BY PopFrames
<1>2. /\ s[1].kind = "os" /\ \A i \in 1..n : WellFormed(s[i])
      /\ \A i \in 1..(n - 1) : FitsOn(s[i + 1], s[i])
  BY DEF Nested
<1> HIDE DEF t, n
<1>3. ASSUME NEW i \in 1..(n - 1) PROVE WellFormed(t[i])
  BY <1>1, <1>2
<1>4. ASSUME NEW i \in 1..(n - 1 - 1) PROVE FitsOn(t[i + 1], t[i])
  <2>1. i \in 1..(n - 1) /\ i + 1 \in 1..(n - 1)
    BY <1>1
  <2> QED BY <1>1, <1>2, <2>1
<1>5. t[1].kind = "os"
  BY <1>1, <1>2
<1>6. Nested(t)
  BY <1>1, <1>3, <1>4, <1>5 DEF Nested
<1> QED BY <1>6 DEF t

LEMMA PopStep ==
  ASSUME NEW s, NEW v, NEW u, NEW m, StackInv(s, v, u, m), Len(s) > 1,
         ~IsActive(s[Len(s)]), ~Waits(s[Len(s)])
  PROVE  StackInv(But(s), v, u, m)
<1> DEFINE n == Len(s)
           t == But(s)
<1>1. Nested(s) /\ Chained(s, v) /\ Apart(s, u) /\ Returned(s, u) /\ Gated(s, m)
  BY DEF StackInv
<1>2. /\ Len(t) = n - 1 /\ n \in Nat \ {0} /\ n - 1 \in Nat \ {0}
      /\ \A i \in 1..(n - 1) : t[i] = s[i]
  BY <1>1, PopFrames
<1>3. Nested(t)
  BY <1>1, PopNested
<1>4. ~IsEntered(s[n])
  BY DEF IsEntered, IsActive
<1> HIDE DEF t
<1>5. SameGates(s, t, n - 1)
  <2>1. n - 1 \in Nat /\ n - 1 <= Len(s) /\ n - 1 <= Len(t)
    BY <1>2
  <2> QED BY <1>1, <1>2, <1>3, <2>1, SameFramesGates
<1>6. /\ IsInner(s, v, n + 1)
      /\ \A d \in 1..n : IsEntered(s[d]) => IsInner(s, s[d].svsp, d)
  BY <1>1 DEF Chained
<1>7. /\ IsGateBelow(s, m, n + 1)
      /\ \A d \in 1..n : Waits(s[d]) => IsGateBelow(s, s[d].load, d)
      /\ \A d, e \in 1..n : Waits(s[d]) /\ Waits(s[e]) /\ d < e => Base(s, d) < Base(s, e)
  BY <1>1 DEF Gated
<1>8. IsInner(s, v, n)
  BY <1>2, <1>4, <1>6, InnerBelow
<1>9. IsGateBelow(s, m, n)
  BY <1>2, <1>7, GateBelow
<1>10. /\ \A d \in 1..(n - 1) : IsUser(s[d]) =>
            /\ s[d + 1].usp <= u[s[d].pid]
            /\ \A e \in (d + 1)..n :
                 IsActive(s[e]) /\ s[e].pid = s[d].pid => s[d + 1].usp <= s[e].usp
  BY <1>1 DEF Apart
<1>11. /\ \A p \in PIDs : u[p] # 0 => \E d \in 1..n : IsActive(s[d]) /\ s[d].pid = p
       /\ \A d \in 1..n : IsActive(s[d]) /\ s[d].usp # 0
            => \E e \in 1..(d - 1) : IsActive(s[e]) /\ s[e].pid = s[d].pid
  BY <1>1 DEF Returned
<1>12. ~IsActive(s[n])
  OBVIOUS
<1> HIDE DEF n
<1>13. Chained(t, v)
  <2>1. ASSUME NEW d \in 1..n, NEW x, IsInner(s, x, d) PROVE IsInner(t, x, d)
    BY <1>2, <2>1 DEF IsInner
  <2>2. IsInner(t, v, n - 1 + 1)
    BY <1>2, <1>8, <2>1
  <2>3. ASSUME NEW d \in 1..(n - 1), IsEntered(t[d]) PROVE IsInner(t, t[d].svsp, d)
    <3>1. d \in 1..n /\ t[d] = s[d]
      BY <1>2
    <3> QED BY <1>6, <2>1, <2>3, <3>1
  <2> QED BY <1>2, <2>2, <2>3 DEF Chained
<1>14. Apart(t, u)
  <2>1. ASSUME NEW d \in 1..(n - 1 - 1), IsUser(t[d])
        PROVE  /\ t[d + 1].usp <= u[t[d].pid]
               /\ \A e \in (d + 1)..(n - 1) :
                    IsActive(t[e]) /\ t[e].pid = t[d].pid => t[d + 1].usp <= t[e].usp
    <3>1. d \in 1..(n - 1) /\ d + 1 \in 1..(n - 1)
          /\ \A e \in (d + 1)..(n - 1) : e \in (d + 1)..n /\ e \in 1..(n - 1)
      BY <1>2
    <3> QED BY <1>2, <1>10, <2>1, <3>1
  <2> QED BY <1>2, <2>1 DEF Apart
<1>15. Returned(t, u)
  <2>1. ASSUME NEW p \in PIDs, u[p] # 0
        PROVE  \E d \in 1..(n - 1) : IsActive(t[d]) /\ t[d].pid = p
    <3>1. PICK d \in 1..n : IsActive(s[d]) /\ s[d].pid = p
      BY <1>11, <2>1
    <3>2. d \in 1..(n - 1)
      BY <1>2, <1>12, <3>1
    <3> QED BY <1>2, <3>1, <3>2
  <2>2. ASSUME NEW d \in 1..(n - 1), IsActive(t[d]), t[d].usp # 0
        PROVE  \E e \in 1..(d - 1) : IsActive(t[e]) /\ t[e].pid = t[d].pid
    <3>1. d \in 1..n /\ t[d] = s[d] /\ \A e \in 1..(d - 1) : t[e] = s[e]
      BY <1>2
    <3> QED BY <1>11, <2>2, <3>1
  <2> QED BY <1>2, <2>1, <2>2 DEF Returned
<1>16. Gated(t, m)
  <2>1. ASSUME NEW d \in 1..n, NEW x, IsGateBelow(s, x, d) PROVE IsGateBelow(t, x, d)
    <3>1. n - 1 \in Nat /\ d \in 1..(n - 1 + 1)
      BY <1>2
    <3> QED BY <1>5, <2>1, <3>1, SameGateBelow
  <2>2. IsGateBelow(t, m, n - 1 + 1)
    BY <1>2, <1>9, <2>1
  <2>3. ASSUME NEW d \in 1..(n - 1), Waits(t[d]) PROVE IsGateBelow(t, t[d].load, d)
    <3>1. d \in 1..n /\ t[d] = s[d]
      BY <1>2
    <3> QED BY <1>7, <2>1, <2>3, <3>1
  <2>4. ASSUME NEW d \in 1..(n - 1), NEW e \in 1..(n - 1), Waits(t[d]), Waits(t[e]), d < e
        PROVE  Base(t, d) < Base(t, e)
    <3>1. Base(t, d) = Base(s, d) /\ Base(t, e) = Base(s, e)
      BY <1>5 DEF SameGates
    <3>2. d \in 1..n /\ e \in 1..n /\ t[d] = s[d] /\ t[e] = s[e]
      BY <1>2
    <3> QED BY <1>7, <2>4, <3>1, <3>2
  <2> QED BY <1>2, <2>2, <2>3, <2>4 DEF Gated
<1> QED BY <1>3, <1>13, <1>14, <1>15, <1>16 DEF StackInv, t
-----------------------------------------------------------------------------
(* Deadlines and the startup *)

(* Nothing depends on whether the deadline of a task is over.              *)
Alike(s, t) ==
  /\ t \in Seq(FrameType) /\ Len(t) = Len(s)
  /\ \A i \in 1..Len(s) :
       /\ t[i] \in FrameType
       /\ t[i].kind = s[i].kind /\ t[i].pc = s[i].pc /\ t[i].pid = s[i].pid
       /\ t[i].level = s[i].level /\ t[i].usp = s[i].usp /\ t[i].svsp = s[i].svsp
       /\ t[i].load = s[i].load

LEMMA AlikeNested ==
  ASSUME NEW s, Nested(s), NEW t, Alike(s, t)
  PROVE  Nested(t)
<1> DEFINE n == Len(s)
<1>1. n \in Nat \ {0} /\ t \in Seq(FrameType) /\ Len(t) = n
  BY NestedFrames DEF Alike
<1>2. /\ s[1].kind = "os" /\ \A i \in 1..n : WellFormed(s[i])
      /\ \A i \in 1..(n - 1) : FitsOn(s[i + 1], s[i])
  BY DEF Nested
<1>3. \A i \in 1..n :
        /\ t[i] \in FrameType
        /\ t[i].kind = s[i].kind /\ t[i].pc = s[i].pc /\ t[i].pid = s[i].pid
        /\ t[i].level = s[i].level /\ t[i].usp = s[i].usp /\ t[i].load = s[i].load
  BY DEF Alike
<1> HIDE DEF n
<1>4. ASSUME NEW i \in 1..n PROVE WellFormed(t[i])
  <2>1. WellFormed(s[i])
    BY <1>2
  <2> QED BY <1>3, <2>1 DEF WellFormed, Waits
<1>5. ASSUME NEW i \in 1..(n - 1) PROVE FitsOn(t[i + 1], t[i])
  <2>1. i \in 1..n /\ i + 1 \in 1..n /\ FitsOn(s[i + 1], s[i])
    BY <1>1, <1>2
  <2> QED BY <1>3, <2>1 DEF FitsOn, IsUser, IsActive, Waits
<1>6. t # <<>> /\ t[1].kind = "os"
  BY <1>1, <1>2, <1>3
<1> QED BY <1>1, <1>4, <1>5, <1>6 DEF Nested

LEMMA AlikeStep ==
  ASSUME NEW s, NEW v, NEW u, NEW m, StackInv(s, v, u, m), NEW t, Alike(s, t)
  PROVE  StackInv(t, v, u, m)
<1> DEFINE n == Len(s)
<1>1. Nested(s) /\ Chained(s, v) /\ Apart(s, u) /\ Returned(s, u) /\ Gated(s, m)
  BY DEF StackInv
<1>2. Nested(t)
  BY <1>1, AlikeNested
<1>3. n \in Nat \ {0} /\ Len(t) = n
  BY <1>1, NestedFrames DEF Alike
<1>4. \A i \in 1..n :
        /\ t[i].kind = s[i].kind /\ t[i].pid = s[i].pid /\ t[i].level = s[i].level
        /\ t[i].usp = s[i].usp /\ t[i].svsp = s[i].svsp /\ t[i].load = s[i].load
        /\ IsUser(t[i]) <=> IsUser(s[i])
        /\ IsEntered(t[i]) <=> IsEntered(s[i])
        /\ IsActive(t[i]) <=> IsActive(s[i])
        /\ Waits(t[i]) <=> Waits(s[i])
  BY DEF Alike, IsUser, IsEntered, IsActive, Waits
<1> HIDE DEF n
<1>5. Gated(t, m)
  <2>1. n = Len(s)
    BY DEF n
  <2>2. SameGates(s, t, n)
    BY <1>1, <1>2, <1>3, <1>4, <2>1, SameFramesGates
  <2> QED BY <1>1, <1>3, <2>1, <2>2, SameGated
<1>6. Chained(t, v)
  <2>1. /\ IsInner(s, v, n + 1)
        /\ \A d \in 1..n : IsEntered(s[d]) => IsInner(s, s[d].svsp, d)
    BY <1>1 DEF Chained, n
  <2>2. ASSUME NEW d \in 1..(n + 1), NEW x, IsInner(s, x, d) PROVE IsInner(t, x, d)
    BY <1>3, <1>4, <2>2 DEF IsInner
  <2>3. IsInner(t, v, n + 1)
    BY <1>3, <2>1, <2>2
  <2>4. \A d \in 1..n : IsEntered(t[d]) => IsInner(t, t[d].svsp, d)
    BY <1>3, <1>4, <2>1, <2>2
  <2> QED BY <1>3, <2>3, <2>4 DEF Chained
<1>7. Apart(t, u)
  <2>1. ASSUME NEW d \in 1..(n - 1), IsUser(t[d])
        PROVE  /\ t[d + 1].usp <= u[t[d].pid]
               /\ \A e \in (d + 1)..n :
                    IsActive(t[e]) /\ t[e].pid = t[d].pid => t[d + 1].usp <= t[e].usp
    <3>1. d \in 1..n /\ d + 1 \in 1..n /\ IsUser(s[d]) /\ \A e \in (d + 1)..n : e \in 1..n
      BY <1>3, <1>4, <2>1
    <3>2. /\ s[d + 1].usp <= u[s[d].pid]
          /\ \A e \in (d + 1)..n :
               IsActive(s[e]) /\ s[e].pid = s[d].pid => s[d + 1].usp <= s[e].usp
      BY <1>1, <3>1 DEF Apart, n
    <3> QED BY <1>4, <3>1, <3>2
  <2> QED BY <1>3, <2>1 DEF Apart
<1>8. Returned(t, u)
  <2>1. /\ \A p \in PIDs : u[p] # 0 => \E d \in 1..n : IsActive(s[d]) /\ s[d].pid = p
        /\ \A d \in 1..n : IsActive(s[d]) /\ s[d].usp # 0
             => \E e \in 1..(d - 1) : IsActive(s[e]) /\ s[e].pid = s[d].pid
    BY <1>1 DEF Returned, n
  <2>2. \A p \in PIDs : u[p] # 0 => \E d \in 1..n : IsActive(t[d]) /\ t[d].pid = p
    BY <1>4, <2>1
  <2>3. ASSUME NEW d \in 1..n, IsActive(t[d]), t[d].usp # 0
        PROVE  \E e \in 1..(d - 1) : IsActive(t[e]) /\ t[e].pid = t[d].pid
    <3>1. PICK e \in 1..(d - 1) : IsActive(s[e]) /\ s[e].pid = s[d].pid
      BY <1>4, <2>1, <2>3
    <3>2. e \in 1..n
      BY <1>3
    <3> QED BY <1>4, <3>1, <3>2
  <2> QED BY <1>3, <2>2, <2>3 DEF Returned
<1> QED BY <1>2, <1>5, <1>6, <1>7, <1>8 DEF StackInv

(* Only rtos_osInitKernel is executing: no task is, no stack is in use and *)
(* nobody waits.                                                           *)
LEMMA BottomStep ==
  ASSUME NEW s, NEW v, NEW u, NEW m, StackInv(s, v, u, m), Len(s) = 1,
         NEW f, WellFormed(f), f.kind = "os"
  PROVE  StackInv(<<f>>, v, u, m)
<1> DEFINE t == <<f>>
<1>1. Nested(s) /\ Chained(s, v) /\ Returned(s, u) /\ Gated(s, m) /\ s[1].kind = "os"
  BY DEF StackInv, Nested
<1>2. f \in FrameType /\ ~IsEntered(f) /\ ~IsActive(f) /\ ~IsUser(f) /\ ~Waits(f)
  BY DEF WellFormed, IsEntered, IsActive, IsUser, Waits
<1>3. ~IsEntered(s[1]) /\ ~IsActive(s[1]) /\ ~Waits(s[1])
  BY <1>1 DEF IsEntered, IsActive, Waits
<1>4. t \in Seq(FrameType) /\ t # <<>> /\ Len(t) = 1 /\ t[1] = f
  BY <1>2
<1> HIDE DEF t
<1>5. Nested(t)
  BY <1>2, <1>4 DEF Nested
<1>6. v = 0
  BY <1>1, <1>3 DEF Chained, IsInner
<1>7. Chained(t, v)
  BY <1>2, <1>4, <1>6 DEF Chained, IsInner
<1>8. Apart(t, u)
  BY <1>4 DEF Apart
<1>9. Returned(t, u)
  BY <1>1, <1>2, <1>3, <1>4 DEF Returned
<1>10. Gated(t, m)
  <2>1. m = 0
    BY <1>1, <1>3 DEF Gated, IsGateBelow
  <2>2. IsGateBelow(t, m, 2)
    BY <1>2, <1>4, <2>1 DEF IsGateBelow
  <2>3. \A d \in 1..1 : ~Waits(t[d])
    BY <1>2, <1>4
  <2> QED BY <1>4, <2>2, <2>3 DEF Gated
<1>11. StackInv(t, v, u, m)
  BY <1>5, <1>7, <1>8, <1>9, <1>10 DEF StackInv
<1> QED BY <1>11 DEF t

(* Only the first frame can be that of rtos_osInitKernel at its startup.   *)
LEMMA StartupIsFirst ==
  ASSUME NEW s, Nested(s), NEW d \in 1..Len(s), s[d].kind = "os", s[d].pc # "run"
  PROVE  d = 1
<1>1. Len(s) \in Nat \ {0}
  BY NestedFrames
<1>2. CASE d # 1
  <2>1. d - 1 \in 1..(Len(s) - 1) /\ d - 1 + 1 = d
    BY <1>1, <1>2
  <2>2. FitsOn(s[d - 1 + 1], s[d - 1])
    BY <2>1 DEF Nested
  <2> QED BY <2>1, <2>2 DEF FitsOn
<1> QED BY <1>2

LEMMA StartedWith ==
  ASSUME NEW s, Nested(s), NEW done, Started(s, done), NEW f, Like(f, s[Len(s)])
  PROVE  Started(With(s, f), done)
<1> DEFINE n == Len(s)
           t == With(s, f)
<1>1. /\ Len(t) = n /\ t[n] = f /\ n \in Nat \ {0} /\ \A i \in 1..n : i # n => t[i] = s[i]
      /\ s[1].kind = "os"
  BY WithFrames DEF Like, Nested
<1>2. f.kind = s[n].kind /\ f.pid = s[n].pid /\ (f.kind = "os" => f.pc = s[n].pc)
  BY DEF Like
<1> HIDE DEF t
<1>3. t[1].pc = s[1].pc /\ t[1].pid = s[1].pid
  BY <1>1, <1>2
<1>4. n >= 2 => t[2].kind = s[2].kind
  BY <1>1, <1>2
<1>5. Started(t, done)
  BY <1>1, <1>3, <1>4 DEF Started
<1> QED BY <1>5 DEF t

LEMMA StartedPush ==
  ASSUME NEW s, Nested(s), NEW done, Started(s, done), NEW f, WellFormed(f)
  PROVE  Started(Append(s, f), done)
<1> DEFINE n == Len(s)
           t == Append(s, f)
<1>1. Len(t) = n + 1 /\ n \in Nat \ {0} /\ \A i \in 1..n : t[i] = s[i]
  BY PushFrames
<1> HIDE DEF t
<1>2. t[1] = s[1] /\ (n >= 2 => t[2] = s[2])
  BY <1>1
<1>3. Started(t, done)
  BY <1>1, <1>2 DEF Started
<1> QED BY <1>3 DEF t

LEMMA StartedPop ==
  ASSUME NEW s, Nested(s), NEW done, Started(s, done), Len(s) > 1, s[Len(s)].kind # "task"
  PROVE  Started(But(s), done)
<1> DEFINE n == Len(s)
           t == But(s)
<1>1. Len(t) = n - 1 /\ n \in Nat \ {0} /\ n > 1 /\ \A i \in 1..(n - 1) : t[i] = s[i]
  BY PopFrames
<1> HIDE DEF t
<1>2. t[1] = s[1] /\ (n > 2 => t[2] = s[2])
  BY <1>1
<1>3. s[2].kind = "task" => n > 2
  BY <1>1
<1>4. Started(t, done)
  BY <1>1, <1>2, <1>3 DEF Started
<1> QED BY <1>4 DEF t
-----------------------------------------------------------------------------
(* Steps *)

LEMMA GateType ==
  ASSUME NEW s, Nested(s), NEW m, Gated(s, m)
  PROVE  m \in 0..(MaxLevel + 1)
<1> DEFINE n == Len(s)
<1>1. n \in Nat \ {0} /\ MaxLevel \in Nat
  BY NestedFrames, LevelAssumption
<1>2. IsGateBelow(s, m, n + 1)
  BY DEF Gated
<1>3. CASE m = 0
  BY <1>1, <1>3
<1>4. CASE m # 0
  <2>1. PICK e \in 1..(n + 1 - 1) : m = Base(s, e) + 1
    BY <1>2, <1>4 DEF IsGateBelow
  <2>2. e \in 1..Len(s)
    BY <1>1
  <2>3. Base(s, e) \in 0..MaxLevel
    BY <2>2, BaseType
  <2> QED BY <1>1, <2>1, <2>3
<1> QED BY <1>3, <1>4

(* What the invariant says of the code that executes.                      *)
LEMMA TopFacts ==
  ASSUME IInv
  PROVE  /\ Nested(stack) /\ Len(stack) \in Nat \ {0} /\ Top = stack[Len(stack)]
         /\ Top \in FrameType /\ WellFormed(Top)
         /\ InUserCode <=> IsUser(Top)
         /\ IsEntered(Top) => svsp = Len(stack)
         /\ IsUser(Top) => IsEntered(Top) /\ IsActive(Top) /\ Top.pid \in PIDs /\ pid0 # 0
         /\ ~IsUser(Top) => pid0 = 0
         /\ minLevel \in 0..(MaxLevel + 1)
         /\ Below = But(stack)
<1> DEFINE n == Len(stack)
<1>1. Nested(stack) /\ Chained(stack, svsp) /\ Gated(stack, minLevel)
  BY DEF IInv, StackInv
<1>2. n \in Nat \ {0} /\ stack[n] \in FrameType /\ WellFormed(stack[n]) /\ n \in 1..n
  BY <1>1, NestedFrames
<1>3. IsEntered(stack[n]) => svsp = n
  BY <1>1, <1>2 DEF Chained, IsInner
<1>4. IsUser(Top) => IsEntered(Top) /\ IsActive(Top) /\ Top.pid \in PIDs
  BY <1>2 DEF IsUser, IsEntered, IsActive, WellFormed, Top
<1>5. pid0 = IF IsUser(Top) THEN Top.pid ELSE 0
  BY DEF IInv, CpuInv
<1>6. \A p \in PIDs : p # 0
  BY DEF PIDs
<1>7. minLevel \in 0..(MaxLevel + 1)
  BY <1>1, GateType
<1> QED BY <1>1, <1>2, <1>3, <1>4, <1>5, <1>6, <1>7 DEF Top, InUserCode, At, IsUser, Below, But

(* What is on user code that is preempted or waits.                        *)
LEMMA BelowFacts ==
  ASSUME IInv, Len(stack) > 1
  PROVE  /\ FitsOn(Top, stack[Len(stack) - 1]) /\ WellFormed(stack[Len(stack) - 1])
         /\ stack[Len(stack) - 1] \in FrameType
         /\ Len(stack) - 1 \in 1..(Len(stack) - 1)
         /\ IsUser(stack[Len(stack) - 1]) =>
              /\ ~IsEntered(Top) => svsp = Len(stack) - 1
              /\ stack[Len(stack) - 1].pid \in PIDs
<1> DEFINE n == Len(stack)
<1>1. Nested(stack) /\ Chained(stack, svsp) /\ n \in Nat \ {0} /\ Top = stack[n]
  BY TopFacts DEF IInv, StackInv
<1>2. n - 1 \in 1..(n - 1) /\ n - 1 \in 1..n /\ n - 1 + 1 = n
  BY <1>1
<1>3. FitsOn(stack[n - 1 + 1], stack[n - 1]) /\ WellFormed(stack[n - 1])
  BY <1>1, <1>2 DEF Nested
<1>4. ASSUME IsUser(stack[n - 1]), ~IsEntered(Top) PROVE svsp = n - 1
  <2>1. IsEntered(stack[n - 1]) /\ IsInner(stack, svsp, n + 1)
    BY <1>1, <1>4 DEF IsUser, IsEntered, Chained
  <2>2. svsp # n /\ svsp \in 0..n /\ \A e \in (svsp + 1)..n : ~IsEntered(stack[e])
    BY <1>1, <1>4, <2>1 DEF IsInner
  <2>3. ~(svsp < n - 1)
    <3>1. svsp < n - 1 => n - 1 \in (svsp + 1)..n
      BY <1>1, <2>2
    <3> QED BY <2>1, <2>2, <3>1
  <2> QED BY <1>1, <2>2, <2>3
<1>5. IsUser(stack[n - 1]) => stack[n - 1].pid \in PIDs
  BY <1>3 DEF IsUser, WellFormed
<1>6. stack[n - 1] \in FrameType
  BY <1>3 DEF WellFormed
<1> QED BY <1>1, <1>2, <1>3, <1>4, <1>5, <1>6

(* The frame on top is replaced in kernel code.                            *)
LEMMA ReplaceKeeps ==
  ASSUME IInv, NEW f, Like(f, Top), SameWait(f, Top), IsActive(f) <=> IsActive(Top),
         ~IsUser(f), ~IsUser(Top), stack' = With(stack, f),
         svsp' = IF IsEntered(Top) /\ ~IsEntered(f) THEN Top.svsp ELSE svsp,
         UNCHANGED <<pid0, usp, userSP, minLevel, initDone>>, TypesInv'
  PROVE  IInv'
<1>1. Nested(stack) /\ Top = stack[Len(stack)] /\ pid0 = 0
  BY TopFacts
<1>2. StackInv(stack, svsp, userSP, minLevel) /\ Started(stack, initDone) /\ usp \in 0..MaxSp
  BY DEF IInv, CpuInv
<1>3. StackInv(stack', svsp', userSP', minLevel')
  BY <1>1, <1>2, ReplaceStep
<1>4. Started(stack', initDone')
  BY <1>1, <1>2, StartedWith
<1>5. Top' = f
  <2>1. Len(stack') = Len(stack) /\ stack'[Len(stack)] = f
    BY <1>1, WithFrames DEF Like
  <2> QED BY <2>1 DEF Top
<1>6. CpuInv'
  BY <1>1, <1>2, <1>5 DEF CpuInv
<1> QED BY <1>3, <1>4, <1>6 DEF IInv

(* Kernel code or an interrupt gets on the stack.                          *)
LEMMA PushKeeps ==
  ASSUME IInv, NEW f, WellFormed(f), FitsOn(f, Top), ~IsActive(f), ~Waits(f),
         stack' = Append(stack, f), pid0' = 0, usp' \in 0..MaxSp,
         userSP' = IF IsUser(Top) THEN [userSP EXCEPT ![Top.pid] = f.usp] ELSE userSP,
         UNCHANGED <<svsp, minLevel, initDone>>,
         UNCHANGED <<state, cnt, aborts>>, currentPrio' \in 0..MaxLevel
  PROVE  IInv'
<1>1. Nested(stack) /\ Top = stack[Len(stack)]
  BY TopFacts
<1>2. /\ StackInv(stack, svsp, userSP, minLevel) /\ Started(stack, initDone)
      /\ TypesInv /\ userSP \in [PIDs -> 0..MaxSp]
  BY DEF IInv, TypesInv
<1>3. StackInv(stack', svsp', userSP', minLevel')
  BY <1>1, <1>2, PushStep
<1>4. Started(stack', initDone')
  BY <1>1, <1>2, StartedPush
<1>5. Top' = f /\ ~IsUser(f)
  <2>1. Len(stack') = Len(stack) + 1 /\ stack'[Len(stack) + 1] = f
    BY <1>1, PushFrames
  <2> QED BY <2>1 DEF Top, IsUser, IsActive
<1>6. CpuInv'
  BY <1>5 DEF CpuInv
<1>7. TypesInv'
  <2>1. f.usp \in 0..MaxSp
    BY FrameFields DEF WellFormed
  <2> QED BY <1>2, <2>1 DEF TypesInv
<1> QED BY <1>3, <1>4, <1>6, <1>7 DEF IInv

(* The scheduler is started from kernel code and serves an event.          *)
LEMMA ScheduleKeeps ==
  ASSUME IInv, NEW g, Like(g, Top), SameWait(g, Top), ~IsActive(g), ~IsActive(Top),
         NEW level \in 0..MaxLevel,
         stack' = Append(With(stack, g), OsFrame(level)), currentPrio' = level,
         UNCHANGED <<cpu, userSP, state, cnt, minLevel, history>>
  PROVE  IInv'
<1> DEFINE f == OsFrame(level)
<1>1. Nested(stack) /\ Top = stack[Len(stack)] /\ ~IsUser(Top) /\ pid0 = 0
  BY TopFacts DEF IsUser, IsActive
<1>2. /\ StackInv(stack, svsp, userSP, minLevel) /\ Started(stack, initDone)
      /\ TypesInv /\ userSP \in [PIDs -> 0..MaxSp] /\ currentPrio \in 0..MaxLevel
      /\ usp \in 0..MaxSp
  BY DEF IInv, TypesInv, CpuInv
<1>3. ~IsEntered(Top) /\ ~IsUser(g)
  BY DEF IsEntered, IsActive, IsUser
<1>4. StackInv(With(stack, g), svsp, userSP, minLevel)
  BY <1>1, <1>2, <1>3, ReplaceStep
<1>5. Started(With(stack, g), initDone)
  BY <1>1, <1>2, StartedWith
<1>6. Nested(With(stack, g)) /\ With(stack, g)[Len(With(stack, g))] = g
  BY <1>1, <1>4, WithFrames DEF StackInv, Like
<1>7. /\ WellFormed(f) /\ f.kind = "os" /\ f.pc = "run"
      /\ ~IsActive(f) /\ ~IsUser(f) /\ ~Waits(f)
  <2>1. f \in FrameType
    BY <1>2, LevelAssumption, OsFrameType
  <2>2. f.kind = "os" /\ f.pc = "run" /\ f.level = level
    BY DEF OsFrame, Frame
  <2> HIDE DEF f
  <2> QED BY <2>1, <2>2 DEF WellFormed, IsActive, IsUser, Waits
<1> HIDE DEF f
<1>8. FitsOn(f, g)
  BY <1>3, <1>7 DEF FitsOn
<1>9. StackInv(stack', svsp', userSP', minLevel')
  <2>1. FitsOn(f, With(stack, g)[Len(With(stack, g))]) /\ ~IsUser(With(stack, g)[Len(With(stack, g))])
    BY <1>3, <1>6, <1>8
  <2>2. StackInv(Append(With(stack, g), f), svsp, userSP, minLevel)
    BY <1>2, <1>4, <1>7, <2>1, PushStep
  <2> QED BY <2>2 DEF f, cpu
<1>10. Started(stack', initDone')
  <2>1. Started(Append(With(stack, g), f), initDone)
    BY <1>5, <1>6, <1>7, StartedPush
  <2> QED BY <2>1 DEF f, history
<1>11. Top' = f
  <2>1. stack' = Append(With(stack, g), f)
    BY DEF f
  <2>2. /\ Len(stack') = Len(With(stack, g)) + 1
        /\ stack'[Len(With(stack, g)) + 1] = f
    BY <1>6, <1>7, <2>1, PushFrames
  <2> QED BY <2>2 DEF Top
<1>12. CpuInv' /\ TypesInv'
  BY <1>1, <1>2, <1>7, <1>11 DEF CpuInv, TypesInv, cpu, history
<1> QED BY <1>9, <1>10, <1>12 DEF IInv

(* Kernel code or an interrupt returns.                                    *)
LEMMA PopKeeps ==
  ASSUME IInv, Len(stack) > 1, Top.kind # "task", ~Waits(Top), stack' = But(stack),
         pid0' = (IF IsUser(stack[Len(stack) - 1]) THEN stack[Len(stack) - 1].pid ELSE 0),
         usp' \in 0..MaxSp,
         IsUser(stack[Len(stack) - 1]) => stack[Len(stack) - 1].usp <= usp',
         UNCHANGED <<svsp, userSP, state, cnt, minLevel, history>>,
         currentPrio' \in 0..MaxLevel
  PROVE  IInv'
<1>1. Nested(stack) /\ Top = stack[Len(stack)] /\ ~IsActive(Top)
  BY TopFacts DEF IsActive
<1>2. StackInv(stack, svsp, userSP, minLevel) /\ Started(stack, initDone) /\ TypesInv
  BY DEF IInv
<1>3. StackInv(stack', svsp', userSP', minLevel')
  BY <1>1, <1>2, PopStep
<1>4. Started(stack', initDone')
  BY <1>1, <1>2, StartedPop DEF history
<1>5. Top' = stack[Len(stack) - 1]
  <2>1. Len(stack') = Len(stack) - 1 /\ stack'[Len(stack) - 1] = stack[Len(stack) - 1]
    BY <1>1, PopFrames
  <2> QED BY <2>1 DEF Top
<1>6. CpuInv'
  BY <1>5 DEF CpuInv
<1>7. TypesInv'
  BY <1>2 DEF TypesInv, history
<1> QED BY <1>3, <1>4, <1>6, <1>7 DEF IInv
(* The task that SPRG0 leads to is executing or right below the interrupt  *)
(* or system call: the stack up to its frame is again a proper one.        *)
LEMMA TaskOnTop ==
  ASSUME IInv, NEW s,
         \/ IsUser(Top) /\ s = stack
         \/ /\ Len(stack) > 1 /\ IsUser(stack[Len(stack) - 1])
            /\ Top.kind # "task" /\ ~Waits(Top) /\ s = But(stack)
  PROVE  /\ StackInv(s, svsp, userSP, minLevel) /\ Started(s, initDone) /\ Nested(s)
         /\ Len(s) = svsp /\ s[svsp] = stack[svsp] /\ IsUser(stack[svsp]) /\ svsp \in Nat \ {0}
         /\ Unwound = s /\ SubSeq(stack, 1, svsp - 1) = But(s)
<1> DEFINE n == Len(stack)
<1>1. /\ StackInv(stack, svsp, userSP, minLevel) /\ Started(stack, initDone)
      /\ Nested(stack) /\ stack \in Seq(FrameType) /\ n \in Nat \ {0} /\ Top = stack[n]
  BY TopFacts DEF IInv, Nested
<1>2. CASE IsUser(Top) /\ s = stack
  <2>1. svsp = n
    BY <1>2, TopFacts
  <2>2. SubSeq(stack, 1, n) = stack
    BY <1>1
  <2> QED BY <1>1, <1>2, <2>1, <2>2 DEF Unwound, But
<1>3. CASE /\ n > 1 /\ IsUser(stack[n - 1])
           /\ Top.kind # "task" /\ ~Waits(Top) /\ s = But(stack)
  <2>1. ~IsEntered(Top) /\ ~IsActive(Top)
    BY <1>3 DEF IsEntered, IsActive
  <2>2. svsp = n - 1
    BY <1>3, <2>1, BelowFacts
  <2>3. StackInv(s, svsp, userSP, minLevel)
    BY <1>1, <1>3, <2>1, PopStep
  <2>4. Started(s, initDone)
    BY <1>1, <1>3, StartedPop
  <2>5. /\ s \in Seq(FrameType) /\ s # <<>> /\ Len(s) = n - 1 /\ n - 1 \in Nat \ {0}
        /\ \A i \in 1..(n - 1) : s[i] = stack[i]
    BY <1>1, <1>3, PopFrames
  <2>6. Unwound = s
    BY <1>3, <2>2 DEF Unwound, But
  <2>7. SubSeq(stack, 1, svsp - 1) = But(s)
    <3>1. SubSeq(stack, 1, n - 2) = But(s)
      BY <1>1, <1>3, ButBut
    <3> HIDE DEF n
    <3>2. svsp - 1 = n - 2
      BY <1>1, <2>2
    <3> QED BY <3>1, <3>2
  <2>8. n - 1 \in 1..(n - 1) /\ Nested(s)
    BY <2>3, <2>5 DEF StackInv
  <2> QED BY <1>3, <2>2, <2>3, <2>4, <2>5, <2>6, <2>7, <2>8
<1> QED BY <1>2, <1>3

LEMMA CountedTypes ==
  ASSUME TypesInv, NEW p \in PIDs, NEW causes, Counted(p, causes)
  PROVE  cnt' \in [PIDs -> [Counters -> 0..MaxCount]] /\ aborts' \in [PIDs -> 0..MaxCount]
<1>1. /\ cnt \in [PIDs -> [Counters -> 0..MaxCount]] /\ aborts \in [PIDs -> 0..MaxCount]
      /\ MaxCount \in Nat
  BY LevelAssumption DEF TypesInv
<1>2. \A n \in 0..MaxCount : Sat(n) \in 0..MaxCount
  BY <1>1 DEF Sat
<1>3. aborts' \in [PIDs -> 0..MaxCount]
  BY <1>1 DEF Counted
<1>4. [c \in Counters |-> IF causes # {} /\ c \in causes \cup {"total"}
                          THEN Sat(cnt[p][c]) ELSE cnt[p][c]] \in [Counters -> 0..MaxCount]
  BY <1>1, <1>2
<1>5. cnt' \in [PIDs -> [Counters -> 0..MaxCount]]
  BY <1>1, <1>4 DEF Counted
<1> QED BY <1>3, <1>5

(* An executing or interrupted task is left.                               *)
LEMMA LeaveKeeps ==
  ASSUME IInv, NEW result \in {"ok", "err"}, NEW causes, LeaveTask(result, causes),
         UNCHANGED currentPrio, state' \in [PIDs -> {0, 1}],
         \/ IsUser(Top)
         \/ /\ Len(stack) > 1 /\ IsUser(stack[Len(stack) - 1])
            /\ Top.kind # "task" /\ ~Waits(Top)
  PROVE  IInv'
<1> DEFINE s == IF IsUser(Top) THEN stack ELSE But(stack)
           g == stack[svsp]
           f == [g EXCEPT !.pc = "restore", !.reg = result, !.out = result, !.late = FALSE]
<1>1. /\ StackInv(s, svsp, userSP, minLevel) /\ Started(s, initDone) /\ Nested(s)
      /\ Len(s) = svsp /\ s[svsp] = g /\ IsUser(g) /\ svsp \in Nat \ {0}
      /\ SubSeq(stack, 1, svsp - 1) = But(s)
  <2>1. \/ IsUser(Top) /\ s = stack
        \/ /\ Len(stack) > 1 /\ IsUser(stack[Len(stack) - 1])
           /\ Top.kind # "task" /\ ~Waits(Top) /\ s = But(stack)
    OBVIOUS
  <2> HIDE DEF s
  <2> QED BY <2>1, TaskOnTop
<1>2. /\ stack' = With(s, f) /\ svsp' = g.svsp /\ pid0' = 0 /\ usp' = 0
      /\ userSP' = [userSP EXCEPT ![g.pid] = g.usp] /\ minLevel' = minLevel /\ initDone' = initDone
      /\ Counted(g.pid, causes)
  BY <1>1 DEF LeaveTask, Ended, With
<1> HIDE DEF s
<1>3. /\ g \in FrameType /\ WellFormed(g) /\ g.pid \in PIDs /\ IsEntered(g) /\ IsActive(g)
      /\ g.kind = "task" /\ g.usp \in 0..MaxSp
  <2>1. g \in FrameType /\ WellFormed(g)
    BY <1>1, NestedFrames
  <2>2. g.usp \in 0..MaxSp
    BY <2>1, FrameFields
  <2> QED BY <1>1, <2>1, <2>2 DEF IsUser, IsEntered, IsActive, WellFormed
<1> HIDE DEF g
<1>4. /\ f \in FrameType /\ f.kind = "task" /\ f.pc = "restore" /\ f.pid = g.pid /\ f.usp = g.usp
  BY <1>3 DEF FrameType
<1> HIDE DEF f
<1>5. Like(f, g) /\ SameWait(f, g) /\ ~IsActive(f) /\ ~IsEntered(f) /\ ~IsUser(f)
  BY <1>3, <1>4 DEF Like, SameWait, WellFormed, Waits, IsActive, IsEntered, IsUser
<1>6. TypesInv /\ userSP \in [PIDs -> 0..MaxSp] /\ MaxSp \in Nat
  BY LevelAssumption DEF IInv, TypesInv
<1>7. StackInv(stack', svsp', userSP', minLevel')
  <2>1. StackInv(With(s, f), g.svsp, [userSP EXCEPT ![f.pid] = f.usp], minLevel)
    BY <1>1, <1>3, <1>5, <1>6, GiveBackStep
  <2> QED BY <1>2, <1>4, <2>1
<1>8. Started(stack', initDone')
  BY <1>1, <1>2, <1>5, StartedWith
<1>9. Top' = f
  <2>1. Len(stack') = Len(s) /\ stack'[Len(s)] = f
    BY <1>1, <1>2, <1>5, WithFrames DEF Like
  <2> QED BY <2>1 DEF Top
<1>10. CpuInv'
  BY <1>2, <1>5, <1>6, <1>9 DEF CpuInv
<1>11. TypesInv'
  <2>1. cnt' \in [PIDs -> [Counters -> 0..MaxCount]] /\ aborts' \in [PIDs -> 0..MaxCount]
    BY <1>2, <1>3, <1>6, CountedTypes
  <2>2. userSP' \in [PIDs -> 0..MaxSp]
    BY <1>2, <1>3, <1>6
  <2> QED BY <1>2, <1>6, <2>1, <2>2 DEF TypesInv
<1> QED BY <1>7, <1>8, <1>10, <1>11 DEF IInv

(* A system call handler goes on with the code that counts the bad argument*)
LEMMA BadArgumentKeeps ==
  ASSUME IInv, Top.kind = "sc", ~Waits(Top), BadArgument
  PROVE  IInv'
<1> DEFINE s == But(stack)
           g == stack[svsp]
           f == [g EXCEPT !.pc = "count", !.load = cnt[g.pid].badArg]
<1>1. Len(stack) > 1 /\ IsUser(stack[Len(stack) - 1])
  <2>1. Nested(stack) /\ Top = stack[Len(stack)] /\ Len(stack) \in Nat \ {0}
    BY TopFacts
  <2>2. Len(stack) > 1
    BY <2>1 DEF Nested
  <2> QED BY <2>2, BelowFacts DEF FitsOn
<1>2. /\ StackInv(s, svsp, userSP, minLevel) /\ Started(s, initDone) /\ Nested(s)
      /\ Len(s) = svsp /\ s[svsp] = g /\ IsUser(g) /\ svsp \in Nat \ {0} /\ Unwound = s
  BY <1>1, TaskOnTop
<1> HIDE DEF s
<1>3. /\ g \in FrameType /\ WellFormed(g) /\ g.pid \in PIDs /\ IsEntered(g) /\ IsActive(g)
      /\ g.kind = "task"
  <2>1. g \in FrameType /\ WellFormed(g)
    BY <1>2, NestedFrames
  <2> QED BY <1>2, <2>1 DEF IsUser, IsEntered, IsActive, WellFormed
<1> HIDE DEF g
<1>4. TypesInv /\ cnt \in [PIDs -> [Counters -> 0..MaxCount]] /\ MaxCount \in Nat
  BY LevelAssumption DEF IInv, TypesInv
<1>5. cnt[g.pid].badArg \in 0..MaxCount
  BY <1>3, <1>4 DEF Counters
<1>6. /\ f \in FrameType /\ f.kind = "task" /\ f.pc = "count" /\ f.pid = g.pid /\ f.usp = g.usp
      /\ f.svsp = g.svsp /\ f.load \in 0..MaxCount
  <2> DEFINE load == cnt[g.pid].badArg
  <2>1. load \in 0..MaxCount /\ load \in Nat
    BY <1>4, <1>5
  <2>2. f = [g EXCEPT !.pc = "count", !.load = load]
    OBVIOUS
  <2> HIDE DEF load, f
  <2>3. f \in FrameType
    BY <1>3, <2>1, <2>2 DEF FrameType
  <2>4. /\ f.kind = g.kind /\ f.pc = "count" /\ f.pid = g.pid /\ f.usp = g.usp
        /\ f.svsp = g.svsp /\ f.load = load
    BY <1>3, <2>2 DEF FrameType
  <2> QED BY <1>3, <2>1, <2>3, <2>4
<1>7. stack' = With(s, f)
  <2>1. stack' = [s EXCEPT ![svsp].pc = "count", ![svsp].load = cnt[s[svsp].pid].badArg]
    BY <1>2 DEF BadArgument
  <2>2. s \in Seq(FrameType) /\ s # <<>>
    BY <1>2 DEF Nested
  <2>3. stack' = [s EXCEPT ![svsp] = f]
    BY <1>2, <1>3, <2>1, <2>2 DEF FrameType
  <2> HIDE DEF f
  <2>4. stack' \in Seq(FrameType) /\ Len(stack') = Len(s)
        /\ \A i \in 1..Len(s) : stack'[i] = IF i = svsp THEN f ELSE s[i]
    BY <1>2, <1>6, <2>2, <2>3
  <2>5. WellFormed(f)
    BY <1>3, <1>6 DEF WellFormed, Waits
  <2>6. /\ With(s, f) \in Seq(FrameType) /\ Len(With(s, f)) = Len(s) /\ With(s, f)[Len(s)] = f
        /\ \A i \in 1..Len(s) : i # Len(s) => With(s, f)[i] = s[i]
    BY <1>2, <2>5, WithFrames
  <2>7. \A i \in 1..Len(s) : stack'[i] = With(s, f)[i]
    BY <1>2, <2>4, <2>6
  <2> QED BY <2>4, <2>6, <2>7, SameSeq
<1> HIDE DEF f
<1>8. Like(f, g) /\ SameWait(f, g) /\ IsActive(f) /\ IsEntered(f) /\ ~IsUser(f)
  BY <1>3, <1>6 DEF Like, SameWait, WellFormed, Waits, IsActive, IsEntered, IsUser
<1>9. UNCHANGED <<cpu, userSP, state, cnt, currentPrio, minLevel, history>>
  BY DEF BadArgument
<1>10. StackInv(stack', svsp', userSP', minLevel')
  <2>1. StackInv(With(s, f), svsp, userSP, minLevel)
    BY <1>2, <1>3, <1>8, ReplaceStep
  <2> QED BY <1>7, <1>9, <2>1 DEF cpu
<1>11. Started(stack', initDone')
  BY <1>2, <1>7, <1>8, <1>9, StartedWith DEF history
<1>12. Top' = f
  <2>1. Len(stack') = Len(s) /\ stack'[Len(s)] = f
    BY <1>2, <1>7, <1>8, WithFrames DEF Like
  <2> QED BY <2>1 DEF Top
<1>13. CpuInv'
  <2>1. pid0 = 0 /\ usp \in 0..MaxSp
    BY TopFacts DEF IsUser, IInv, CpuInv
  <2> QED BY <1>8, <1>9, <1>12, <2>1 DEF CpuInv, cpu
<1>14. TypesInv'
  BY <1>4, <1>9 DEF TypesInv, history
<1> QED BY <1>10, <1>11, <1>13, <1>14 DEF IInv
-----------------------------------------------------------------------------
(* Each action keeps the invariant *)

LEMMA RunTaskKeeps ==
  ASSUME IInv, NEW p \in PIDs, RunTask(p)
  PROVE  IInv'
<1> DEFINE f == TaskFrame(p)
<1>1. Top.kind \in {"os", "isr"} /\ Top.pc = "run" /\ ~IsUser(Top)
  BY DEF RunTask, At, IsUser
<1>2. TypesInv /\ usp \in 0..MaxSp /\ currentPrio \in 0..MaxLevel /\ pid0 = 0
  BY <1>1, TopFacts DEF IInv, CpuInv, TypesInv
<1>3. f \in FrameType /\ f.kind = "task" /\ f.pc = "enter" /\ f.pid = p
  BY <1>2, TaskFrameType DEF TaskFrame, Frame
<1> HIDE DEF f
<1>4. WellFormed(f) /\ ~IsActive(f) /\ ~Waits(f)
  BY <1>3 DEF WellFormed, IsActive, Waits
<1>5. FitsOn(f, Top)
  BY <1>1, <1>3 DEF FitsOn
<1>6. /\ stack' = Append(stack, f)
      /\ UNCHANGED <<svsp, pid0, usp, userSP, state, cnt, currentPrio, minLevel, aborts, initDone>>
  BY DEF RunTask, f, cpu, history
<1> QED BY <1>1, <1>2, <1>4, <1>5, <1>6, PushKeeps

LEMMA EnterTaskKeeps ==
  ASSUME IInv, EnterTask
  PROVE  IInv'
<1> DEFINE f == [Top EXCEPT !.pc = "user", !.usp = userSP[Top.pid], !.svsp = svsp]
<1>1. /\ Nested(stack) /\ Top = stack[Len(stack)] /\ Top \in FrameType /\ WellFormed(Top)
      /\ Top.kind = "task" /\ Top.pc = "enter" /\ Top.pid \in PIDs /\ Below = But(stack)
      /\ Len(stack) \in Nat \ {0}
  BY TopFacts DEF EnterTask, At, WellFormed
<1>2. /\ StackInv(stack, svsp, userSP, minLevel) /\ Started(stack, initDone) /\ TypesInv
      /\ userSP \in [PIDs -> 0..MaxSp] /\ MaxSp \in Nat
  BY LevelAssumption DEF IInv, TypesInv
<1>3. svsp \in Nat
  BY <1>1, <1>2 DEF StackInv, Chained, IsInner
<1>4. stack' = With(stack, f) /\ svsp' = Len(stack) /\ pid0' = Top.pid /\ usp' = userSP[Top.pid]
  BY <1>1 DEF EnterTask, WithTop, With
<1>5. userSP[Top.pid] \in 0..MaxSp
  BY <1>1, <1>2
<1>6. f \in FrameType /\ f.kind = "task" /\ f.pc = "user" /\ f.pid = Top.pid /\ f.svsp = svsp
      /\ f.usp = userSP[Top.pid]
  BY <1>1, <1>3, <1>5 DEF FrameType
<1> HIDE DEF f
<1>7. WellFormed(f) /\ IsUser(f)
  BY <1>1, <1>6 DEF WellFormed, IsUser, Waits
<1>8. UNCHANGED <<userSP, state, cnt, currentPrio, minLevel, aborts, initDone>>
  BY DEF EnterTask, history
<1>9. StackInv(stack', svsp', userSP', minLevel')
  <2>1. StackInv(With(stack, f), Len(stack), userSP, minLevel)
    BY <1>1, <1>2, <1>6, <1>7, EnterStep
  <2> QED BY <1>4, <1>8, <2>1
<1>10. /\ Len(stack') = Len(stack) /\ stack'[Len(stack)] = f
       /\ \A i \in 1..Len(stack) : i # Len(stack) => stack'[i] = stack[i]
  BY <1>1, <1>4, <1>7, WithFrames
<1>11. Started(stack', initDone')
  <2>1. Len(stack) > 1
    BY <1>1 DEF Nested
  <2>2. stack'[1] = stack[1] /\ stack'[2].kind = stack[2].kind
    BY <1>1, <1>6, <1>10, <2>1
  <2> QED BY <1>2, <1>8, <1>10, <2>2 DEF Started
<1>12. Top' = f
  BY <1>10 DEF Top
<1>13. CpuInv'
  BY <1>2, <1>4, <1>5, <1>6, <1>7, <1>12 DEF CpuInv
<1>14. TypesInv'
  BY <1>2, <1>8 DEF TypesInv
<1> QED BY <1>9, <1>11, <1>13, <1>14 DEF IInv

LEMMA UseStackKeeps ==
  ASSUME IInv, UseStack
  PROVE  IInv'
<1>1. /\ UNCHANGED <<stack, svsp, pid0, userSP, state, cnt, currentPrio, minLevel>>
      /\ UNCHANGED <<aborts, initDone>>
      /\ usp' \in Top.usp..MaxSp
  BY DEF UseStack, history
<1>2. Top.usp \in 0..MaxSp /\ MaxSp \in Nat
  BY TopFacts, FrameFields, LevelAssumption
<1>3. CpuInv'
  BY <1>1, <1>2 DEF IInv, CpuInv, Top
<1> QED BY <1>1, <1>3 DEF IInv, TypesInv

(* What changes none but what the types are of.                            *)
LEMMA RegistersKept ==
  ASSUME IInv, UNCHANGED <<stack, svsp, pid0, usp, userSP, minLevel, initDone>>, TypesInv'
  PROVE  IInv'
<1>1. CpuInv'
  BY DEF IInv, CpuInv, Top
<1> QED BY <1>1 DEF IInv

LEMMA RestorePriorityKeeps ==
  ASSUME IInv, RestorePriority
  PROVE  IInv'
<1> DEFINE f == IF Top.cpr < currentPrio THEN [Top EXCEPT !.pc = "sched"]
                                        ELSE [Top EXCEPT !.pc = "return"]
<1>1. /\ Top \in FrameType /\ WellFormed(Top) /\ Top.kind = "task" /\ Top.pc = "restore"
      /\ Top.pid \in PIDs /\ Below = But(stack) /\ TypesInv
  BY TopFacts DEF RestorePriority, At, WellFormed, IInv
<1>2. /\ f \in FrameType /\ f.kind = "task" /\ f.pc \in {"sched", "return"} /\ f.pid = Top.pid
      /\ f.usp = Top.usp
  BY <1>1 DEF FrameType
<1>3. stack' = With(stack, f)
  BY <1>1 DEF RestorePriority, WithTop, With
<1> HIDE DEF f
<1>4. Like(f, Top) /\ SameWait(f, Top) /\ ~IsActive(f) /\ ~IsUser(f) /\ ~IsEntered(f)
      /\ ~IsActive(Top) /\ ~IsUser(Top) /\ ~IsEntered(Top)
  BY <1>1, <1>2 DEF Like, SameWait, WellFormed, Waits, IsActive, IsEntered, IsUser
<1>5. UNCHANGED <<svsp, pid0, usp, userSP, state, cnt, minLevel, aborts, initDone>>
  BY DEF RestorePriority, cpu, history
<1>6. TypesInv'
  <2>1. currentPrio' \in 0..MaxLevel
    BY <1>1, FrameFields DEF RestorePriority, TypesInv
  <2> QED BY <1>1, <1>5, <2>1 DEF TypesInv
<1> QED BY <1>3, <1>4, <1>5, <1>6, ReplaceKeeps

LEMMA ScheduleAtEndKeeps ==
  ASSUME IInv, NEW level \in 0..MaxLevel, NEW value \in {"ok", "err"}, ScheduleAtEnd(level, value)
  PROVE  IInv'
<1> DEFINE f == [Top EXCEPT !.pc = "return", !.reg = value]
<1>1. /\ Top \in FrameType /\ WellFormed(Top) /\ Top.kind = "task" /\ Top.pc = "sched"
      /\ Top.pid \in PIDs /\ Below = But(stack) /\ TypesInv
  BY TopFacts DEF ScheduleAtEnd, At, WellFormed, IInv
<1>2. /\ f \in FrameType /\ f.kind = "task" /\ f.pc = "return" /\ f.pid = Top.pid
      /\ f.usp = Top.usp
  BY <1>1 DEF FrameType
<1>3. /\ WithTop(f) = With(stack, f)
      /\ UNCHANGED <<cpu, userSP, state, cnt, minLevel, history>>
      /\ level = 0 => stack' = With(stack, f) /\ currentPrio' = currentPrio
      /\ level # 0 => stack' = Append(With(stack, f), OsFrame(level)) /\ currentPrio' = level
  BY <1>1 DEF ScheduleAtEnd, WithTop, With
<1> HIDE DEF f
<1>4. Like(f, Top) /\ SameWait(f, Top) /\ ~IsActive(f) /\ ~IsUser(f) /\ ~IsEntered(f)
      /\ ~IsActive(Top) /\ ~IsUser(Top) /\ ~IsEntered(Top)
  BY <1>1, <1>2 DEF Like, SameWait, WellFormed, Waits, IsActive, IsEntered, IsUser
<1>5. CASE level = 0
  <2>1. UNCHANGED <<svsp, pid0, usp, userSP, minLevel, initDone>>
    BY <1>3 DEF cpu, history
  <2>2. TypesInv'
    BY <1>1, <1>3, <1>5 DEF TypesInv, history
  <2> QED BY <1>3, <1>4, <1>5, <2>1, <2>2, ReplaceKeeps
<1>6. CASE level # 0
  BY <1>3, <1>4, <1>6, ScheduleKeeps
<1> QED BY <1>5, <1>6

LEMMA UserEndKeeps ==
  ASSUME IInv, NEW result \in {"ok", "err"}, UserEnd(result)
  PROVE  IInv'
<1>1. IsUser(Top) /\ state' \in [PIDs -> {0, 1}] /\ currentPrio' = currentPrio
  BY TopFacts DEF UserEnd, IInv, TypesInv
<1>2. LeaveTask(result, IF result = "err" THEN {"other"} ELSE {})
  BY DEF UserEnd
<1> QED BY <1>1, <1>2, LeaveKeeps

LEMMA ExceptionKeeps ==
  ASSUME IInv, Exception
  PROVE  IInv'
<1>1. IsUser(Top) /\ state' \in [PIDs -> {0, 1}] /\ currentPrio' = currentPrio
  BY TopFacts DEF Exception, IInv, TypesInv
<1>2. LeaveTask("err", {"other"})
  BY DEF Exception
<1> QED BY <1>1, <1>2, LeaveKeeps

LEMMA UserSuspendKeeps ==
  ASSUME IInv, NEW p \in PIDs, UserSuspend(p)
  PROVE  IInv'
<1>1. IsUser(Top) /\ currentPrio' = currentPrio /\ TypesInv /\ state \in [PIDs -> {0, 1}]
  BY TopFacts DEF UserSuspend, IInv, TypesInv
<1>2. CASE <<Top.pid, p>> \in SuspendPermissions
  <2>1. /\ UNCHANGED <<stack, svsp, pid0, usp, userSP, cnt, minLevel, aborts, initDone>>
        /\ state' = [state EXCEPT ![p] = 0]
    BY <1>2 DEF UserSuspend, Stop, cpu
  <2>2. TypesInv'
    BY <1>1, <2>1 DEF TypesInv
  <2> QED BY <2>1, <2>2, RegistersKept
<1>3. CASE <<Top.pid, p>> \notin SuspendPermissions
  <2>1. LeaveTask("err", {"badArg"}) /\ state' \in [PIDs -> {0, 1}]
    BY <1>1, <1>3 DEF UserSuspend
  <2> QED BY <1>1, <2>1, LeaveKeeps
<1> QED BY <1>2, <1>3

LEMMA OsSuspendKeeps ==
  ASSUME IInv, NEW p \in PIDs, OsSuspend(p)
  PROVE  IInv'
<1>1. /\ UNCHANGED <<stack, svsp, pid0, usp, userSP, cnt, currentPrio, minLevel, aborts, initDone>>
      /\ state' = [state EXCEPT ![p] = 0] /\ TypesInv /\ state \in [PIDs -> {0, 1}]
  BY DEF OsSuspend, Stop, cpu, IInv, TypesInv
<1>2. TypesInv'
  BY <1>1 DEF TypesInv
<1> QED BY <1>1, <1>2, RegistersKept
LEMMA ReturnToCallerKeeps ==
  ASSUME IInv, ReturnToCaller
  PROVE  IInv'
<1> DEFINE n == Len(stack)
           s == But(stack)
           g == stack[n - 1]
           f == CASE g.kind = "sc"   -> [g EXCEPT !.pc = "ungate"]
                  [] g.pc = "init" /\ Top.reg = "err" -> [g EXCEPT !.reg = "err"]
                  [] OTHER           -> g
<1>1. /\ Nested(stack) /\ n \in Nat \ {0} /\ Top = stack[n] /\ WellFormed(Top) /\ Top \in FrameType
      /\ Top.kind = "task" /\ Top.pc = "return" /\ Top.pid \in PIDs /\ pid0 = 0
      /\ ~IsActive(Top) /\ ~Waits(Top) /\ ~IsUser(Top)
  <2>1. Top.kind = "task" /\ Top.pc = "return"
    BY DEF ReturnToCaller, At
  <2>2. ~IsActive(Top) /\ ~Waits(Top) /\ ~IsUser(Top)
    BY <2>1 DEF IsActive, Waits, IsUser
  <2> QED BY <2>1, <2>2, TopFacts DEF WellFormed
<1>2. n > 1
  BY <1>1 DEF Nested
<1>3. FitsOn(Top, g) /\ WellFormed(g) /\ g \in FrameType /\ n - 1 \in 1..n
  BY <1>1, <1>2, BelowFacts
<1>4. /\ g.kind \in {"os", "isr"} \/ Waits(g)
      /\ g.pc = "init" => Top.pid = g.pid
      /\ g.kind = "sc" => Waits(g)
      /\ ~IsActive(g) /\ ~IsUser(g) /\ ~IsEntered(g)
  <2>1. /\ g.kind \in {"os", "isr"} \/ Waits(g)
        /\ g.pc = "init" => Top.pid = g.pid
    BY <1>1, <1>3 DEF FitsOn
  <2> HIDE DEF g
  <2> QED BY <2>1 DEF Waits, IsActive, IsUser, IsEntered
<1>5. /\ StackInv(stack, svsp, userSP, minLevel) /\ Started(stack, initDone)
      /\ usp \in 0..MaxSp /\ TypesInv
  BY DEF IInv, CpuInv
<1>6. /\ stack' = With(s, f)
      /\ initDone' = IF g.pc = "init" THEN initDone \cup {Top.pid} ELSE initDone
      /\ UNCHANGED <<svsp, pid0, usp, userSP, state, cnt, currentPrio, minLevel, aborts>>
  <2>1. SubSeq(stack, 1, n - 2) = But(s)
    <3>1. stack \in Seq(FrameType)
      BY <1>1 DEF Nested
    <3> QED BY <1>2, <3>1, ButBut
  <2> QED BY <2>1 DEF ReturnToCaller, With, cpu
<1>7. /\ f \in FrameType /\ f.kind = g.kind /\ f.pid = g.pid /\ f.usp = g.usp /\ f.level = g.level
      /\ f.load = g.load /\ f.svsp = g.svsp
      /\ f.pc = IF g.kind = "sc" THEN "ungate" ELSE g.pc
  <2>1. g \in FrameType /\ (g.kind = "sc" => g.pc # "init")
    <3> HIDE DEF g, n
    <3> QED BY <1>3, <1>4 DEF Waits
  <2> HIDE DEF g, n
  <2>2. CASE g.kind = "sc"
    <3>1. f = [g EXCEPT !.pc = "ungate"]
      BY <2>1, <2>2
    <3> HIDE DEF f
    <3> QED BY <2>1, <2>2, <3>1 DEF FrameType
  <2>3. CASE g.kind # "sc" /\ g.pc = "init" /\ Top.reg = "err"
    <3>1. f = [g EXCEPT !.reg = "err"]
      BY <2>3
    <3> HIDE DEF f
    <3> QED BY <2>1, <2>3, <3>1 DEF FrameType
  <2>4. CASE g.kind # "sc" /\ ~(g.pc = "init" /\ Top.reg = "err")
    <3>1. f = g
      BY <2>4
    <3> QED BY <2>1, <2>4, <3>1
  <2> QED BY <2>2, <2>3, <2>4
<1> HIDE DEF f
<1>8. /\ StackInv(s, svsp, userSP, minLevel) /\ Nested(s) /\ Len(s) = n - 1 /\ s[n - 1] = g
      /\ \A i \in 1..(n - 1) : s[i] = stack[i]
  <2>1. StackInv(s, svsp, userSP, minLevel)
    BY <1>1, <1>2, <1>5, PopStep
  <2>2. Len(s) = n - 1 /\ n - 1 \in 1..(n - 1) /\ \A i \in 1..(n - 1) : s[i] = stack[i]
    BY <1>1, <1>2, PopFrames
  <2> QED BY <2>1, <2>2 DEF StackInv
<1> HIDE DEF s, g
<1>9. WellFormed(f) /\ ~IsActive(f) /\ ~IsUser(f) /\ ~IsEntered(f) /\ SameWait(f, g)
  <2>1. CASE g.kind = "sc"
    BY <1>3, <1>4, <1>7, <2>1 DEF WellFormed, Waits, SameWait, IsActive, IsUser, IsEntered
  <2>2. CASE g.kind # "sc"
    BY <1>3, <1>4, <1>7, <2>2 DEF WellFormed, Waits, SameWait, IsActive, IsUser, IsEntered
  <2> QED BY <2>1, <2>2
<1>10. Like(f, g)
  BY <1>4, <1>7, <1>9 DEF Like
<1>11. StackInv(stack', svsp', userSP', minLevel')
  <2>1. StackInv(With(s, f), svsp, userSP, minLevel)
    BY <1>4, <1>8, <1>9, <1>10, ReplaceStep
  <2> QED BY <1>6, <2>1
<1>12. /\ Len(stack') = n - 1 /\ stack'[n - 1] = f
       /\ \A i \in 1..(n - 1) : i # n - 1 => stack'[i] = stack[i]
  <2>1. /\ Len(stack') = Len(s) /\ stack'[Len(s)] = f
        /\ \A i \in 1..Len(s) : i # Len(s) => stack'[i] = s[i]
    BY <1>6, <1>8, <1>9, WithFrames
  <2> QED BY <1>8, <2>1
<1>13. Started(stack', initDone')
  <2>1. g = stack[n - 1]
    BY DEF g
  <2>2. stack[1].kind = "os"
    BY <1>1 DEF Nested
  <2>3. stack'[1].pc = stack[1].pc /\ stack'[1].pid = stack[1].pid
    <3>1. CASE n = 2
      BY <1>7, <1>12, <2>1, <2>2, <3>1
    <3>2. CASE n # 2
      BY <1>1, <1>2, <1>12, <3>2
    <3> QED BY <3>1, <3>2
  <2>4. g.pc = "init" <=> n = 2 /\ stack[1].pc = "init"
    <3>1. g.pc = "init" => g.kind = "os"
      BY <1>3 DEF WellFormed, FrameType
    <3>2. g.pc = "init" => n - 1 = 1
      BY <1>1, <1>3, <2>1, <3>1, StartupIsFirst
    <3> QED BY <1>1, <2>1, <3>2
  <2>5. CASE g.pc = "init"
    <3>1. /\ n = 2 /\ stack[1].pc = "init" /\ Top.pid = stack[1].pid
          /\ initDone' = initDone \cup {stack[1].pid} /\ stack[1].pid \in PIDs
      <4>1. n = 2 /\ stack[1].pc = "init"
        BY <2>4, <2>5
      <4>2. g = stack[1]
        BY <2>1, <4>1
      <4>3. Top.pid = stack[1].pid /\ initDone' = initDone \cup {Top.pid}
        BY <1>4, <1>6, <2>5, <4>2
      <4> QED BY <1>1, <4>1, <4>3
    <3>2. /\ initDone \subseteq 1..stack[1].pid
          /\ \A p \in InitTasks \ {0} : p < stack[1].pid => p \in initDone
      BY <1>5, <3>1 DEF Started
    <3>3. stack[1].pid \in 1..stack[1].pid
      BY <3>1 DEF PIDs
    <3> QED BY <2>3, <3>1, <3>2, <3>3 DEF Started
  <2>6. CASE g.pc # "init"
    <3>1. initDone' = initDone
      BY <1>6, <2>6
    <3>2. CASE stack[1].pc = "init"
      <4>1. n > 2
        <5>1. n # 2
          BY <2>4, <2>6, <3>2
        <5>2. n \in Nat /\ n > 1
          BY <1>1, <1>2
        <5> HIDE DEF n
        <5> QED BY <5>1, <5>2
      <4>2. Len(stack') >= 2 /\ stack'[2].kind = stack[2].kind
        <5>1. CASE n = 3
          BY <1>7, <1>12, <2>1, <5>1
        <5>2. CASE n # 3
          BY <1>1, <1>12, <4>1, <5>2
        <5> QED BY <5>1, <5>2
      <4> QED BY <1>5, <2>3, <3>1, <3>2, <4>1, <4>2 DEF Started
    <3>3. CASE stack[1].pc # "init"
      BY <1>5, <2>3, <3>1, <3>3 DEF Started
    <3> QED BY <3>2, <3>3
  <2> QED BY <2>5, <2>6
<1>14. Top' = f
  BY <1>12 DEF Top
<1>15. CpuInv'
  BY <1>1, <1>5, <1>6, <1>9, <1>14 DEF CpuInv
<1>16. TypesInv'
  <2>1. initDone' \subseteq 0..NoProcesses
    <3>1. Top.pid \in 0..NoProcesses
      BY <1>1 DEF PIDs
    <3> QED BY <1>5, <1>6, <3>1 DEF TypesInv
  <2> QED BY <1>5, <1>6, <2>1 DEF TypesInv
<1> QED BY <1>11, <1>13, <1>15, <1>16 DEF IInv

LEMMA IrqEnterKeeps ==
  ASSUME IInv, NEW i \in Irqs, IrqEnter(i)
  PROVE  IInv'
<1> DEFINE f == IsrFrame(i)
<1>1. /\ usp \in 0..MaxSp /\ currentPrio \in 0..MaxLevel /\ i \in Nat
      /\ pid0 = IF IsUser(Top) THEN Top.pid ELSE 0
      /\ IsUser(Top) => Top.usp <= usp
      /\ pid0 \in 0..NoProcesses
  <2>1. Top.pid \in 0..NoProcesses /\ 0 \in 0..NoProcesses
    BY TopFacts, FrameFields, ProcessAssumption
  <2> QED BY <2>1, LevelAssumption DEF IInv, CpuInv, TypesInv
<1>2. f \in FrameType /\ f.kind = "isr" /\ f.pc = "run" /\ f.pid = pid0 /\ f.usp = usp
  BY <1>1, IsrFrameType DEF IsrFrame, Frame
<1> HIDE DEF f
<1>3. WellFormed(f) /\ ~IsActive(f) /\ ~Waits(f)
  BY <1>2 DEF WellFormed, IsActive, Waits
<1>4. FitsOn(f, Top)
  BY <1>1, <1>2 DEF FitsOn
<1>5. stack' = Append(stack, f) /\ pid0' = 0 /\ usp' = 0
      /\ UNCHANGED <<svsp, minLevel, initDone>> /\ UNCHANGED <<state, cnt, aborts>>
      /\ currentPrio' = currentPrio
  BY DEF IrqEnter, f, history
<1>6. userSP' = IF IsUser(Top) THEN [userSP EXCEPT ![Top.pid] = f.usp] ELSE userSP
  <2>1. /\ pid0 # 0 <=> IsUser(Top)
        /\ IsUser(Top) => stack[svsp] = Top
    BY TopFacts
  <2> QED BY <1>2, <2>1 DEF IrqEnter
<1>7. 0 \in 0..MaxSp
  BY LevelAssumption
<1> QED BY <1>1, <1>3, <1>4, <1>5, <1>6, <1>7, PushKeeps

LEMMA IrqSchedulesKeeps ==
  ASSUME IInv, NEW level \in 1..MaxLevel, IrqSchedules(level)
  PROVE  IInv'
<1> DEFINE g == [Top EXCEPT !.pc = "exit"]
<1>1. /\ Top \in FrameType /\ WellFormed(Top) /\ Top.kind = "isr" /\ Top.pc = "run"
      /\ Below = But(stack)
  BY TopFacts DEF IrqSchedules, At
<1>2. g \in FrameType /\ g.kind = "isr" /\ g.pc = "exit" /\ g.pid = Top.pid /\ g.usp = Top.usp
  BY <1>1 DEF FrameType
<1>3. /\ stack' = Append(With(stack, g), OsFrame(level)) /\ currentPrio' = level
      /\ UNCHANGED <<cpu, userSP, state, cnt, minLevel, history>>
  BY <1>1 DEF IrqSchedules, WithTop, With
<1> HIDE DEF g
<1>4. Like(g, Top) /\ SameWait(g, Top) /\ ~IsActive(g) /\ ~IsActive(Top)
  BY <1>1, <1>2 DEF Like, SameWait, WellFormed, Waits, IsActive, IsEntered
<1>5. level \in 0..MaxLevel
  BY LevelAssumption
<1> QED BY <1>3, <1>4, <1>5, ScheduleKeeps

LEMMA IrqReturnKeeps ==
  ASSUME IInv, IrqReturn
  PROVE  IInv'
<1> DEFINE n == Len(stack)
<1>1. /\ Nested(stack) /\ n \in Nat \ {0} /\ Top = stack[n] /\ Top \in FrameType
      /\ Top.kind = "isr" /\ Below = But(stack) /\ ~Waits(Top)
  BY TopFacts DEF IrqReturn, Waits
<1>2. n > 1
  BY <1>1 DEF Nested
<1>3. /\ FitsOn(Top, stack[n - 1])
      /\ IsUser(stack[n - 1]) => stack[n - 1].pid \in PIDs
  BY <1>2, BelowFacts
<1>4. /\ Top.pid = IF IsUser(stack[n - 1]) THEN stack[n - 1].pid ELSE 0
      /\ IsUser(stack[n - 1]) => stack[n - 1].usp <= Top.usp
      /\ Top.usp \in 0..MaxSp
  BY <1>1, <1>3, FrameFields DEF FitsOn
<1>5. TypesInv /\ state' = state /\ currentPrio' = currentPrio
  BY DEF IrqReturn, IInv
<1>6. CASE Top.pid # 0 /\ AbortCondition(stack[n - 1])
  <2>1. LeaveTask("err", {"other"}) /\ state' \in [PIDs -> {0, 1}]
    BY <1>5, <1>6 DEF IrqReturn, TypesInv
  <2>2. IsUser(stack[n - 1])
    BY <1>4, <1>6
  <2> QED BY <1>1, <1>2, <1>5, <2>1, <2>2, LeaveKeeps
<1>7. CASE ~(Top.pid # 0 /\ AbortCondition(stack[n - 1]))
  <2>1. /\ stack' = But(stack) /\ pid0' = Top.pid /\ usp' = Top.usp
        /\ UNCHANGED <<svsp, userSP, state, cnt, minLevel, history>>
    BY <1>1, <1>5, <1>7 DEF IrqReturn
  <2>2. currentPrio' \in 0..MaxLevel
    BY <1>5 DEF TypesInv
  <2> QED BY <1>1, <1>2, <1>4, <2>1, <2>2, PopKeeps
<1> QED BY <1>6, <1>7

LEMMA ExpireKeeps ==
  ASSUME IInv, NEW d \in 1..Len(stack), Expire(d)
  PROVE  IInv'
<1> DEFINE n == Len(stack)
<1>1. /\ Nested(stack) /\ n \in Nat \ {0} /\ Top = stack[n]
      /\ stack \in Seq(FrameType) /\ \A i \in 1..n : stack[i] \in FrameType
  BY TopFacts, NestedFrames
<1>2. /\ stack' = [stack EXCEPT ![d] = [stack[d] EXCEPT !.late = TRUE]]
      /\ UNCHANGED <<svsp, pid0, usp, userSP, state, cnt, currentPrio, minLevel, aborts, initDone>>
  BY DEF Expire, cpu, history
<1> DEFINE f == [stack[d] EXCEPT !.late = TRUE]
<1>3. /\ f \in FrameType
      /\ f.kind = stack[d].kind /\ f.pc = stack[d].pc /\ f.pid = stack[d].pid
      /\ f.level = stack[d].level /\ f.usp = stack[d].usp /\ f.svsp = stack[d].svsp
      /\ f.load = stack[d].load
  BY <1>1 DEF FrameType
<1>4. /\ stack' \in Seq(FrameType) /\ Len(stack') = n
      /\ \A i \in 1..n : stack'[i] = IF i = d THEN f ELSE stack[i]
  <2>1. stack' = [stack EXCEPT ![d] = f]
    BY <1>2
  <2> HIDE DEF f
  <2> QED BY <1>1, <1>3, <2>1
<1> HIDE DEF f
<1>5. Alike(stack, stack')
  BY <1>1, <1>3, <1>4 DEF Alike
<1>6. StackInv(stack', svsp', userSP', minLevel')
  BY <1>2, <1>5, AlikeStep DEF IInv
<1>7. Started(stack', initDone')
  <2>1. /\ stack'[1].pc = stack[1].pc /\ stack'[1].pid = stack[1].pid
        /\ n >= 2 => stack'[2].kind = stack[2].kind
    BY <1>1, <1>3, <1>4
  <2> QED BY <1>2, <1>4, <2>1 DEF IInv, Started
<1>8. Top'.kind = Top.kind /\ Top'.pc = Top.pc /\ Top'.pid = Top.pid /\ Top'.usp = Top.usp
  BY <1>1, <1>3, <1>4 DEF Top
<1>9. CpuInv'
  BY <1>2, <1>8 DEF IInv, CpuInv, IsUser
<1>10. TypesInv'
  BY <1>2 DEF IInv, TypesInv
<1> QED BY <1>6, <1>7, <1>9, <1>10 DEF IInv
LEMMA SwitchToFullKeeps ==
  ASSUME IInv, IsUser(Top), NEW pc \in {"gate", "trigger", "done"}, SwitchToFull(pc),
         UNCHANGED <<svsp, minLevel, initDone>>, UNCHANGED <<state, cnt, aborts>>,
         currentPrio' \in 0..MaxLevel
  PROVE  IInv'
<1> DEFINE f == CallFrame(pc)
<1>1. /\ usp \in 0..MaxSp /\ pid0 = Top.pid /\ Top.usp <= usp /\ pid0 \in 0..NoProcesses
      /\ stack[svsp] = Top
  <2>1. Top.pid \in 0..NoProcesses /\ stack[svsp] = Top
    BY TopFacts, FrameFields
  <2> QED BY <2>1 DEF IInv, CpuInv
<1>2. f \in FrameType /\ f.kind = "sc" /\ f.pc = pc /\ f.pid = pid0 /\ f.usp = usp
  BY <1>1, CallFrameType DEF CallFrame, Frame
<1>3. /\ stack' = Append(stack, f) /\ pid0' = 0 /\ usp' = 0
      /\ userSP' = [userSP EXCEPT ![Top.pid] = f.usp]
  BY <1>1, <1>2 DEF SwitchToFull
<1> HIDE DEF f
<1>4. WellFormed(f) /\ ~IsActive(f) /\ ~Waits(f)
  BY <1>2 DEF WellFormed, IsActive, Waits
<1>5. FitsOn(f, Top)
  BY <1>1, <1>2 DEF FitsOn
<1>6. 0 \in 0..MaxSp
  BY LevelAssumption
<1> QED BY <1>3, <1>4, <1>5, <1>6, PushKeeps

LEMMA FullCallKeeps ==
  ASSUME IInv, NEW service \in Services, FullCall(service)
  PROVE  IInv'
<1> DEFINE pc == IF service = "run" THEN "gate" ELSE "trigger"
<1>1. IsUser(Top) /\ currentPrio' = currentPrio /\ currentPrio \in 0..MaxLevel
  BY TopFacts DEF FullCall, IInv, TypesInv
<1>2. SwitchToFull(pc) /\ UNCHANGED <<svsp, minLevel, initDone>> /\ UNCHANGED <<state, cnt, aborts>>
  BY DEF FullCall, history
<1>3. pc \in {"gate", "trigger", "done"}
  OBVIOUS
<1> HIDE DEF pc
<1> QED BY <1>1, <1>2, <1>3, SwitchToFullKeeps

LEMMA CallReturnKeeps ==
  ASSUME IInv, CallReturn
  PROVE  IInv'
<1> DEFINE n == Len(stack)
<1>1. /\ Nested(stack) /\ n \in Nat \ {0} /\ Top = stack[n] /\ Top \in FrameType
      /\ Top.kind = "sc" /\ Below = But(stack) /\ ~Waits(Top)
  BY TopFacts DEF CallReturn, Waits
<1>2. n > 1
  BY <1>1 DEF Nested
<1>3. FitsOn(Top, stack[n - 1])
  BY <1>2, BelowFacts
<1>4. /\ IsUser(stack[n - 1]) /\ Top.pid = stack[n - 1].pid
      /\ stack[n - 1].usp <= Top.usp /\ Top.usp \in 0..MaxSp
  BY <1>1, <1>3, FrameFields DEF FitsOn
<1>5. /\ stack' = But(stack) /\ pid0' = Top.pid /\ usp' = Top.usp
      /\ UNCHANGED <<svsp, userSP, state, cnt, minLevel, history>> /\ currentPrio' = currentPrio
  BY <1>1 DEF CallReturn
<1>6. currentPrio' \in 0..MaxLevel
  BY <1>5 DEF IInv, TypesInv
<1> QED BY <1>1, <1>2, <1>4, <1>5, <1>6, PopKeeps

LEMMA SchedulesKeeps ==
  ASSUME IInv, NEW level \in 1..MaxLevel, Schedule(level)
  PROVE  IInv'
<1> DEFINE g == [Top EXCEPT !.pc = IF Top.kind = "sc" THEN "done" ELSE @]
<1>1. /\ Top \in FrameType /\ WellFormed(Top) /\ Below = But(stack)
      /\ \/ Top.kind = "os" /\ Top.pc = "run"
         \/ Top.kind = "sc" /\ Top.pc \in {"trigger", "done"}
  BY TopFacts DEF Schedule, At
<1>2. /\ g \in FrameType /\ g.kind = Top.kind /\ g.pid = Top.pid /\ g.usp = Top.usp
      /\ g.level = Top.level /\ g.pc = IF Top.kind = "sc" THEN "done" ELSE Top.pc
  BY <1>1 DEF FrameType
<1>3. /\ stack' = Append(With(stack, g), OsFrame(level)) /\ currentPrio' = level
      /\ UNCHANGED <<cpu, userSP, state, cnt, minLevel, history>>
  BY <1>1 DEF Schedule, WithTop, With
<1> HIDE DEF g
<1>4. Like(g, Top) /\ SameWait(g, Top) /\ ~IsActive(g) /\ ~IsActive(Top)
  BY <1>1, <1>2 DEF Like, SameWait, WellFormed, Waits, IsActive, IsEntered
<1>5. level \in 0..MaxLevel
  BY LevelAssumption
<1> QED BY <1>3, <1>4, <1>5, ScheduleKeeps

LEMMA ScheduleReturnKeeps ==
  ASSUME IInv, ScheduleReturn
  PROVE  IInv'
<1> DEFINE n == Len(stack)
<1>1. /\ Nested(stack) /\ n \in Nat \ {0} /\ Top = stack[n] /\ Top \in FrameType
      /\ Top.kind = "os" /\ Top.pc = "run" /\ Below = But(stack) /\ n > 1
      /\ ~Waits(Top) /\ ~IsUser(Top)
  <2>1. Top.kind = "os" /\ Top.pc = "run" /\ n > 1
    BY DEF ScheduleReturn, At
  <2> QED BY <2>1, TopFacts DEF Waits, IsUser
<1>2. FitsOn(Top, stack[n - 1])
  BY <1>1, BelowFacts
<1>3. ~IsUser(stack[n - 1])
  BY <1>1, <1>2 DEF FitsOn, IsUser, IsActive
<1>4. /\ stack' = But(stack) /\ pid0' = pid0 /\ usp' = usp /\ currentPrio' = Top.cpr
      /\ UNCHANGED <<svsp, userSP, state, cnt, minLevel, history>>
  BY <1>1 DEF ScheduleReturn, cpu
<1>5. currentPrio' \in 0..MaxLevel /\ pid0 = 0 /\ usp \in 0..MaxSp
  BY <1>1, <1>4, FrameFields, TopFacts DEF IInv, CpuInv
<1> QED BY <1>1, <1>3, <1>4, <1>5, PopKeeps

LEMMA RaisePriorityKeeps ==
  ASSUME IInv, NEW level \in Ceilings, RaisePriority(level)
  PROVE  IInv'
<1>1. /\ UNCHANGED <<stack, svsp, pid0, usp, userSP, state, cnt, minLevel, aborts, initDone>>
      /\ currentPrio' = level /\ level \in 0..MaxLevel
  BY LevelAssumption DEF RaisePriority, cpu, history
<1>2. TypesInv'
  BY <1>1 DEF IInv, TypesInv
<1> QED BY <1>1, <1>2, RegistersKept

LEMMA LowerPriorityKeeps ==
  ASSUME IInv, LowerPriority
  PROVE  IInv'
<1>1. IsUser(Top) /\ currentPrio' \in 0..MaxLevel
  BY TopFacts, FrameFields DEF LowerPriority
<1>2. UNCHANGED <<svsp, minLevel, initDone>> /\ UNCHANGED <<state, cnt, aborts>>
  BY DEF LowerPriority, history
<1>3. CASE SwitchToFull("done")
  BY <1>1, <1>2, <1>3, SwitchToFullKeeps
<1>4. CASE UNCHANGED <<stack, userSP, pid0, usp>>
  <2>1. TypesInv'
    BY <1>1, <1>2, <1>4 DEF IInv, TypesInv
  <2> QED BY <1>2, <1>4, <2>1, RegistersKept
<1> QED BY <1>3, <1>4 DEF LowerPriority

LEMMA TriggerBadArgumentKeeps ==
  ASSUME IInv, TriggerBadArgument
  PROVE  IInv'
<1>1. Top.kind = "sc" /\ ~Waits(Top) /\ BadArgument
  BY DEF TriggerBadArgument, At, Waits
<1> QED BY <1>1, BadArgumentKeeps

LEMMA CountCauseKeeps ==
  ASSUME IInv, CountCause
  PROVE  IInv'
<1> DEFINE load == cnt[Top.pid].total
           f == [Top EXCEPT !.pc = "total", !.load = load]
<1>1. /\ Top \in FrameType /\ WellFormed(Top) /\ Top.kind = "task" /\ Top.pc = "count"
      /\ Top.pid \in PIDs /\ Top.load \in 0..MaxCount /\ Below = But(stack) /\ TypesInv
  BY TopFacts DEF CountCause, At, WellFormed, IInv
<1>2. cnt \in [PIDs -> [Counters -> 0..MaxCount]] /\ MaxCount \in Nat /\ "badArg" \in Counters
  BY <1>1, LevelAssumption DEF TypesInv, Counters
<1>3. load \in 0..MaxCount /\ load \in Nat
  BY <1>1, <1>2 DEF Counters
<1>4. /\ stack' = With(stack, f) /\ cnt' = [cnt EXCEPT ![Top.pid].badArg = Sat(Top.load)]
      /\ UNCHANGED <<svsp, pid0, usp, userSP, state, currentPrio, minLevel, aborts, initDone>>
  BY <1>1 DEF CountCause, WithTop, With, cpu, history
<1> HIDE DEF load
<1>5. /\ f \in FrameType /\ f.kind = "task" /\ f.pc = "total" /\ f.pid = Top.pid /\ f.usp = Top.usp
      /\ f.svsp = Top.svsp /\ f.load = load
  BY <1>1, <1>3 DEF FrameType
<1> HIDE DEF f
<1>6. Like(f, Top) /\ SameWait(f, Top) /\ IsActive(f) /\ ~IsUser(f) /\ IsEntered(f)
      /\ IsActive(Top) /\ ~IsUser(Top) /\ IsEntered(Top)
  BY <1>1, <1>3, <1>5 DEF Like, SameWait, WellFormed, Waits, IsActive, IsEntered, IsUser
<1>7. TypesInv'
  <2>1. Sat(Top.load) \in 0..MaxCount
    BY <1>1, <1>2 DEF Sat
  <2>2. cnt' \in [PIDs -> [Counters -> 0..MaxCount]]
    BY <1>1, <1>2, <1>4, <2>1
  <2> QED BY <1>1, <1>4, <2>2 DEF TypesInv
<1> QED BY <1>4, <1>6, <1>7, ReplaceKeeps

LEMMA CountTotalKeeps ==
  ASSUME IInv, CountTotal
  PROVE  IInv'
<1> DEFINE f == [Top EXCEPT !.pc = "leave", !.load = 0]
<1>1. /\ Top \in FrameType /\ WellFormed(Top) /\ Top.kind = "task" /\ Top.pc = "total"
      /\ Top.pid \in PIDs /\ Top.load \in 0..MaxCount /\ Below = But(stack) /\ TypesInv
  BY TopFacts DEF CountTotal, At, WellFormed, IInv
<1>2. /\ cnt \in [PIDs -> [Counters -> 0..MaxCount]] /\ MaxCount \in Nat /\ "total" \in Counters
      /\ aborts \in [PIDs -> 0..MaxCount]
  BY <1>1, LevelAssumption DEF TypesInv, Counters
<1>3. /\ stack' = With(stack, f) /\ cnt' = [cnt EXCEPT ![Top.pid].total = Sat(Top.load)]
      /\ aborts' = [aborts EXCEPT ![Top.pid] = IF @ < MaxCount THEN @ + 1 ELSE @]
      /\ UNCHANGED <<svsp, pid0, usp, userSP, state, currentPrio, minLevel, initDone>>
  BY <1>1 DEF CountTotal, WithTop, With, cpu
<1>4. /\ f \in FrameType /\ f.kind = "task" /\ f.pc = "leave" /\ f.pid = Top.pid /\ f.usp = Top.usp
      /\ f.svsp = Top.svsp
  BY <1>1 DEF FrameType
<1> HIDE DEF f
<1>5. Like(f, Top) /\ SameWait(f, Top) /\ IsActive(f) /\ ~IsUser(f) /\ IsEntered(f)
      /\ IsActive(Top) /\ ~IsUser(Top) /\ IsEntered(Top)
  BY <1>1, <1>4 DEF Like, SameWait, WellFormed, Waits, IsActive, IsEntered, IsUser
<1>6. TypesInv'
  <2>1. Sat(Top.load) \in 0..MaxCount
    BY <1>1, <1>2 DEF Sat
  <2>2. cnt' \in [PIDs -> [Counters -> 0..MaxCount]]
    BY <1>1, <1>2, <1>3, <2>1
  <2>3. aborts' \in [PIDs -> 0..MaxCount]
    BY <1>1, <1>2, <1>3
  <2> QED BY <1>1, <1>3, <2>2, <2>3 DEF TypesInv
<1> QED BY <1>3, <1>5, <1>6, ReplaceKeeps

LEMMA LeaveInterruptibleKeeps ==
  ASSUME IInv, LeaveInterruptible
  PROVE  IInv'
<1> DEFINE f == [Top EXCEPT !.pc = "unwind"]
<1>1. /\ Top \in FrameType /\ WellFormed(Top) /\ Top.kind = "task" /\ Top.pc = "leave"
      /\ Top.pid \in PIDs /\ Below = But(stack) /\ TypesInv
  BY TopFacts DEF LeaveInterruptible, At, WellFormed, IInv
<1>2. /\ stack' = With(stack, f) /\ svsp' = Top.svsp
      /\ UNCHANGED <<pid0, usp, userSP, state, cnt, currentPrio, minLevel, aborts, initDone>>
  BY <1>1 DEF LeaveInterruptible, WithTop, With, history
<1>3. f \in FrameType /\ f.kind = "task" /\ f.pc = "unwind" /\ f.pid = Top.pid /\ f.usp = Top.usp
  BY <1>1 DEF FrameType
<1> HIDE DEF f
<1>4. Like(f, Top) /\ SameWait(f, Top) /\ IsActive(f) /\ ~IsUser(f) /\ ~IsEntered(f)
      /\ IsActive(Top) /\ ~IsUser(Top) /\ IsEntered(Top)
  BY <1>1, <1>3 DEF Like, SameWait, WellFormed, Waits, IsActive, IsEntered, IsUser
<1>5. TypesInv'
  BY <1>1, <1>2 DEF TypesInv
<1> QED BY <1>2, <1>4, <1>5, ReplaceKeeps

LEMMA UnwindUserStackKeeps ==
  ASSUME IInv, UnwindUserStack
  PROVE  IInv'
<1> DEFINE f == [Top EXCEPT !.pc = "restore", !.reg = "err", !.out = "err", !.late = FALSE]
<1>1. /\ Top \in FrameType /\ WellFormed(Top) /\ Top.kind = "task" /\ Top.pc = "unwind"
      /\ Top.pid \in PIDs /\ Below = But(stack) /\ Nested(stack) /\ Top = stack[Len(stack)]
  BY TopFacts DEF UnwindUserStack, At, WellFormed
<1>2. /\ stack' = With(stack, f) /\ userSP' = [userSP EXCEPT ![Top.pid] = Top.usp]
      /\ UNCHANGED <<svsp, pid0, usp, state, cnt, currentPrio, minLevel, aborts, initDone>>
  BY <1>1 DEF UnwindUserStack, WithTop, With, cpu, history
<1>3. f \in FrameType /\ f.kind = "task" /\ f.pc = "restore" /\ f.pid = Top.pid /\ f.usp = Top.usp
  BY <1>1 DEF FrameType
<1> HIDE DEF f
<1>4. Like(f, Top) /\ SameWait(f, Top) /\ ~IsActive(f) /\ ~IsUser(f) /\ ~IsEntered(f)
      /\ IsActive(Top) /\ ~IsUser(Top) /\ ~IsEntered(Top)
  BY <1>1, <1>3 DEF Like, SameWait, WellFormed, Waits, IsActive, IsEntered, IsUser
<1>5. /\ StackInv(stack, svsp, userSP, minLevel) /\ Started(stack, initDone) /\ TypesInv
      /\ userSP \in [PIDs -> 0..MaxSp] /\ usp \in 0..MaxSp /\ pid0 = 0
  BY <1>4, TopFacts DEF IInv, TypesInv, CpuInv
<1>6. StackInv(stack', svsp', userSP', minLevel')
  <2>1. StackInv(With(stack, f), svsp, [userSP EXCEPT ![f.pid] = f.usp], minLevel)
    BY <1>1, <1>4, <1>5, GiveBackStep
  <2> QED BY <1>2, <1>3, <2>1
<1>7. Started(stack', initDone')
  BY <1>1, <1>2, <1>4, <1>5, StartedWith
<1>8. Top' = f
  <2>1. Len(stack') = Len(stack) /\ stack'[Len(stack)] = f
    BY <1>1, <1>2, <1>4, WithFrames DEF Like
  <2> QED BY <2>1 DEF Top
<1>9. CpuInv'
  BY <1>2, <1>4, <1>5, <1>8 DEF CpuInv
<1>10. TypesInv'
  <2>1. Top.usp \in 0..MaxSp
    BY <1>1, FrameFields
  <2> QED BY <1>1, <1>2, <1>5, <2>1 DEF TypesInv
<1> QED BY <1>6, <1>7, <1>9, <1>10 DEF IInv
LEMMA RunGateKeeps ==
  ASSUME IInv, NEW p \in PIDs, RunGate(p)
  PROVE  IInv'
<1> DEFINE n == Len(stack)
           f == [Top EXCEPT !.pc = "call", !.level = p, !.load = minLevel]
<1>1. /\ Nested(stack) /\ n \in Nat \ {0} /\ Top = stack[n] /\ Top \in FrameType /\ WellFormed(Top)
      /\ Top.kind = "sc" /\ Top.pc = "gate" /\ Below = But(stack)
      /\ minLevel \in 0..(MaxLevel + 1)
  BY TopFacts DEF RunGate, At
<1>2. p \in Nat /\ minLevel \in Nat /\ MaxLevel \in Nat
  BY <1>1, LevelAssumption, ProcessAssumption DEF PIDs
<1>3. BasePriority(stack) = Base(stack, n)
  <2>1. SubSeq(stack, 1, n) = stack
    BY <1>1 DEF Nested
  <2> QED BY <2>1 DEF Base
<1>4. /\ stack' = With(stack, f) /\ minLevel' = Base(stack, n) + 1 /\ Base(stack, n) >= minLevel
      /\ UNCHANGED <<svsp, pid0, usp, userSP, state, cnt, currentPrio, aborts, initDone>>
  BY <1>1, <1>3 DEF RunGate, PassGate, WithTop, With, cpu, history
<1>5. /\ f \in FrameType /\ f.kind = "sc" /\ f.pc = "call" /\ f.pid = Top.pid /\ f.usp = Top.usp
      /\ f.level = p /\ f.load = minLevel
  BY <1>1, <1>2 DEF FrameType
<1> HIDE DEF f
<1>6. Like(f, Top) /\ Waits(f) /\ ~Waits(Top) /\ ~IsUser(f) /\ ~IsUser(Top)
  BY <1>1, <1>5 DEF Like, WellFormed, Waits, IsEntered, IsUser
<1>7. StackInv(stack', svsp', userSP', minLevel')
  <2>1. StackInv(stack, svsp, userSP, minLevel)
    BY DEF IInv
  <2>2. StackInv(With(stack, f), svsp, userSP, Base(stack, Len(stack)) + 1)
    BY <1>1, <1>2, <1>4, <1>5, <1>6, <2>1, GateStep
  <2> QED BY <1>4, <2>2
<1>8. Started(stack', initDone')
  BY <1>1, <1>4, <1>6, StartedWith DEF IInv
<1>9. Top' = f
  <2>1. Len(stack') = Len(stack) /\ stack'[Len(stack)] = f
    BY <1>1, <1>4, <1>6, WithFrames DEF Like
  <2> QED BY <2>1 DEF Top
<1>10. CpuInv'
  BY <1>4, <1>6, <1>9 DEF IInv, CpuInv
<1>11. TypesInv'
  BY <1>4 DEF IInv, TypesInv
<1> QED BY <1>7, <1>8, <1>10, <1>11 DEF IInv

LEMMA RunRefusedKeeps ==
  ASSUME IInv, NEW p \in PIDs, RunRefused(p)
  PROVE  IInv'
<1>1. Top.kind = "sc" /\ ~Waits(Top) /\ BadArgument
  BY DEF RunRefused, At, Waits
<1> QED BY <1>1, BadArgumentKeeps

LEMMA RunCallKeeps ==
  ASSUME IInv, RunCall
  PROVE  IInv'
<1>1. /\ Top \in FrameType /\ WellFormed(Top) /\ Top.kind = "sc" /\ Top.pc = "call"
      /\ Top.level \in PIDs /\ Below = But(stack) /\ Waits(Top) /\ ~IsUser(Top) /\ ~IsActive(Top)
      /\ ~IsEntered(Top) /\ TypesInv /\ pid0 = 0 /\ usp \in 0..MaxSp /\ currentPrio \in 0..MaxLevel
  <2>1. Top.kind = "sc" /\ Top.pc = "call"
    BY DEF RunCall, At
  <2>2. Waits(Top) /\ ~IsUser(Top) /\ ~IsActive(Top) /\ ~IsEntered(Top)
    BY <2>1 DEF Waits, IsUser, IsActive, IsEntered
  <2> QED BY <2>1, <2>2, TopFacts DEF WellFormed, IInv, TypesInv, CpuInv
<1>2. UNCHANGED <<svsp, pid0, usp, userSP, state, cnt, currentPrio, minLevel, aborts, initDone>>
  BY DEF RunCall, cpu, history
<1>3. CASE state[Top.level] # 0
  <2> DEFINE f == TaskFrame(Top.level)
  <2>1. f \in FrameType /\ f.kind = "task" /\ f.pc = "enter" /\ f.pid = Top.level
    BY <1>1, TaskFrameType DEF TaskFrame, Frame
  <2>2. stack' = Append(stack, f)
    BY <1>3 DEF RunCall
  <2> HIDE DEF f
  <2>3. WellFormed(f) /\ ~IsActive(f) /\ ~Waits(f)
    BY <1>1, <2>1 DEF WellFormed, IsActive, Waits
  <2>4. FitsOn(f, Top)
    BY <1>1, <2>1 DEF FitsOn
  <2> QED BY <1>1, <1>2, <2>2, <2>3, <2>4, PushKeeps
<1>4. CASE state[Top.level] = 0
  <2> DEFINE f == [Top EXCEPT !.pc = "ungate"]
  <2>1. stack' = With(stack, f)
    BY <1>1, <1>4 DEF RunCall, WithTop, With
  <2>2. /\ f \in FrameType /\ f.kind = "sc" /\ f.pc = "ungate" /\ f.pid = Top.pid
        /\ f.usp = Top.usp /\ f.load = Top.load
    BY <1>1 DEF FrameType
  <2> HIDE DEF f
  <2>3. Like(f, Top) /\ SameWait(f, Top) /\ ~IsActive(f) /\ ~IsUser(f) /\ ~IsEntered(f)
    BY <1>1, <2>2 DEF Like, SameWait, WellFormed, Waits, IsActive, IsEntered, IsUser
  <2>4. TypesInv'
    BY <1>1, <1>2 DEF TypesInv
  <2> QED BY <1>1, <1>2, <2>1, <2>3, <2>4, ReplaceKeeps
<1> QED BY <1>3, <1>4

LEMMA RunUngateKeeps ==
  ASSUME IInv, RunUngate
  PROVE  IInv'
<1> DEFINE f == [Top EXCEPT !.pc = "return", !.level = 0, !.load = 0]
<1>1. /\ Nested(stack) /\ Top = stack[Len(stack)] /\ Top \in FrameType /\ WellFormed(Top)
      /\ Top.kind = "sc" /\ Top.pc = "ungate" /\ Below = But(stack)
  BY TopFacts DEF RunUngate, At
<1>2. /\ stack' = With(stack, f) /\ minLevel' = Top.load
      /\ UNCHANGED <<svsp, pid0, usp, userSP, state, cnt, currentPrio, aborts, initDone>>
  BY <1>1 DEF RunUngate, WithTop, With, cpu, history
<1>3. f \in FrameType /\ f.kind = "sc" /\ f.pc = "return" /\ f.pid = Top.pid /\ f.usp = Top.usp
  BY <1>1 DEF FrameType
<1> HIDE DEF f
<1>4. Like(f, Top) /\ ~Waits(f) /\ Waits(Top) /\ ~IsUser(f) /\ ~IsUser(Top)
  BY <1>1, <1>3 DEF Like, WellFormed, Waits, IsEntered, IsUser
<1>5. StackInv(stack', svsp', userSP', minLevel')
  <2>1. StackInv(stack, svsp, userSP, minLevel)
    BY DEF IInv
  <2>2. StackInv(With(stack, f), svsp, userSP, stack[Len(stack)].load)
    BY <1>1, <1>4, <2>1, UngateStep
  <2> QED BY <1>1, <1>2, <2>2
<1>6. Started(stack', initDone')
  BY <1>1, <1>2, <1>4, StartedWith DEF IInv
<1>7. Top' = f
  <2>1. Len(stack') = Len(stack) /\ stack'[Len(stack)] = f
    BY <1>1, <1>2, <1>4, WithFrames DEF Like
  <2> QED BY <2>1 DEF Top
<1>8. CpuInv'
  BY <1>2, <1>4, <1>7 DEF IInv, CpuInv
<1>9. TypesInv'
  BY <1>2 DEF IInv, TypesInv
<1> QED BY <1>5, <1>6, <1>8, <1>9 DEF IInv

(* rtos_osInitKernel executes alone.                                       *)
LEMMA StartupFacts ==
  ASSUME IInv, Top.kind = "os", Top.pc # "run"
  PROVE  /\ Len(stack) = 1 /\ stack[1] = Top /\ Top \in FrameType /\ ~IsUser(Top) /\ pid0 = 0
         /\ StackInv(stack, svsp, userSP, minLevel) /\ Started(stack, initDone) /\ TypesInv
         /\ usp \in 0..MaxSp /\ Top.pid \in 0..NoProcesses /\ Top.level \in 0..MaxLevel
<1>1. /\ Nested(stack) /\ Len(stack) \in Nat \ {0} /\ Top = stack[Len(stack)] /\ Top \in FrameType
      /\ ~IsUser(Top) /\ pid0 = 0
  BY TopFacts DEF IsUser
<1>2. Len(stack) \in 1..Len(stack)
  BY <1>1
<1>3. Len(stack) = 1
  BY <1>1, <1>2, StartupIsFirst
<1>4. Top.pid \in 0..NoProcesses /\ Top.level \in 0..MaxLevel
  BY <1>1, FrameFields, TopFacts DEF WellFormed
<1> QED BY <1>1, <1>3, <1>4 DEF IInv, CpuInv

LEMMA InitNextKeeps ==
  ASSUME IInv, InitNext
  PROVE  IInv'
<1> DEFINE k == Top.pid
           f == [Top EXCEPT !.pid = k + 1]
           g == TaskFrame(k + 1)
<1>1. Top.kind = "os" /\ Top.pc = "init" /\ k < NoProcesses
  BY DEF InitNext, At
<1>2. /\ Len(stack) = 1 /\ stack[1] = Top /\ Top \in FrameType /\ pid0 = 0
      /\ StackInv(stack, svsp, userSP, minLevel) /\ Started(stack, initDone) /\ TypesInv
      /\ usp \in 0..MaxSp /\ k \in 0..NoProcesses /\ Top.level \in 0..MaxLevel
  BY <1>1, StartupFacts
<1>3. k + 1 \in PIDs /\ k + 1 \in 0..NoProcesses /\ NoProcesses \in Nat
  BY <1>1, <1>2, ProcessAssumption DEF PIDs
<1>4. /\ stack' = IF k + 1 \in InitTasks THEN <<f, g>> ELSE <<f>>
      /\ UNCHANGED <<svsp, pid0, usp, userSP, state, cnt, currentPrio, minLevel, aborts, initDone>>
  BY DEF InitNext, cpu, history
<1>5. f \in FrameType /\ f.kind = "os" /\ f.pc = "init" /\ f.pid = k + 1 /\ f.level = Top.level
  BY <1>1, <1>2, <1>3 DEF FrameType
<1>6. currentPrio \in 0..MaxLevel /\ userSP \in [PIDs -> 0..MaxSp]
  BY <1>2 DEF TypesInv
<1>7. g \in FrameType /\ g.kind = "task" /\ g.pc = "enter" /\ g.pid = k + 1
  BY <1>3, <1>6, TaskFrameType DEF TaskFrame, Frame
<1> HIDE DEF f, g
<1>8. WellFormed(f) /\ ~IsUser(f) /\ ~IsActive(f)
  BY <1>2, <1>5 DEF WellFormed, Waits, IsUser, IsActive
<1>9. WellFormed(g) /\ ~IsActive(g) /\ ~Waits(g) /\ ~IsUser(g)
  BY <1>3, <1>7 DEF WellFormed, IsActive, IsUser, Waits
<1>10. FitsOn(g, f)
  BY <1>5, <1>7, <1>8 DEF FitsOn
<1>11. StackInv(<<f>>, svsp, userSP, minLevel)
  BY <1>2, <1>5, <1>8, BottomStep
<1>12. /\ initDone \subseteq 1..(k + 1)
       /\ \A p \in InitTasks \ {0} : p < k + 1 => p \in initDone
  <2>1. stack[1].pc = "init" /\ stack[1].pid = k
    BY <1>1, <1>2
  <2>2. /\ initDone \subseteq 1..k
        /\ \A p \in InitTasks \ {0} : p < k => p \in initDone
        /\ k \in InitTasks \ ({0} \cup initDone) => Len(stack) >= 2
    BY <1>2, <2>1 DEF Started
  <2>3. initDone \subseteq 1..(k + 1)
    BY <1>2, <2>2
  <2>4. ASSUME NEW p \in InitTasks \ {0}, p < k + 1 PROVE p \in initDone
    <3>1. p \in 0..NoProcesses
      BY ProcessAssumption
    <3>2. p < k \/ p = k
      BY <1>2, <2>4, <3>1
    <3>3. CASE p = k
      BY <1>2, <2>2, <3>3
    <3> QED BY <2>2, <3>2, <3>3
  <2> QED BY <2>3, <2>4
<1>13. CASE k + 1 \in InitTasks
  <2>1. <<f, g>> = Append(<<f>>, g) /\ stack' = <<f, g>>
    BY <1>4, <1>13
  <2>2. Len(<<f>>) = 1 /\ <<f>>[1] = f
    OBVIOUS
  <2>3. FitsOn(g, <<f>>[Len(<<f>>)]) /\ ~IsUser(<<f>>[Len(<<f>>)])
    BY <1>8, <1>10, <2>2
  <2>4. StackInv(Append(<<f>>, g), svsp, userSP, minLevel)
    BY <1>6, <1>9, <1>11, <2>3, PushStep
  <2>5. StackInv(stack', svsp', userSP', minLevel')
    BY <1>4, <2>1, <2>4
  <2>6. Len(stack') = 2 /\ stack'[1] = f /\ stack'[2] = g
    BY <2>1
  <2>7. Started(stack', initDone')
    BY <1>4, <1>5, <1>7, <1>12, <2>6 DEF Started
  <2>8. CpuInv'
    BY <1>2, <1>4, <1>9, <2>6 DEF CpuInv, Top
  <2>9. TypesInv'
    BY <1>2, <1>4 DEF TypesInv
  <2> QED BY <2>5, <2>7, <2>8, <2>9 DEF IInv
<1>14. CASE k + 1 \notin InitTasks
  <2>1. stack' = <<f>>
    BY <1>4, <1>14
  <2>2. StackInv(stack', svsp', userSP', minLevel')
    BY <1>4, <1>11, <2>1
  <2>3. Len(stack') = 1 /\ stack'[1] = f
    BY <2>1
  <2>4. Started(stack', initDone')
    BY <1>4, <1>5, <1>12, <1>14, <2>3 DEF Started
  <2>5. CpuInv'
    BY <1>2, <1>4, <1>8, <2>3 DEF CpuInv, Top
  <2>6. TypesInv'
    BY <1>2, <1>4 DEF TypesInv
  <2> QED BY <2>2, <2>4, <2>5, <2>6 DEF IInv
<1> QED BY <1>13, <1>14

LEMMA InitOsKeeps ==
  ASSUME IInv, NEW result \in {"ok", "err"}, InitOs(result)
  PROVE  IInv'
<1> DEFINE pc == IF result = "ok" /\ Top.reg # "err" THEN "release" ELSE "failed"
           f == [Top EXCEPT !.pid = 0, !.reg = "none", !.pc = pc]
<1>1. Top.kind = "os" /\ Top.pc = "init" /\ Top.pid = NoProcesses
  BY DEF InitOs, At
<1>2. /\ Len(stack) = 1 /\ stack[1] = Top /\ Top \in FrameType /\ pid0 = 0
      /\ StackInv(stack, svsp, userSP, minLevel) /\ Started(stack, initDone) /\ TypesInv
      /\ usp \in 0..MaxSp /\ Top.level \in 0..MaxLevel
  BY <1>1, StartupFacts
<1>3. /\ stack' = <<f>> /\ initDone' = initDone \cup (InitTasks \cap {0})
      /\ UNCHANGED <<svsp, pid0, usp, userSP, state, cnt, currentPrio, minLevel, aborts>>
  BY DEF InitOs, cpu
<1>4. 0 \in 0..NoProcesses /\ NoProcesses \in Nat /\ pc \in {"release", "failed"}
  BY ProcessAssumption
<1> HIDE DEF pc
<1>5. f \in FrameType /\ f.kind = "os" /\ f.pc \in {"release", "failed"} /\ f.level = Top.level
  BY <1>1, <1>2, <1>4 DEF FrameType
<1> HIDE DEF f
<1>6. WellFormed(f) /\ ~IsUser(f)
  BY <1>2, <1>5 DEF WellFormed, Waits, IsUser
<1>7. StackInv(stack', svsp', userSP', minLevel')
  <2>1. StackInv(<<f>>, svsp, userSP, minLevel)
    BY <1>2, <1>5, <1>6, BottomStep
  <2> QED BY <1>3, <2>1
<1>8. Len(stack') = 1 /\ stack'[1] = f
  BY <1>3
<1>9. Started(stack', initDone')
  <2>1. stack[1].pc = "init" /\ stack[1].pid = NoProcesses
    BY <1>1, <1>2
  <2>2. /\ \A p \in InitTasks \ {0} : p < NoProcesses => p \in initDone
        /\ NoProcesses \in InitTasks \ ({0} \cup initDone) => Len(stack) >= 2
    BY <1>2, <2>1 DEF Started
  <2>3. ASSUME NEW p \in InitTasks \ {0} PROVE p \in initDone
    <3>1. p \in 0..NoProcesses
      BY ProcessAssumption
    <3>2. p < NoProcesses \/ p = NoProcesses
      BY <1>4, <3>1
    <3>3. CASE p = NoProcesses
      BY <1>2, <2>2, <3>3
    <3> QED BY <2>2, <3>2, <3>3
  <2>4. InitTasks \ {0} \subseteq initDone'
    BY <1>3, <2>3
  <2> QED BY <1>5, <1>8, <2>4 DEF Started
<1>10. CpuInv'
  BY <1>2, <1>3, <1>6, <1>8 DEF CpuInv, Top
<1>11. TypesInv'
  BY <1>2, <1>3, <1>4 DEF TypesInv
<1> QED BY <1>7, <1>9, <1>10, <1>11 DEF IInv

LEMMA ReleaseKeeps ==
  ASSUME IInv, Release
  PROVE  IInv'
<1> DEFINE f == [Top EXCEPT !.pc = "run"]
<1>1. Top.kind = "os" /\ Top.pc = "release"
  BY DEF Release, At
<1>2. /\ Len(stack) = 1 /\ stack[1] = Top /\ Top \in FrameType /\ pid0 = 0
      /\ StackInv(stack, svsp, userSP, minLevel) /\ Started(stack, initDone) /\ TypesInv
      /\ usp \in 0..MaxSp /\ Top.level \in 0..MaxLevel
  BY <1>1, StartupFacts
<1>3. /\ stack' = <<f>> /\ state' = [p \in PIDs |-> 1]
      /\ UNCHANGED <<svsp, pid0, usp, userSP, cnt, currentPrio, minLevel, aborts, initDone>>
  <2>1. stack \in Seq(FrameType)
    BY TopFacts DEF Nested
  <2>2. Below = <<>>
    BY <1>2, <2>1 DEF Below
  <2>3. Append(<<>>, f) = <<f>>
    OBVIOUS
  <2> QED BY <2>2, <2>3 DEF Release, WithTop, cpu, history
<1>4. f \in FrameType /\ f.kind = "os" /\ f.pc = "run" /\ f.level = Top.level
  BY <1>1, <1>2 DEF FrameType
<1> HIDE DEF f
<1>5. WellFormed(f) /\ ~IsUser(f)
  BY <1>2, <1>4 DEF WellFormed, Waits, IsUser
<1>6. StackInv(stack', svsp', userSP', minLevel')
  <2>1. StackInv(<<f>>, svsp, userSP, minLevel)
    BY <1>2, <1>4, <1>5, BottomStep
  <2> QED BY <1>3, <2>1
<1>7. Len(stack') = 1 /\ stack'[1] = f
  BY <1>3
<1>8. Started(stack', initDone')
  BY <1>1, <1>2, <1>3, <1>4, <1>7 DEF Started
<1>9. CpuInv'
  BY <1>2, <1>3, <1>5, <1>7 DEF CpuInv, Top
<1>10. TypesInv'
  BY <1>2, <1>3 DEF TypesInv
<1> QED BY <1>6, <1>8, <1>9, <1>10 DEF IInv
-----------------------------------------------------------------------------
(* The invariant holds *)

LEMMA InitHolds == Init => IInv
<1> SUFFICES ASSUME Init PROVE IInv
  OBVIOUS
<1> DEFINE f == [Frame EXCEPT !.pc = "init"]
           t == <<f>>
<1>1. /\ NoProcesses \in Nat \ {0} /\ MaxLevel \in Nat /\ MaxSp \in Nat /\ MaxCount \in Nat
      /\ InitTasks \subseteq 0..NoProcesses
  BY ProcessAssumption, LevelAssumption
<1>2. f \in FrameType /\ f.kind = "os" /\ f.pc = "init" /\ f.pid = 0 /\ f.level = 0
  <2>1. f \in FrameType
    BY BlankFrame DEF FrameType
  <2> QED BY <2>1 DEF Frame
<1>3. stack = t
  BY DEF Init
<1> HIDE DEF f
<1>4. t \in Seq(FrameType) /\ t # <<>> /\ Len(t) = 1 /\ t[1] = f
  BY <1>2
<1>5. WellFormed(f) /\ ~IsUser(f) /\ ~IsActive(f) /\ ~IsEntered(f) /\ ~Waits(f)
  BY <1>1, <1>2 DEF WellFormed, IsUser, IsActive, IsEntered, Waits
<1> HIDE DEF t
<1>6. Nested(t)
  BY <1>2, <1>4, <1>5 DEF Nested
<1>7. Chained(t, 0)
  BY <1>4, <1>5 DEF Chained, IsInner
<1>8. Apart(t, userSP) /\ Returned(t, userSP)
  BY <1>4, <1>5 DEF Init, Apart, Returned
<1>9. Gated(t, 0)
  <2>1. IsGateBelow(t, 0, 2)
    BY <1>4, <1>5 DEF IsGateBelow
  <2>2. \A d \in 1..1 : ~Waits(t[d])
    BY <1>4, <1>5
  <2> QED BY <1>4, <2>1, <2>2 DEF Gated
<1>10. Started(t, initDone)
  <2>1. \A p \in InitTasks \ {0} : ~(p < 0)
    BY <1>1
  <2> QED BY <1>2, <1>4, <2>1 DEF Started, Init
<1>11. CpuInv
  BY <1>1, <1>3, <1>4, <1>5 DEF CpuInv, Init, Top
<1>12. TypesInv
  <2>1. 0 \in 0..MaxSp /\ 0 \in 0..MaxCount /\ 0 \in 0..MaxLevel
    BY <1>1
  <2> QED BY <2>1 DEF TypesInv, Init
<1>13. svsp = 0 /\ minLevel = 0
  BY DEF Init
<1> QED BY <1>3, <1>6, <1>7, <1>8, <1>9, <1>10, <1>11, <1>12, <1>13 DEF IInv, StackInv

LEMMA StutterKeeps ==
  ASSUME IInv, UNCHANGED vars
  PROVE  IInv'
<1>1. UNCHANGED <<stack, svsp, pid0, usp, userSP, state, cnt, currentPrio, minLevel, aborts, initDone>>
  BY DEF vars
<1>2. TypesInv'
  BY <1>1 DEF IInv, TypesInv
<1> QED BY <1>1, <1>2, RegistersKept

LEMMA StepKeeps ==
  ASSUME IInv, [Next]_vars
  PROVE  IInv'
<1>1. CASE StartStep
  BY <1>1, InitNextKeeps, InitOsKeeps, ReleaseKeeps DEF StartStep
<1>2. CASE TaskStep
  <2>1. CASE \E p \in PIDs : RunTask(p)
    BY <2>1, RunTaskKeeps
  <2>2. CASE EnterTask \/ UseStack
    BY <2>2, EnterTaskKeeps, UseStackKeeps
  <2>3. CASE (\E result \in {"ok", "err"} : UserEnd(result)) \/ Exception
    BY <2>3, UserEndKeeps, ExceptionKeeps
  <2>4. CASE RestorePriority \/ ReturnToCaller
    BY <2>4, RestorePriorityKeeps, ReturnToCallerKeeps
  <2>5. CASE \E level \in 0..MaxLevel, value \in {"ok", "err"} : ScheduleAtEnd(level, value)
    BY <2>5, ScheduleAtEndKeeps
  <2> QED BY <1>2, <2>1, <2>2, <2>3, <2>4, <2>5 DEF TaskStep
<1>3. CASE IrqStep
  BY <1>3, IrqEnterKeeps, IrqSchedulesKeeps, IrqReturnKeeps, ExpireKeeps DEF IrqStep
<1>4. CASE CallStep
  <2>1. CASE (\E service \in Services : FullCall(service)) \/ CallReturn
    BY <2>1, FullCallKeeps, CallReturnKeeps
  <2>2. CASE (\E level \in 1..MaxLevel : Schedule(level)) \/ ScheduleReturn
    BY <2>2, SchedulesKeeps, ScheduleReturnKeeps
  <2>3. CASE (\E level \in Ceilings : RaisePriority(level)) \/ LowerPriority
    BY <2>3, RaisePriorityKeeps, LowerPriorityKeeps
  <2>4. CASE TriggerBadArgument
    BY <2>4, TriggerBadArgumentKeeps
  <2>5. CASE CountCause \/ CountTotal \/ LeaveInterruptible \/ UnwindUserStack
    BY <2>5, CountCauseKeeps, CountTotalKeeps, LeaveInterruptibleKeeps, UnwindUserStackKeeps
  <2> QED BY <1>4, <2>1, <2>2, <2>3, <2>4, <2>5 DEF CallStep
<1>5. CASE RunStep
  BY <1>5, RunGateKeeps, RunRefusedKeeps, RunCallKeeps, RunUngateKeeps DEF RunStep
<1>6. CASE SuspendStep
  BY <1>6, OsSuspendKeeps, UserSuspendKeeps DEF SuspendStep
<1>7. CASE UNCHANGED vars
  BY <1>7, StutterKeeps
<1> QED BY <1>1, <1>2, <1>3, <1>4, <1>5, <1>6, <1>7 DEF Next

(* The saved contexts of all code that was interrupted or waits are in     *)
(* order at every moment: the frames of the supervisor stack fit on each   *)
(* other, SPRG0, the user stack pointers of the processes and the gate of  *)
(* rtos_runTask are what the frame on top expects to find or to restore.   *)
THEOREM ContextsAreInOrder == Spec => []IInv
<1>1. Init => IInv
  BY InitHolds
<1>2. IInv /\ [Next]_vars => IInv'
  BY StepKeeps
<1> QED BY <1>1, <1>2, PTL DEF Spec

LEMMA TypesFollow == IInv => TypeOK
<1> SUFFICES ASSUME IInv PROVE TypeOK
  OBVIOUS
<1>1. /\ Nested(stack) /\ Chained(stack, svsp) /\ TypesInv /\ CpuInv
      /\ stack \in Seq(FrameType) /\ stack # <<>>
  BY DEF IInv, StackInv, Nested
<1>2. Len(stack) \in Nat \ {0} /\ Top \in FrameType /\ minLevel \in 0..(MaxLevel + 1)
  BY TopFacts
<1>3. svsp \in 0..Len(stack)
  BY <1>1, <1>2 DEF Chained, IsInner
<1>4. pid0 \in 0..NoProcesses
  BY <1>1, <1>2, FrameFields, ProcessAssumption DEF CpuInv
<1> QED BY <1>1, <1>2, <1>3, <1>4 DEF TypeOK, TypesInv, CpuInv

(* All variables keep their types; in particular the failure counters and  *)
(* the stacks of the processes stay within their bounds.                   *)
THEOREM TypeCorrect == Spec => []TypeOK
BY ContextsAreInOrder, TypesFollow, PTL

LEMMA InnermostFollows == IInv => ContextIsInnermost
<1> SUFFICES ASSUME IInv PROVE ContextIsInnermost
  OBVIOUS
<1> DEFINE n == Len(stack)
           S == {0} \cup Entered
<1>1. Chained(stack, svsp) /\ n \in Nat \ {0} /\ (InUserCode <=> IsUser(Top))
  BY TopFacts DEF IInv, StackInv
<1>2. /\ svsp \in 0..n /\ (svsp # 0 => IsEntered(stack[svsp]))
      /\ \A e \in (svsp + 1)..n : ~IsEntered(stack[e])
  BY <1>1 DEF Chained, IsInner
<1>3. \A d \in 1..n : d \in Entered <=> IsEntered(stack[d])
  BY DEF Entered, IsEntered
<1>4. Entered \subseteq 1..n
  BY DEF Entered
<1> HIDE DEF n
<1>5. S \in SUBSET Int /\ svsp \in S
  BY <1>1, <1>2, <1>3, <1>4
<1>6. \A y \in S : svsp >= y
  <2> SUFFICES ASSUME NEW y \in S, ~(svsp >= y) PROVE FALSE
    OBVIOUS
  <2>1. y \in 1..n /\ y \in (svsp + 1)..n
    BY <1>1, <1>2, <1>4
  <2>2. y \in Entered
    BY <1>2, <2>1
  <2> QED BY <1>2, <1>3, <2>1, <2>2
<1> HIDE DEF S
<1>7. Max(S) = svsp
  BY <1>5, <1>6, MaxIs
<1> QED BY <1>1, <1>7 DEF ContextIsInnermost, IInv, CpuInv, S

(* SPRG0 leads to the innermost user task whatever has been started,       *)
(* preempted or aborted in between, and PID0 is its process exactly while  *)
(* its code executes: abort and preemption find the right frame.           *)
THEOREM TheRightTaskIsAborted == Spec => []ContextIsInnermost
BY ContextsAreInOrder, InnermostFollows, PTL

LEMMA ApartFollows == IInv => StacksApart
<1> SUFFICES ASSUME IInv, NEW d \in Holding, NEW e \in Entered, d < e,
                    stack[d].pid = stack[e].pid
             PROVE  SpOf(d) <= stack[e].usp
  BY DEF StacksApart
<1>1. Nested(stack) /\ Apart(stack, userSP) /\ Len(stack) \in Nat \ {0}
  BY TopFacts DEF IInv, StackInv
<1>2. d \in 1..Len(stack) /\ e \in 1..Len(stack) /\ IsEntered(stack[e]) /\ IsActive(stack[e])
  BY DEF Holding, Entered, IsEntered, IsActive
<1>3. d \in 1..(Len(stack) - 1) /\ d # Len(stack) /\ e \in (d + 1)..Len(stack)
  BY <1>1, <1>2
<1>4. stack[d + 1].pid # 0 /\ stack[d + 1].kind \in {"isr", "sc"}
  BY <1>3 DEF Holding
<1>5. FitsOn(stack[d + 1], stack[d])
  BY <1>1, <1>3 DEF Nested
<1>6. IsUser(stack[d])
  BY <1>4, <1>5 DEF FitsOn
<1>7. stack[d + 1].usp <= stack[e].usp
  BY <1>1, <1>2, <1>3, <1>6 DEF Apart
<1> QED BY <1>3, <1>7 DEF SpOf

(* A task never starts in the part of the stack of its process that a      *)
(* suspended task below it has in use, whatever was aborted in between.    *)
THEOREM StacksStayApart == Spec => []StacksApart
BY ContextsAreInOrder, ApartFollows, PTL

LEMMA GivenBackFollows == IInv => StackGivenBack
<1> SUFFICES ASSUME IInv, NEW p \in PIDs,
                    \A d \in 1..Len(stack) : stack[d].kind = "task" =>
                       \/ stack[d].pid # p
                       \/ stack[d].pc \in {"enter", "restore", "sched", "return"},
                    userSP[p] # 0
             PROVE  FALSE
  BY DEF StackGivenBack
<1>1. PICK d \in 1..Len(stack) : IsActive(stack[d]) /\ stack[d].pid = p
  BY DEF IInv, StackInv, Returned
<1> QED BY <1>1 DEF IsActive

(* When all tasks of a process are over its stack is empty again: aborts   *)
(* leave nothing behind.                                                   *)
THEOREM StacksAreGivenBack == Spec => []StackGivenBack
BY ContextsAreInOrder, GivenBackFollows, PTL

LEMMA GateAtTop ==
  ASSUME NEW s, NEW m, NEW n \in Nat \ {0}, IsGateBelow(s, m, n + 1)
  PROVE  \/ m = 0 /\ \A e \in 1..n : ~Waits(s[e])
         \/ \E e \in 1..n : /\ Waits(s[e]) /\ m = Base(s, e) + 1
                            /\ \A c \in (e + 1)..n : ~Waits(s[c])
<1> DEFINE k == n + 1
<1>1. k - 1 = n
  OBVIOUS
<1>2. \/ m = 0 /\ \A e \in 1..(k - 1) : ~Waits(s[e])
      \/ \E e \in 1..(k - 1) : /\ Waits(s[e]) /\ m = Base(s, e) + 1
                               /\ \A c \in (e + 1)..(k - 1) : ~Waits(s[c])
  BY DEF IsGateBelow
<1> HIDE DEF k
<1> QED BY <1>1, <1>2

LEMMA NotRecursiveFollows == IInv => RunTaskIsNotRecursive
<1> SUFFICES ASSUME IInv PROVE RunTaskIsNotRecursive
  OBVIOUS
<1> DEFINE n == Len(stack)
<1>1. Nested(stack) /\ Gated(stack, minLevel) /\ n \in Nat \ {0}
  BY TopFacts DEF IInv, StackInv
<1>2. Waiting \subseteq 1..n /\ \A d \in 1..n : d \in Waiting <=> Waits(stack[d])
  BY DEF Waiting, Waits
<1>3. \A d \in 1..n : BasePriority(Lower(d)) = Base(stack, d)
  BY DEF Lower, Base
<1>4. \A d, e \in Waiting : d < e => BasePriority(Lower(d)) < BasePriority(Lower(e))
  BY <1>1, <1>2, <1>3 DEF Gated
<1>5. \/ minLevel = 0 /\ \A e \in 1..n : ~Waits(stack[e])
      \/ \E e \in 1..n : /\ Waits(stack[e]) /\ minLevel = Base(stack, e) + 1
                         /\ \A c \in (e + 1)..n : ~Waits(stack[c])
  <2>1. IsGateBelow(stack, minLevel, n + 1)
    BY <1>1 DEF Gated
  <2> QED BY <1>1, <2>1, GateAtTop
<1> HIDE DEF n
<1>6. CASE Waiting = {}
  <2>1. \A e \in 1..n : ~Waits(stack[e])
    BY <1>2, <1>6
  <2>2. minLevel = 0
    BY <1>5, <2>1
  <2> QED BY <1>4, <1>6, <2>2 DEF RunTaskIsNotRecursive
<1>7. CASE Waiting # {}
  <2>1. \E d \in 1..n : Waits(stack[d])
    BY <1>2, <1>7
  <2>2. PICK e \in 1..n : /\ Waits(stack[e]) /\ minLevel = Base(stack, e) + 1
                          /\ \A c \in (e + 1)..n : ~Waits(stack[c])
    BY <1>5, <2>1
  <2>3. Waiting \in SUBSET Int /\ e \in Waiting
    BY <1>2, <2>2
  <2>4. \A y \in Waiting : e >= y
    <3> SUFFICES ASSUME NEW y \in Waiting, ~(e >= y) PROVE FALSE
      OBVIOUS
    <3>1. y \in 1..n /\ y \in (e + 1)..n /\ Waits(stack[y])
      BY <1>1, <1>2
    <3> QED BY <2>2, <3>1
  <2>5. Max(Waiting) = e
    BY <2>3, <2>4, MaxIs
  <2> QED BY <1>3, <1>4, <1>7, <2>2, <2>5 DEF RunTaskIsNotRecursive
<1> QED BY <1>6, <1>7

(* Callers that wait in rtos_runTask have rising priorities, and the level *)
(* of the gate is that of the innermost one: rtos_runTask is not recursive.*)
THEOREM GateIsKept == Spec => []RunTaskIsNotRecursive
BY ContextsAreInOrder, NotRecursiveFollows, PTL

LEMMA InOrderFollows == IInv => InitInOrder
<1> SUFFICES ASSUME IInv, NEW p \in InitTasks \ {0}, NEW q \in InitTasks \ {0}
             PROVE  /\ p < q /\ q \in initDone => p \in initDone
                    /\ 0 \in initDone => p \in initDone
  BY DEF InitInOrder
<1>1. Started(stack, initDone) /\ p \in Int /\ q \in Int
  BY ProcessAssumption DEF IInv
<1>2. CASE stack[1].pc = "init"
  <2>1. /\ initDone \subseteq 1..stack[1].pid
        /\ p < stack[1].pid => p \in initDone
    BY <1>1, <1>2 DEF Started
  <2>2. stack[1].pid \in Int
    <3>1. 1 \in 1..Len(stack) /\ Nested(stack)
      BY TopFacts
    <3>2. stack[1] \in FrameType
      BY <3>1, NestedFrames
    <3> QED BY <3>2, FrameFields, ProcessAssumption
  <2> QED BY <1>1, <2>1, <2>2
<1>3. CASE stack[1].pc # "init"
  BY <1>1, <1>3 DEF Started
<1> QED BY <1>2, <1>3

(* Init tasks end in the order of rising process IDs, that of the OS last. *)
THEOREM InitTasksAreInOrder == Spec => []InitInOrder
BY ContextsAreInOrder, InOrderFollows, PTL
-----------------------------------------------------------------------------
(* Failure counters *)

CountingCode == {"gate", "trigger", "count", "total"}
Uncounting(s) == \A d \in 1..Len(s) : s[d].pc \notin CountingCode

LEMMA UncountingWith ==
  ASSUME NEW s, Nested(s), Uncounting(s), NEW f, f \in FrameType, f.pc \notin CountingCode
  PROVE  Uncounting(With(s, f))
<1>1. s \in Seq(FrameType) /\ s # <<>> /\ Len(s) \in Nat \ {0}
  BY NestedFrames DEF Nested
<1>2. /\ Len(With(s, f)) = Len(s) /\ With(s, f)[Len(s)] = f
      /\ \A i \in 1..(Len(s) - 1) : With(s, f)[i] = s[i]
  BY <1>1, WithProperties
<1>3. ASSUME NEW i \in 1..Len(s) PROVE With(s, f)[i].pc \notin CountingCode
  <2>1. i = Len(s) \/ i \in 1..(Len(s) - 1)
    BY <1>1
  <2> QED BY <1>2, <2>1 DEF Uncounting
<1> QED BY <1>2, <1>3 DEF Uncounting

LEMMA UncountingPush ==
  ASSUME NEW s, s \in Seq(FrameType), Uncounting(s), NEW f, f \in FrameType,
         f.pc \notin CountingCode
  PROVE  Uncounting(Append(s, f))
<1>1. /\ Len(s) \in Nat /\ Len(Append(s, f)) = Len(s) + 1 /\ Append(s, f)[Len(s) + 1] = f
      /\ \A i \in 1..Len(s) : Append(s, f)[i] = s[i]
  OBVIOUS
<1>2. ASSUME NEW i \in 1..(Len(s) + 1) PROVE Append(s, f)[i].pc \notin CountingCode
  <2>1. i = Len(s) + 1 \/ i \in 1..Len(s)
    BY <1>1
  <2> QED BY <1>1, <2>1 DEF Uncounting
<1> QED BY <1>1, <1>2 DEF Uncounting

LEMMA UncountingPart ==
  ASSUME NEW s, s \in Seq(FrameType), Uncounting(s), NEW k \in Int, k <= Len(s)
  PROVE  Uncounting(SubSeq(s, 1, k)) /\ SubSeq(s, 1, k) \in Seq(FrameType)
<1>1. \A i \in 1..k : i \in 1..Len(s) /\ s[i] \in FrameType
  OBVIOUS
<1>2. /\ SubSeq(s, 1, k) \in Seq(FrameType)
      /\ Len(SubSeq(s, 1, k)) = IF 1 <= k THEN k - 1 + 1 ELSE 0
      /\ \A i \in 1..(k - 1 + 1) : SubSeq(s, 1, k)[i] = s[1 + i - 1]
  BY <1>1, SubSeqProperties
<1>3. ASSUME NEW i \in 1..Len(SubSeq(s, 1, k)) PROVE SubSeq(s, 1, k)[i].pc \notin CountingCode
  <2>1. i \in 1..k /\ 1 + i - 1 = i /\ k - 1 + 1 = k
    BY <1>2
  <2>2. SubSeq(s, 1, k)[i] = s[i]
    BY <1>2, <2>1
  <2> QED BY <1>1, <2>1, <2>2 DEF Uncounting
<1> QED BY <1>2, <1>3 DEF Uncounting

(* Saturation as of the total is that of the sum of the causes.            *)
Saturated(n) == IF n < MaxCount THEN n ELSE MaxCount

LEMMA SumSaturates ==
  ASSUME NEW a \in 0..MaxCount, NEW b \in 0..MaxCount, NEW t, t = Saturated(a + b)
  PROVE  Sat(t) = Saturated(Sat(a) + b) /\ Sat(t) = Saturated(a + Sat(b))
BY LevelAssumption DEF Sat, Saturated

CountersAgree ==
  \A p \in PIDs : /\ cnt[p].total = aborts[p]
                  /\ cnt[p].total = Saturated(cnt[p].badArg + cnt[p].other)

LEMMA CountsAre == CountsInv <=> Uncounting(stack) /\ CountersAgree
BY DEF CountsInv, Uncounting, CountingCode, CountersAgree, Saturated

LEMMA CountedAgree ==
  ASSUME TypesInv, CountersAgree, NEW q \in PIDs,
         NEW causes \in {{}, {"badArg"}, {"other"}}, Counted(q, causes)
  PROVE  CountersAgree'
<1> SUFFICES ASSUME NEW p \in PIDs
             PROVE  /\ cnt'[p].total = aborts'[p]
                    /\ cnt'[p].total = Saturated(cnt'[p].badArg + cnt'[p].other)
  BY DEF CountersAgree
<1> DEFINE total == cnt[p].total
           a == cnt[p].badArg
           b == cnt[p].other
<1>1. /\ cnt \in [PIDs -> [Counters -> 0..MaxCount]] /\ aborts \in [PIDs -> 0..MaxCount]
      /\ Counters = {"total", "badArg", "other"}
  BY DEF TypesInv, Counters
<1>2. total \in 0..MaxCount /\ a \in 0..MaxCount /\ b \in 0..MaxCount
  BY <1>1
<1>3. total = aborts[p] /\ total = Saturated(a + b)
  BY DEF CountersAgree
<1>4. cnt'[p] = IF p = q
                THEN [c \in Counters |-> IF causes # {} /\ c \in causes \cup {"total"}
                                         THEN Sat(cnt[p][c]) ELSE cnt[p][c]]
                ELSE cnt[p]
  BY <1>1 DEF Counted
<1>5. aborts'[p] = IF p = q /\ causes # {} /\ aborts[p] < MaxCount THEN aborts[p] + 1
                                                                 ELSE aborts[p]
  BY <1>1 DEF Counted
<1>6. CASE p # q \/ causes = {}
  <2>1. cnt'[p].total = total /\ cnt'[p].badArg = a /\ cnt'[p].other = b
    BY <1>1, <1>4, <1>6
  <2> QED BY <1>3, <1>5, <1>6, <2>1
<1>7. CASE p = q /\ causes = {"badArg"}
  <2>1. cnt'[p].total = Sat(total) /\ cnt'[p].badArg = Sat(a) /\ cnt'[p].other = b
    BY <1>1, <1>4, <1>7
  <2>2. aborts'[p] = Sat(total)
    BY <1>3, <1>5, <1>7 DEF Sat
  <2>3. Sat(total) = Saturated(Sat(a) + b)
    BY <1>2, <1>3, SumSaturates
  <2> QED BY <2>1, <2>2, <2>3
<1>8. CASE p = q /\ causes = {"other"}
  <2>1. cnt'[p].total = Sat(total) /\ cnt'[p].badArg = a /\ cnt'[p].other = Sat(b)
    BY <1>1, <1>4, <1>8
  <2>2. aborts'[p] = Sat(total)
    BY <1>3, <1>5, <1>8 DEF Sat
  <2>3. Sat(total) = Saturated(a + Sat(b))
    BY <1>2, <1>3, SumSaturates
  <2> QED BY <2>1, <2>2, <2>3
<1> QED BY <1>6, <1>7, <1>8

(* A task is left: its failure is counted in one step, with MSR[EE]=0.     *)
LEMMA LeaveCounts ==
  ASSUME IInv, CountsInv, NEW result \in {"ok", "err"},
         NEW causes \in {{}, {"badArg"}, {"other"}}, LeaveTask(result, causes),
         \/ IsUser(Top)
         \/ /\ Len(stack) > 1 /\ IsUser(stack[Len(stack) - 1])
            /\ Top.kind # "task" /\ ~Waits(Top)
  PROVE  CountsInv'
<1> DEFINE s == IF IsUser(Top) THEN stack ELSE But(stack)
           g == stack[svsp]
           f == [g EXCEPT !.pc = "restore", !.reg = result, !.out = result, !.late = FALSE]
<1>1. Nested(s) /\ Len(s) = svsp /\ s[svsp] = g /\ IsUser(g) /\ svsp \in Nat \ {0} /\ Unwound = s
      /\ SubSeq(stack, 1, svsp - 1) = But(s)
  <2>1. \/ IsUser(Top) /\ s = stack
        \/ /\ Len(stack) > 1 /\ IsUser(stack[Len(stack) - 1])
           /\ Top.kind # "task" /\ ~Waits(Top) /\ s = But(stack)
    OBVIOUS
  <2> HIDE DEF s
  <2> QED BY <2>1, TaskOnTop
<1>2. stack' = With(s, f) /\ Counted(g.pid, causes)
  BY <1>1 DEF LeaveTask, Ended, With
<1> HIDE DEF s
<1>3. g \in FrameType /\ g.pid \in PIDs
  <2>1. g \in FrameType /\ WellFormed(g)
    BY <1>1, NestedFrames
  <2> QED BY <1>1, <2>1 DEF IsUser, WellFormed
<1>4. Uncounting(s)
  <2>1. Nested(stack) /\ Len(stack) \in Nat \ {0} /\ Uncounting(stack)
    BY TopFacts, CountsAre
  <2>2. CASE IsUser(Top)
    BY <2>1, <2>2 DEF s
  <2>3. CASE ~IsUser(Top)
    <3>1. stack \in Seq(FrameType) /\ Len(stack) - 1 \in Int /\ Len(stack) - 1 <= Len(stack)
      BY <2>1 DEF Nested
    <3> QED BY <2>1, <2>3, <3>1, UncountingPart DEF s, But
  <2> QED BY <2>2, <2>3
<1> HIDE DEF g
<1>5. f \in FrameType /\ f.pc \notin CountingCode
  BY <1>3 DEF FrameType, CountingCode
<1> HIDE DEF f
<1>6. Uncounting(stack')
  BY <1>1, <1>2, <1>4, <1>5, UncountingWith
<1>7. CountersAgree'
  BY <1>2, <1>3, CountsAre, CountedAgree DEF IInv
<1> QED BY <1>6, <1>7 DEF CountsInv, Uncounting, CountingCode, CountersAgree, Saturated
(* Every other step leaves the counters alone and puts no counting code on *)
(* the stack.                                                              *)
LEMMA StackCounts ==
  ASSUME CountsInv, UNCHANGED <<cnt, aborts>>, Uncounting(stack')
  PROVE  CountsInv'
BY DEF CountsInv, Uncounting, CountingCode

LEMMA CountFacts ==
  ASSUME IInv, CountsInv
  PROVE  /\ stack \in Seq(FrameType) /\ Uncounting(stack)
         /\ Below \in Seq(FrameType) /\ Uncounting(Below)
         /\ Top \in FrameType /\ Top.pc \notin CountingCode
         /\ \A f \in FrameType : f.pc \notin CountingCode
              => WithTop(f) \in Seq(FrameType) /\ Uncounting(WithTop(f))
<1>1. /\ stack \in Seq(FrameType) /\ Len(stack) \in Nat \ {0} /\ Top = stack[Len(stack)]
      /\ Top \in FrameType /\ Uncounting(stack)
  BY TopFacts, CountsAre DEF Nested
<1>2. Below \in Seq(FrameType) /\ Uncounting(Below)
  BY <1>1, UncountingPart DEF Below
<1>3. Top.pc \notin CountingCode
  BY <1>1 DEF Uncounting
<1>4. ASSUME NEW f \in FrameType, f.pc \notin CountingCode
      PROVE  WithTop(f) \in Seq(FrameType) /\ Uncounting(WithTop(f))
  <2>1. WithTop(f) \in Seq(FrameType)
    BY <1>2 DEF WithTop
  <2> QED BY <1>2, <1>4, <2>1, UncountingPush DEF WithTop
<1> QED BY <1>1, <1>2, <1>3, <1>4

LEMMA OsOnTopCounts ==
  ASSUME IInv, CountsInv, NEW f \in FrameType, f.pc \notin CountingCode, NEW level \in 0..MaxLevel
  PROVE  Uncounting(Append(WithTop(f), OsFrame(level)))
<1>1. WithTop(f) \in Seq(FrameType) /\ Uncounting(WithTop(f))
  BY CountFacts
<1>2. level \in Nat /\ currentPrio \in 0..MaxLevel
  BY LevelAssumption DEF IInv, TypesInv
<1>3. OsFrame(level) \in FrameType /\ OsFrame(level).pc = "run"
  BY <1>2, OsFrameType DEF OsFrame, Frame
<1> QED BY <1>1, <1>3, UncountingPush DEF CountingCode

LEMMA TaskOnTopCounts ==
  ASSUME IInv, NEW s \in Seq(FrameType), Uncounting(s), NEW p \in PIDs
  PROVE  Uncounting(Append(s, TaskFrame(p)))
<1>1. currentPrio \in 0..MaxLevel
  BY DEF IInv, TypesInv
<1>2. TaskFrame(p) \in FrameType /\ TaskFrame(p).pc = "enter"
  BY <1>1, TaskFrameType DEF TaskFrame, Frame
<1> QED BY <1>2, UncountingPush DEF CountingCode

LEMMA StartCounts ==
  ASSUME IInv, CountsInv, StartStep
  PROVE  CountsInv'
<1>1. Top \in FrameType /\ Top.kind = "os" /\ Top.pc \in {"init", "release"}
  BY CountFacts DEF StartStep, InitNext, InitOs, Release, At
<1>2. \A f \in FrameType : f.pc \notin CountingCode
        => Uncounting(<<f>>) /\ <<f>> \in Seq(FrameType)
  BY DEF Uncounting
<1>3. CASE InitNext
  <2> DEFINE k == Top.pid + 1
             f == [Top EXCEPT !.pid = k]
  <2>1. k \in PIDs /\ k \in 0..NoProcesses
    <3>1. Top.pid \in 0..NoProcesses /\ Top.pid < NoProcesses /\ NoProcesses \in Nat
      BY <1>1, <1>3, FrameFields, ProcessAssumption DEF InitNext
    <3> QED BY <3>1 DEF PIDs
  <2>2. /\ stack' = IF k \in InitTasks THEN <<f, TaskFrame(k)>> ELSE <<f>>
        /\ UNCHANGED <<cnt, aborts>>
    BY <1>3 DEF InitNext, history
  <2>3. Top.pc = "init"
    BY <1>3 DEF InitNext, At
  <2> HIDE DEF k
  <2>4. f \in FrameType /\ f.pc \notin CountingCode
    BY <1>1, <2>1, <2>3 DEF FrameType, CountingCode
  <2> HIDE DEF f
  <2>5. <<f, TaskFrame(k)>> = Append(<<f>>, TaskFrame(k))
    OBVIOUS
  <2>6. Uncounting(<<f>>) /\ Uncounting(Append(<<f>>, TaskFrame(k)))
    BY <1>2, <2>1, <2>4, TaskOnTopCounts
  <2>7. Uncounting(stack')
    BY <2>2, <2>5, <2>6
  <2> QED BY <2>2, <2>7, StackCounts
<1>4. ASSUME NEW result \in {"ok", "err"}, InitOs(result) PROVE CountsInv'
  <2> DEFINE pc == IF result = "ok" /\ Top.reg # "err" THEN "release" ELSE "failed"
             f == [Top EXCEPT !.pid = 0, !.reg = "none", !.pc = pc]
  <2>1. stack' = <<f>> /\ UNCHANGED <<cnt, aborts>>
    BY <1>4 DEF InitOs
  <2>2. pc \in {"release", "failed"} /\ 0 \in 0..NoProcesses
    BY ProcessAssumption
  <2> HIDE DEF pc
  <2>3. f \in FrameType /\ f.pc \notin CountingCode
    BY <1>1, <2>2 DEF FrameType, CountingCode
  <2> HIDE DEF f
  <2>4. Uncounting(stack')
    BY <1>2, <2>1, <2>3
  <2> QED BY <2>1, <2>4, StackCounts
<1>5. CASE Release
  <2> DEFINE f == [Top EXCEPT !.pc = "run"]
  <2>1. stack' = WithTop(f) /\ UNCHANGED <<cnt, aborts>>
    BY <1>5 DEF Release, history
  <2>2. f \in FrameType /\ f.pc \notin CountingCode
    BY <1>1 DEF FrameType, CountingCode
  <2> HIDE DEF f
  <2>3. Uncounting(stack')
    BY <2>1, <2>2, CountFacts
  <2> QED BY <2>1, <2>3, StackCounts
<1> QED BY <1>3, <1>4, <1>5 DEF StartStep

LEMMA TaskCounts ==
  ASSUME IInv, CountsInv, TaskStep
  PROVE  CountsInv'
<1>1. /\ stack \in Seq(FrameType) /\ Uncounting(stack)
      /\ Top \in FrameType /\ WellFormed(Top) /\ Top.pc \notin CountingCode
  BY CountFacts, TopFacts
<1>2. ASSUME NEW p \in PIDs, RunTask(p) PROVE CountsInv'
  <2>1. stack' = Append(stack, TaskFrame(p)) /\ UNCHANGED <<cnt, aborts>>
    BY <1>2 DEF RunTask, history
  <2>2. Uncounting(stack')
    BY <1>1, <2>1, TaskOnTopCounts
  <2> QED BY <2>1, <2>2, StackCounts
<1>3. CASE EnterTask
  <2> DEFINE f == [Top EXCEPT !.pc = "user", !.usp = userSP[Top.pid], !.svsp = svsp]
  <2>1. stack' = WithTop(f) /\ UNCHANGED <<cnt, aborts>>
    BY <1>3 DEF EnterTask, history
  <2>2. userSP[Top.pid] \in 0..MaxSp
    <3>1. Top.pid \in PIDs
      BY <1>1, <1>3 DEF EnterTask, At, WellFormed
    <3> QED BY <3>1 DEF IInv, TypesInv
  <2>3. svsp \in Nat
    BY TopFacts, TypesFollow DEF TypeOK
  <2>4. f \in FrameType /\ f.pc \notin CountingCode
    BY <1>1, <2>2, <2>3 DEF FrameType, CountingCode
  <2> HIDE DEF f
  <2>5. Uncounting(stack')
    BY <2>1, <2>4, CountFacts
  <2> QED BY <2>1, <2>5, StackCounts
<1>4. CASE UseStack
  BY <1>1, <1>4, StackCounts DEF UseStack, history
<1>5. ASSUME NEW result \in {"ok", "err"}, UserEnd(result) PROVE CountsInv'
  <2>1. LeaveTask(result, IF result = "err" THEN {"other"} ELSE {}) /\ IsUser(Top)
    BY <1>5, TopFacts DEF UserEnd
  <2>2. (IF result = "err" THEN {"other"} ELSE {}) \in {{}, {"badArg"}, {"other"}}
    OBVIOUS
  <2> QED BY <2>1, <2>2, LeaveCounts
<1>6. CASE Exception
  <2>1. LeaveTask("err", {"other"}) /\ IsUser(Top)
    BY <1>6, TopFacts DEF Exception
  <2>2. {"other"} \in {{}, {"badArg"}, {"other"}} /\ "err" \in {"ok", "err"}
    OBVIOUS
  <2> QED BY <2>1, <2>2, LeaveCounts
<1>7. CASE RestorePriority
  <2> DEFINE pc == IF Top.cpr < currentPrio THEN "sched" ELSE "return"
             f == [Top EXCEPT !.pc = pc]
  <2>1. stack' = WithTop(f) /\ UNCHANGED <<cnt, aborts>>
    BY <1>7 DEF RestorePriority, history
  <2>2. pc \in {"sched", "return"}
    OBVIOUS
  <2> HIDE DEF pc
  <2>3. f \in FrameType /\ f.pc \notin CountingCode
    BY <1>1, <2>2 DEF FrameType, CountingCode
  <2> HIDE DEF f
  <2>4. Uncounting(stack')
    BY <2>1, <2>3, CountFacts
  <2> QED BY <2>1, <2>4, StackCounts
<1>8. ASSUME NEW level \in 0..MaxLevel, NEW value \in {"ok", "err"}, ScheduleAtEnd(level, value)
      PROVE  CountsInv'
  <2> DEFINE f == [Top EXCEPT !.pc = "return", !.reg = value]
  <2>1. /\ stack' = IF level = 0 THEN WithTop(f) ELSE Append(WithTop(f), OsFrame(level))
        /\ UNCHANGED <<cnt, aborts>>
    BY <1>8 DEF ScheduleAtEnd, history
  <2>2. f \in FrameType /\ f.pc \notin CountingCode
    BY <1>1 DEF FrameType, CountingCode
  <2> HIDE DEF f
  <2>3. Uncounting(stack')
    BY <2>1, <2>2, CountFacts, OsOnTopCounts
  <2> QED BY <2>1, <2>3, StackCounts
<1>9. CASE ReturnToCaller
  <2> DEFINE n == Len(stack)
             g == stack[n - 1]
             s == SubSeq(stack, 1, n - 2)
             f == CASE g.kind = "sc"   -> [g EXCEPT !.pc = "ungate"]
                    [] g.pc = "init" /\ Top.reg = "err" -> [g EXCEPT !.reg = "err"]
                    [] OTHER           -> g
  <2>1. stack' = Append(s, f) /\ UNCHANGED <<cnt, aborts>>
    BY <1>9 DEF ReturnToCaller
  <2>2. Nested(stack) /\ n \in Nat \ {0} /\ Top = stack[n] /\ Top.kind = "task"
    BY <1>9, TopFacts DEF ReturnToCaller, At
  <2>3. n > 1
    BY <2>2 DEF Nested
  <2>4. n - 1 \in 1..n /\ g \in FrameType /\ WellFormed(g) /\ g.pc \notin CountingCode
    BY <1>1, <2>2, <2>3, NestedFrames DEF Uncounting
  <2>5. Uncounting(s) /\ s \in Seq(FrameType)
    BY <1>1, <2>2, <2>3, UncountingPart
  <2>6. f \in FrameType /\ f.pc \notin CountingCode
    <3> HIDE DEF n, g
    <3>1. g.kind = "sc" => g.pc # "init"
      BY <2>4 DEF WellFormed
    <3>2. CASE g.kind = "sc"
      <4>1. f = [g EXCEPT !.pc = "ungate"]
        BY <3>1, <3>2
      <4> HIDE DEF f
      <4> QED BY <2>4, <4>1 DEF FrameType, CountingCode
    <3>3. CASE g.kind # "sc" /\ g.pc = "init" /\ Top.reg = "err"
      <4>1. f = [g EXCEPT !.reg = "err"]
        BY <3>3
      <4> HIDE DEF f
      <4> QED BY <2>4, <4>1 DEF FrameType, CountingCode
    <3>4. CASE g.kind # "sc" /\ ~(g.pc = "init" /\ Top.reg = "err")
      <4>1. f = g
        BY <3>4
      <4> QED BY <2>4, <4>1
    <3> QED BY <3>2, <3>3, <3>4
  <2> HIDE DEF f, s
  <2>7. Uncounting(stack')
    BY <2>1, <2>5, <2>6, UncountingPush
  <2> QED BY <2>1, <2>7, StackCounts
<1> QED BY <1>2, <1>3, <1>4, <1>5, <1>6, <1>7, <1>8, <1>9 DEF TaskStep

LEMMA IrqCounts ==
  ASSUME IInv, CountsInv, IrqStep
  PROVE  CountsInv'
<1>1. /\ stack \in Seq(FrameType) /\ Uncounting(stack) /\ Below \in Seq(FrameType)
      /\ Uncounting(Below) /\ Top \in FrameType /\ Top.pc \notin CountingCode
      /\ Len(stack) \in Nat \ {0} /\ Top = stack[Len(stack)] /\ Nested(stack)
  BY CountFacts, TopFacts
<1>2. ASSUME NEW i \in Irqs, IrqEnter(i) PROVE CountsInv'
  <2>1. stack' = Append(stack, IsrFrame(i)) /\ UNCHANGED <<cnt, aborts>>
    BY <1>2 DEF IrqEnter, history
  <2>2. i \in Nat /\ usp \in 0..MaxSp /\ pid0 \in 0..NoProcesses
    BY TypesFollow, LevelAssumption DEF TypeOK
  <2>3. IsrFrame(i) \in FrameType /\ IsrFrame(i).pc = "run"
    BY <2>2, IsrFrameType DEF IsrFrame, Frame
  <2>4. Uncounting(stack')
    BY <1>1, <2>1, <2>3, UncountingPush DEF CountingCode
  <2> QED BY <2>1, <2>4, StackCounts
<1>3. ASSUME NEW level \in 1..MaxLevel, IrqSchedules(level) PROVE CountsInv'
  <2> DEFINE f == [Top EXCEPT !.pc = "exit"]
  <2>1. stack' = Append(WithTop(f), OsFrame(level)) /\ UNCHANGED <<cnt, aborts>>
    BY <1>3 DEF IrqSchedules, history
  <2>2. f \in FrameType /\ f.pc \notin CountingCode
    <3>1. Top \in FrameType
      BY <1>1
    <3> QED BY <3>1 DEF FrameType, CountingCode
  <2>3. level \in 0..MaxLevel
    BY LevelAssumption
  <2> HIDE DEF f
  <2>4. Uncounting(stack')
    BY <2>1, <2>2, <2>3, OsOnTopCounts
  <2> QED BY <2>1, <2>4, StackCounts
<1>4. CASE IrqReturn
  <2> DEFINE n == Len(stack)
  <2>1. Top.kind = "isr" /\ n > 1
    BY <1>1, <1>4 DEF IrqReturn, Nested
  <2>2. CASE Top.pid # 0 /\ AbortCondition(stack[n - 1])
    <3>1. LeaveTask("err", {"other"})
      BY <1>4, <2>2 DEF IrqReturn
    <3>2. IsUser(stack[n - 1]) /\ Top.kind # "task" /\ ~Waits(Top)
      BY <2>1, <2>2, BelowFacts DEF FitsOn, Waits
    <3>3. {"other"} \in {{}, {"badArg"}, {"other"}} /\ "err" \in {"ok", "err"}
      OBVIOUS
    <3> QED BY <2>1, <3>1, <3>2, <3>3, LeaveCounts
  <2>3. CASE ~(Top.pid # 0 /\ AbortCondition(stack[n - 1]))
    <3>1. stack' = Below /\ UNCHANGED <<cnt, aborts>>
      BY <1>4, <2>3 DEF IrqReturn, history
    <3> QED BY <1>1, <3>1, StackCounts
  <2> QED BY <2>2, <2>3
<1>5. ASSUME NEW d \in 1..Len(stack), Expire(d) PROVE CountsInv'
  <2>1. stack' = [stack EXCEPT ![d] = [stack[d] EXCEPT !.late = TRUE]] /\ UNCHANGED <<cnt, aborts>>
    BY <1>5 DEF Expire, history
  <2>2. stack[d] \in FrameType
    BY <1>1
  <2>3. [stack[d] EXCEPT !.late = TRUE].pc = stack[d].pc
    BY <2>2 DEF FrameType
  <2>4. Len(stack') = Len(stack) /\ \A i \in 1..Len(stack) : stack'[i].pc = stack[i].pc
    BY <1>1, <2>1, <2>3
  <2>5. Uncounting(stack')
    BY <1>1, <2>4 DEF Uncounting
  <2> QED BY <2>1, <2>5, StackCounts
<1> QED BY <1>2, <1>3, <1>4, <1>5 DEF IrqStep

LEMMA CallCounts ==
  ASSUME IInv, CountsInv, Services = {}, CallStep
  PROVE  CountsInv'
<1>1. /\ stack \in Seq(FrameType) /\ Uncounting(stack) /\ Below \in Seq(FrameType)
      /\ Uncounting(Below) /\ Top \in FrameType /\ Top.pc \notin CountingCode
  BY CountFacts
<1>2. CASE CallReturn \/ ScheduleReturn
  BY <1>1, <1>2, StackCounts DEF CallReturn, ScheduleReturn, history
<1>3. ASSUME NEW level \in 1..MaxLevel, Schedule(level) PROVE CountsInv'
  <2> DEFINE pc == IF Top.kind = "sc" THEN "done" ELSE Top.pc
             f == [Top EXCEPT !.pc = pc]
  <2>1. /\ stack' = Append(WithTop(f), OsFrame(level)) /\ UNCHANGED <<cnt, aborts>>
        /\ pc \in {"run", "done"}
    BY <1>3 DEF Schedule, history, At
  <2> HIDE DEF pc
  <2>2. f \in FrameType /\ f.pc \notin CountingCode
    BY <1>1, <2>1 DEF FrameType, CountingCode
  <2>3. level \in 0..MaxLevel
    BY LevelAssumption
  <2> HIDE DEF f
  <2>4. Uncounting(stack')
    BY <2>1, <2>2, <2>3, OsOnTopCounts
  <2> QED BY <2>1, <2>4, StackCounts
<1>4. ASSUME NEW level \in Ceilings, RaisePriority(level) PROVE CountsInv'
  BY <1>1, <1>4, StackCounts DEF RaisePriority, history
<1>5. CASE LowerPriority
  <2>1. UNCHANGED <<cnt, aborts>>
    BY <1>5 DEF LowerPriority, history
  <2>2. CASE SwitchToFull("done")
    <3>1. stack' = Append(stack, CallFrame("done"))
      BY <2>2 DEF SwitchToFull
    <3>2. usp \in 0..MaxSp /\ pid0 \in 0..NoProcesses
      BY TypesFollow DEF TypeOK
    <3>3. CallFrame("done") \in FrameType /\ CallFrame("done").pc = "done"
      BY <3>2, CallFrameType DEF CallFrame, Frame
    <3>4. Uncounting(stack')
      BY <1>1, <3>1, <3>3, UncountingPush DEF CountingCode
    <3> QED BY <2>1, <3>4, StackCounts
  <2>3. CASE UNCHANGED <<stack, userSP, pid0, usp>>
    BY <1>1, <2>1, <2>3, StackCounts
  <2> QED BY <1>5, <2>2, <2>3 DEF LowerPriority
<1>6. CASE LeaveInterruptible
  <2> DEFINE f == [Top EXCEPT !.pc = "unwind"]
  <2>1. stack' = WithTop(f) /\ UNCHANGED <<cnt, aborts>>
    BY <1>6 DEF LeaveInterruptible, history
  <2>2. f \in FrameType /\ f.pc \notin CountingCode
    BY <1>1 DEF FrameType, CountingCode
  <2> HIDE DEF f
  <2>3. Uncounting(stack')
    BY <2>1, <2>2, CountFacts
  <2> QED BY <2>1, <2>3, StackCounts
<1>7. CASE UnwindUserStack
  <2> DEFINE f == [Top EXCEPT !.pc = "restore", !.reg = "err", !.out = "err", !.late = FALSE]
  <2>1. stack' = WithTop(f) /\ UNCHANGED <<cnt, aborts>>
    BY <1>7 DEF UnwindUserStack, history
  <2>2. f \in FrameType /\ f.pc \notin CountingCode
    BY <1>1 DEF FrameType, CountingCode
  <2> HIDE DEF f
  <2>3. Uncounting(stack')
    BY <2>1, <2>2, CountFacts
  <2> QED BY <2>1, <2>3, StackCounts
<1>8. ~(\E service \in Services : FullCall(service))
  OBVIOUS
<1>9. ~TriggerBadArgument /\ ~CountCause /\ ~CountTotal
  BY <1>1 DEF TriggerBadArgument, CountCause, CountTotal, At, CountingCode
<1> QED BY <1>2, <1>3, <1>4, <1>5, <1>6, <1>7, <1>8, <1>9 DEF CallStep

LEMMA RunCounts ==
  ASSUME IInv, CountsInv, RunStep
  PROVE  CountsInv'
<1>1. /\ stack \in Seq(FrameType) /\ Uncounting(stack)
      /\ Top \in FrameType /\ WellFormed(Top) /\ Top.pc \notin CountingCode
  BY CountFacts, TopFacts
<1>2. \A p \in PIDs : ~RunGate(p) /\ ~RunRefused(p)
  BY <1>1 DEF RunGate, RunRefused, At, CountingCode
<1>3. CASE RunCall
  <2> DEFINE f == [Top EXCEPT !.pc = "ungate"]
  <2>1. /\ stack' = IF state[Top.level] # 0 THEN Append(stack, TaskFrame(Top.level)) ELSE WithTop(f)
        /\ UNCHANGED <<cnt, aborts>> /\ Top.level \in PIDs
    BY <1>1, <1>3 DEF RunCall, At, WellFormed, history
  <2>2. f \in FrameType /\ f.pc \notin CountingCode
    BY <1>1 DEF FrameType, CountingCode
  <2> HIDE DEF f
  <2>3. Uncounting(WithTop(f)) /\ Uncounting(Append(stack, TaskFrame(Top.level)))
    BY <1>1, <2>1, <2>2, CountFacts, TaskOnTopCounts
  <2>4. Uncounting(stack')
    BY <2>1, <2>3
  <2> QED BY <2>1, <2>4, StackCounts
<1>4. CASE RunUngate
  <2> DEFINE f == [Top EXCEPT !.pc = "return", !.level = 0, !.load = 0]
  <2>1. stack' = WithTop(f) /\ UNCHANGED <<cnt, aborts>>
    BY <1>4 DEF RunUngate, history
  <2>2. f \in FrameType /\ f.pc \notin CountingCode
    BY <1>1 DEF FrameType, CountingCode
  <2> HIDE DEF f
  <2>3. Uncounting(stack')
    BY <2>1, <2>2, CountFacts
  <2> QED BY <2>1, <2>3, StackCounts
<1> QED BY <1>2, <1>3, <1>4 DEF RunStep

LEMMA SuspendCounts ==
  ASSUME IInv, CountsInv, SuspendStep
  PROVE  CountsInv'
<1>1. Uncounting(stack)
  BY CountFacts
<1>2. ASSUME NEW p \in PIDs, OsSuspend(p) PROVE CountsInv'
  BY <1>1, <1>2, StackCounts DEF OsSuspend
<1>3. ASSUME NEW p \in PIDs, UserSuspend(p) PROVE CountsInv'
  <2>1. CASE <<Top.pid, p>> \in SuspendPermissions
    BY <1>1, <1>3, <2>1, StackCounts DEF UserSuspend
  <2>2. CASE <<Top.pid, p>> \notin SuspendPermissions
    <3>1. LeaveTask("err", {"badArg"}) /\ IsUser(Top)
      BY <1>3, <2>2, TopFacts DEF UserSuspend
    <3>2. {"badArg"} \in {{}, {"badArg"}, {"other"}} /\ "err" \in {"ok", "err"}
      OBVIOUS
    <3> QED BY <3>1, <3>2, LeaveCounts
  <2> QED BY <2>1, <2>2
<1> QED BY <1>2, <1>3 DEF SuspendStep

LEMMA InitCounts == Init => CountsInv
<1> SUFFICES ASSUME Init PROVE CountsInv
  OBVIOUS
<1>1. [Frame EXCEPT !.pc = "init"].pc = "init"
  BY BlankFrame DEF FrameType
<1>2. Len(stack) = 1 /\ stack[1].pc = "init"
  BY <1>1 DEF Init
<1>3. \A d \in 1..Len(stack) : stack[d].pc \notin {"gate", "trigger", "count", "total"}
  BY <1>2
<1>4. ASSUME NEW p \in PIDs
      PROVE  cnt[p].total = 0 /\ cnt[p].badArg = 0 /\ cnt[p].other = 0 /\ aborts[p] = 0
  BY DEF Init, Counters
<1>5. 0 = (IF 0 + 0 < MaxCount THEN 0 + 0 ELSE MaxCount)
  BY LevelAssumption
<1> QED BY <1>3, <1>4, <1>5 DEF CountsInv

LEMMA StepCounts ==
  ASSUME IInv, CountsInv, Services = {}, [Next]_vars
  PROVE  CountsInv'
<1>1. CASE UNCHANGED vars
  <2>1. UNCHANGED <<stack, cnt, aborts>> /\ Uncounting(stack)
    BY <1>1, CountFacts DEF vars
  <2> QED BY <2>1, StackCounts
<1> QED BY <1>1, StartCounts, TaskCounts, IrqCounts, CallCounts, RunCounts, SuspendCounts DEF Next

LEMMA CountsFollow ==
  ASSUME IInv, CountsInv
  PROVE  EveryFailureCounts
BY TypesFollow DEF CountsInv, EveryFailureCounts

(* The total of failures of a process is the number of its failed tasks    *)
(* and the sum of the failures by cause, all up to saturation, whatever    *)
(* preempts and aborts its tasks. Full system call handlers count while    *)
(* interrupts are enabled; the theorem is about tasks that use none.       *)
THEOREM FailuresAreCounted ==
  ASSUME Services = {}
  PROVE  Spec => []EveryFailureCounts
<1>1. Init => IInv /\ CountsInv
  BY InitHolds, InitCounts
<1>2. IInv /\ CountsInv /\ [Next]_vars => IInv' /\ CountsInv'
  BY StepKeeps, StepCounts
<1>3. IInv /\ CountsInv => EveryFailureCounts
  BY CountsFollow
<1> QED BY <1>1, <1>2, <1>3, PTL DEF Spec
=============================================================================
