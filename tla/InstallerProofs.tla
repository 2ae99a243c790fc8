--------------------------- MODULE InstallerProofs ---------------------------
(***************************************************************************)
(* Theorems about the installer, for any catalog, requirements, processes, *)
(* requests and faults.                                                    *)
(***************************************************************************)
EXTENDS Installer, Integers, SequenceTheorems, TLAPS

------------------------------------------------------------------------------
(***************************************************************************)
(* A process: its stack s of calls, and what it overlapped.                *)
(***************************************************************************)
Past == {"deps", "download", "open", "extract", "post"}

\* An uninstall is a call of its own; a call that waits is at its dependencies,
\* and one that goes past them has none left.
Sound(s) ==
    \A k \in DOMAIN s :
        /\ s[k].pc \in Uninstall <=> s[k].kind = "uninstall"
        /\ s[k].kind = "uninstall" => Len(s) = 1
        /\ k > 1 => s[k].pc = "deps"
        /\ s[k].pc \in Past \ {"deps"} => s[k].todo = {}

\* What a call requires is in have, still to do, or being installed by the call
\* it waits for.
Needs(s, have) ==
    \A k \in DOMAIN s : s[k].pc \in Past =>
        \A d \in Requires[s[k].id] :
            d \in have \/ d \in s[k].todo \/ (k > 1 /\ d = s[k - 1].id)

\* The entries that do not require themselves; no other is ever installed, as a
\* call would wait for itself.
Selfless == {i \in Plugins : i \notin Requires[i]}

On(q, pcs, i) == ~Idle(q) /\ Id(q) = i /\ Top(q).pc \in pcs
Someone(pcs, i) == \E q \in Procs : On(q, pcs, i)

StacksAreSound == \A p \in Procs : Sound(stack[p]) /\ Needs(stack[p], Selfless)

\* Two that are at work know of each other.
KnowEachOther ==
    \A p, q \in Procs : p # q /\ ~Idle(p) /\ ~Idle(q) => Kind(q) \in beside[p]

\* Beside no uninstall, what a call has found installed stays so.
NeedsAreRecorded ==
    \A p \in Procs : "uninstall" \notin beside[p] => Needs(stack[p], recorded)

\* Beside nobody, an uninstall goes on only while no row requires its entry.
NothingRequiresIt ==
    \A p \in Procs : (At(p, "remove") \/ At(p, "forget")) /\ beside[p] = {} =>
        \A e \in recorded : Id(p) \notin Requires[e]

RowsAreSelfless == recorded \subseteq Selfless

\* Beside nobody, an archive grows, and is whole when it is opened.
ArchiveInHand ==
    \A p \in Procs : beside[p] = {} =>
        /\ At(p, "download") => tmp[Id(p)] = "part"
        /\ At(p, "open") => tmp[Id(p)] = "whole"

\* An entry that is about to be recorded is whole, or in the hands of one that
\* makes it whole or spoils it.
AboutToBeTrue ==
    \A p \in Procs : At(p, "post") /\ Id(p) \notin spoiled =>
        disk[Id(p)] = "whole" \/ Someone({"extract", "remove"}, Id(p))

RowIsTrue ==
    \A i \in recorded \ spoiled :
        disk[i] = "whole" \/ Someone({"extract", "remove", "forget"}, i)

IInv ==
    /\ TypeOK /\ StacksAreSound /\ KnowEachOther /\ NeedsAreRecorded /\ NothingRequiresIt
    /\ RowsAreSelfless /\ ArchiveInHand /\ AboutToBeTrue /\ RowIsTrue

------------------------------------------------------------------------------
(***************************************************************************)
(* The three things that a step does with a stack: it changes the call on  *)
(* top, returns from it, or calls.                                         *)
(***************************************************************************)
LEMMA FirstCall ==
    ASSUME NEW s \in Seq(Frame), s # << >>
    PROVE  /\ Len(s) \in Nat \ {0} /\ 1 \in DOMAIN s /\ DOMAIN s = 1..Len(s)
           /\ Head(s) = s[1] /\ Head(s) \in Frame /\ s[Len(s)] \in Frame
OBVIOUS

LEMMA TopChanges ==
    ASSUME NEW s \in Seq(Frame), s # << >>, NEW f \in Frame, NEW t, t = <<f>> \o Tail(s)
    PROVE  /\ t \in Seq(Frame) /\ t # << >> /\ Len(t) = Len(s)
           /\ t[1] = f /\ Head(t) = f
           /\ \A k \in 2..Len(s) : t[k] = s[k]
<1>1. Tail(s) \in Seq(Frame) /\ Len(Tail(s)) = Len(s) - 1 /\ Len(s) \in Nat \ {0}
  OBVIOUS
<1>2. <<f>> \in Seq(Frame) /\ Len(<<f>>) = 1
  OBVIOUS
<1>3. t \in Seq(Frame) /\ Len(t) = Len(s)
  BY <1>1, <1>2
<1>4. t[1] = f
  BY <1>1, <1>2
<1>5. ASSUME NEW k \in 2..Len(s) PROVE t[k] = s[k]
  <2>1. t[k] = Tail(s)[k - 1]
    BY <1>1, <1>2
  <2>2. Tail(s)[k - 1] = s[k]
    BY <1>1
  <2> QED BY <2>1, <2>2
<1> QED BY <1>1, <1>3, <1>4, <1>5

LEMMA TopReturns ==
    ASSUME NEW s \in Seq(Frame), s # << >>, NEW t, t = Tail(s)
    PROVE  /\ t \in Seq(Frame) /\ Len(t) = Len(s) - 1
           /\ \A k \in 1..Len(t) : t[k] = s[k + 1]
OBVIOUS

\* Two calls in the place of the first.
Called(s, c, f) == <<c>> \o <<f>> \o Tail(s)

CalledFrom(t, s, c, f) ==
    /\ t \in Seq(Frame) /\ t # << >> /\ Len(t) = Len(s) + 1
    /\ t[1] = c /\ Head(t) = c /\ t[2] = f
    /\ \A k \in 3..Len(s) + 1 : t[k] = s[k - 1]

LEMMA TopCalls ==
    ASSUME NEW s \in Seq(Frame), s # << >>, NEW f \in Frame, NEW c \in Frame
    PROVE  CalledFrom(Called(s, c, f), s, c, f)
<1>1. Tail(s) \in Seq(Frame) /\ Len(Tail(s)) = Len(s) - 1 /\ Len(s) \in Nat \ {0}
  OBVIOUS
<1> DEFINE q == <<c>> \o <<f>>
<1>2. q \in Seq(Frame) /\ Len(q) = 2 /\ q[1] = c /\ q[2] = f
  OBVIOUS
<1>3. Called(s, c, f) = q \o Tail(s)
  BY DEF Called
<1> HIDE DEF q
<1> DEFINE t == q \o Tail(s)
<1>4. /\ t \in Seq(Frame) /\ Len(t) = Len(q) + Len(Tail(s))
      /\ \A k \in 1..Len(q) + Len(Tail(s)) :
            t[k] = IF k <= Len(q) THEN q[k] ELSE Tail(s)[k - Len(q)]
  BY <1>1, <1>2, ConcatProperties
<1> HIDE DEF t
<1>5. Len(t) = Len(s) + 1 /\ t[1] = c /\ t[2] = f
  BY <1>1, <1>2, <1>4
<1>6. ASSUME NEW k \in 3..Len(s) + 1 PROVE t[k] = s[k - 1]
  <2>1. t[k] = Tail(s)[k - 2]
    BY <1>1, <1>2, <1>4
  <2>2. Tail(s)[k - 2] = s[k - 1]
    BY <1>1
  <2> QED BY <2>1, <2>2
<1>7. t # << >> /\ Head(t) = t[1]
  BY <1>1, <1>4, <1>5
<1>8. CalledFrom(t, s, c, f)
  BY <1>4, <1>5, <1>6, <1>7 DEF CalledFrom
<1> QED BY <1>3, <1>8 DEF t

\* The call that began a process keeps its kind.
SameKind(s, t) == t # << >> => t[Len(t)].kind = s[Len(s)].kind

LEMMA ChangeIsSound ==
    ASSUME NEW s \in Seq(Frame), s # << >>, NEW f \in Frame, NEW t, t = <<f>> \o Tail(s),
           Sound(s), f.kind = s[1].kind, f.id = s[1].id, f.pc \in Uninstall <=> s[1].pc \in Uninstall,
           f.pc \in Past \ {"deps"} => f.todo = {}
    PROVE  Sound(t) /\ SameKind(s, t)
<1>1. /\ t \in Seq(Frame) /\ t # << >> /\ Len(t) = Len(s) /\ t[1] = f
      /\ \A k \in 2..Len(s) : t[k] = s[k]
  BY TopChanges
<1>2. DOMAIN t = 1..Len(s) /\ DOMAIN s = 1..Len(s) /\ Len(s) \in Nat \ {0} /\ 1 \in DOMAIN s
  BY <1>1
<1>3. Sound(t)
  <2> SUFFICES ASSUME NEW k \in 1..Len(s)
               PROVE  /\ t[k].pc \in Uninstall <=> t[k].kind = "uninstall"
                      /\ t[k].kind = "uninstall" => Len(t) = 1
                      /\ k > 1 => t[k].pc = "deps"
                      /\ t[k].pc \in Past \ {"deps"} => t[k].todo = {}
    BY <1>2 DEF Sound
  <2>1. CASE k = 1
    BY <1>1, <1>2, <2>1 DEF Sound
  <2>2. CASE k # 1
    <3>1. t[k] = s[k] /\ k \in DOMAIN s
      BY <1>1, <1>2, <2>2
    <3> QED BY <1>1, <3>1 DEF Sound
  <2> QED BY <2>1, <2>2
<1>4. SameKind(s, t)
  <2>1. CASE Len(s) = 1
    BY <1>1, <2>1 DEF SameKind
  <2>2. CASE Len(s) # 1
    BY <1>1, <1>2, <2>2 DEF SameKind
  <2> QED BY <2>1, <2>2
<1> QED BY <1>3, <1>4

LEMMA ChangeNeeds ==
    ASSUME NEW s \in Seq(Frame), s # << >>, NEW f \in Frame, NEW t, t = <<f>> \o Tail(s),
           NEW have, Needs(s, have), f.id = s[1].id,
           f.pc \in Past => \A d \in Requires[f.id] : d \in have \/ d \in f.todo
    PROVE  Needs(t, have)
<1>1. /\ t \in Seq(Frame) /\ Len(t) = Len(s) /\ t[1] = f
      /\ \A k \in 2..Len(s) : t[k] = s[k]
  BY TopChanges
<1>2. DOMAIN t = 1..Len(s) /\ DOMAIN s = 1..Len(s) /\ Len(s) \in Nat
  BY <1>1
<1> SUFFICES ASSUME NEW k \in 1..Len(s), t[k].pc \in Past, NEW d \in Requires[t[k].id]
             PROVE  d \in have \/ d \in t[k].todo \/ (k > 1 /\ d = t[k - 1].id)
  BY <1>2 DEF Needs
<1>3. CASE k = 1
  BY <1>1, <1>3
<1>4. CASE k # 1
  <2>1. t[k] = s[k] /\ k \in DOMAIN s /\ k > 1
    BY <1>1, <1>2, <1>4
  <2>2. t[k - 1].id = s[k - 1].id
    <3>1. CASE k = 2
      BY <1>1, <3>1
    <3>2. CASE k # 2
      <4>1. k - 1 \in 2..Len(s)
        BY <2>1, <1>2, <3>2
      <4> QED BY <1>1, <4>1
    <3> QED BY <3>1, <3>2
  <2> QED BY <2>1, <2>2 DEF Needs
<1> QED BY <1>3, <1>4

LEMMA ReturnIsSound ==
    ASSUME NEW s \in Seq(Frame), s # << >>, NEW t, t = Tail(s), Sound(s)
    PROVE  Sound(t) /\ SameKind(s, t) /\ (t # << >> => Head(t).pc = "deps")
<1>1. /\ t \in Seq(Frame) /\ Len(t) = Len(s) - 1 /\ Len(s) \in Nat \ {0}
      /\ \A k \in 1..Len(t) : t[k] = s[k + 1]
  BY TopReturns
<1>2. DOMAIN t = 1..Len(t) /\ DOMAIN s = 1..Len(s)
  BY <1>1
<1>3. ASSUME NEW k \in 1..Len(t)
      PROVE  /\ t[k].pc \in Uninstall <=> t[k].kind = "uninstall"
             /\ t[k].kind = "uninstall" => Len(t) = 1
             /\ t[k].pc = "deps"
             /\ t[k].pc \in Past \ {"deps"} => t[k].todo = {}
  <2>1. t[k] = s[k + 1] /\ k + 1 \in DOMAIN s /\ k + 1 > 1 /\ Len(s) # 1
    BY <1>1, <1>2
  <2> QED BY <2>1 DEF Sound
<1>4. Sound(t)
  BY <1>2, <1>3 DEF Sound
<1>5. t # << >> => Len(t) \in 1..Len(t) /\ 1 \in 1..Len(t) /\ Head(t) = t[1]
  BY <1>1
<1>6. SameKind(s, t)
  BY <1>1, <1>5 DEF SameKind
<1> QED BY <1>3, <1>4, <1>5, <1>6

LEMMA ReturnNeeds ==
    ASSUME NEW s \in Seq(Frame), s # << >>, NEW t, t = Tail(s), NEW have, Needs(s, have),
           s[1].id \in have
    PROVE  Needs(t, have)
<1>1. /\ t \in Seq(Frame) /\ Len(t) = Len(s) - 1 /\ Len(s) \in Nat \ {0}
      /\ \A k \in 1..Len(t) : t[k] = s[k + 1]
  BY TopReturns
<1>2. DOMAIN t = 1..Len(t) /\ DOMAIN s = 1..Len(s)
  BY <1>1
<1> SUFFICES ASSUME NEW k \in 1..Len(t), t[k].pc \in Past, NEW d \in Requires[t[k].id]
             PROVE  d \in have \/ d \in t[k].todo \/ (k > 1 /\ d = t[k - 1].id)
  BY <1>2 DEF Needs
<1>3. t[k] = s[k + 1] /\ k + 1 \in DOMAIN s /\ (k + 1) - 1 = k
  BY <1>1, <1>2
<1>4. d \in have \/ d \in t[k].todo \/ d = s[k].id
  BY <1>3 DEF Needs
<1>5. CASE k = 1
  BY <1>4, <1>5
<1>6. CASE k # 1
  <2>1. k - 1 \in 1..Len(t) /\ (k - 1) + 1 = k /\ k > 1
    BY <1>1, <1>6
  <2> QED BY <1>1, <1>4, <2>1
<1> QED BY <1>5, <1>6

LEMMA CallIsSound ==
    ASSUME NEW s \in Seq(Frame), s # << >>, NEW f \in Frame, NEW c \in Frame,
           NEW t, t = Called(s, c, f),
           Sound(s), f.pc = "deps", s[1].pc = "deps", f.kind = s[1].kind,
           c.pc = "begin", c.kind = "nested"
    PROVE  Sound(t) /\ SameKind(s, t)
<1>1. /\ t \in Seq(Frame) /\ t # << >> /\ Len(t) = Len(s) + 1 /\ t[1] = c /\ t[2] = f
      /\ \A k \in 3..Len(s) + 1 : t[k] = s[k - 1]
  <2>1. CalledFrom(t, s, c, f)
    BY TopCalls
  <2> QED BY <2>1 DEF CalledFrom
<1>2. DOMAIN t = 1..Len(t) /\ DOMAIN s = 1..Len(s) /\ Len(s) \in Nat \ {0} /\ 1 \in DOMAIN s
  BY <1>1
<1>3. f.kind # "uninstall"
  BY <1>2 DEF Sound, Uninstall
<1>4. ASSUME NEW k \in 3..Len(t)
      PROVE  t[k] = s[k - 1] /\ k - 1 \in DOMAIN s /\ k - 1 > 1 /\ Len(s) # 1
  BY <1>1, <1>2
<1>5. Sound(t)
  <2> SUFFICES ASSUME NEW k \in 1..Len(t)
               PROVE  /\ t[k].pc \in Uninstall <=> t[k].kind = "uninstall"
                      /\ t[k].kind = "uninstall" => Len(t) = 1
                      /\ k > 1 => t[k].pc = "deps"
                      /\ t[k].pc \in Past \ {"deps"} => t[k].todo = {}
    BY <1>2 DEF Sound
  <2>1. CASE k = 1
    BY <1>1, <2>1 DEF Uninstall, Past
  <2>2. CASE k = 2
    BY <1>1, <1>3, <2>2 DEF Uninstall, Past
  <2>3. CASE k \in 3..Len(t)
    BY <1>4, <2>3 DEF Sound
  <2> QED BY <1>1, <1>2, <2>1, <2>2, <2>3
<1>6. SameKind(s, t)
  <2>1. CASE Len(s) = 1
    BY <1>1, <2>1 DEF SameKind
  <2>2. CASE Len(s) # 1
    <3>1. Len(t) \in 3..Len(t) /\ Len(t) - 1 = Len(s)
      BY <1>1, <1>2, <2>2
    <3> QED BY <1>1, <3>1 DEF SameKind
  <2> QED BY <2>1, <2>2
<1> QED BY <1>5, <1>6

LEMMA CallNeeds ==
    ASSUME NEW s \in Seq(Frame), s # << >>, NEW f \in Frame, NEW c \in Frame,
           NEW t, t = Called(s, c, f), NEW have, Needs(s, have),
           s[1].pc = "deps", c.pc = "begin", f.id = s[1].id, f.todo = s[1].todo \ {c.id}
    PROVE  Needs(t, have)
<1>1. /\ t \in Seq(Frame) /\ t # << >> /\ Len(t) = Len(s) + 1 /\ t[1] = c /\ t[2] = f
      /\ \A k \in 3..Len(s) + 1 : t[k] = s[k - 1]
  <2>1. CalledFrom(t, s, c, f)
    BY TopCalls
  <2> QED BY <2>1 DEF CalledFrom
<1>2. DOMAIN t = 1..Len(t) /\ DOMAIN s = 1..Len(s) /\ Len(s) \in Nat \ {0} /\ 1 \in DOMAIN s
  BY <1>1
<1> SUFFICES ASSUME NEW k \in 1..Len(t), t[k].pc \in Past, NEW d \in Requires[t[k].id]
             PROVE  d \in have \/ d \in t[k].todo \/ (k > 1 /\ d = t[k - 1].id)
  BY <1>2 DEF Needs
<1>3. CASE k = 1
  BY <1>1, <1>3 DEF Past
<1>4. CASE k = 2
  <2>1. s[1].pc \in Past /\ d \in Requires[s[1].id]
    BY <1>1, <1>4 DEF Past
  <2>2. d \in have \/ d \in s[1].todo
    BY <1>2, <2>1 DEF Needs
  <2>3. d \in have \/ d \in t[2].todo \/ d = t[1].id
    BY <1>1, <2>2
  <2> QED BY <1>4, <2>3
<1>5. CASE k \in 3..Len(t)
  <2>1. t[k] = s[k - 1] /\ k - 1 \in DOMAIN s /\ k - 1 > 1 /\ k > 1
    BY <1>1, <1>2, <1>5
  <2>2. d \in have \/ d \in t[k].todo \/ d = s[(k - 1) - 1].id
    BY <2>1 DEF Needs
  <2>3. s[(k - 1) - 1].id = t[k - 1].id
    <3>1. CASE k = 3
      BY <1>1, <3>1
    <3>2. CASE k # 3
      <4>1. k - 1 \in 3..Len(t)
        BY <1>1, <1>2, <1>5, <3>2
      <4> QED BY <1>1, <4>1
    <3> QED BY <3>1, <3>2
  <2> QED BY <2>1, <2>2, <2>3
<1> QED BY <1>1, <1>2, <1>3, <1>4, <1>5

------------------------------------------------------------------------------
(***************************************************************************)
(* What one process's step does to the others: a call that goes on, with   *)
(* the stack t after it.                                                   *)
(***************************************************************************)
LEMMA Initially == Init => IInv
<1> SUFFICES ASSUME Init PROVE IInv
  OBVIOUS
<1> USE DEF Init
<1>1. \A p \in Procs : Idle(p) /\ stack[p] = << >> /\ beside[p] = {}
  BY DEF Idle
<1>2. << >> \in Seq(Frame) /\ DOMAIN << >> = {}
  OBVIOUS
<1>3. TypeOK
  BY <1>2 DEF TypeOK
<1>4. Sound(<< >>) /\ Needs(<< >>, Selfless) /\ Needs(<< >>, recorded)
  BY <1>2 DEF Sound, Needs
<1>5. StacksAreSound /\ NeedsAreRecorded
  BY <1>1, <1>4 DEF StacksAreSound, NeedsAreRecorded
<1>6. KnowEachOther /\ NothingRequiresIt /\ ArchiveInHand /\ AboutToBeTrue
  BY <1>1 DEF KnowEachOther, NothingRequiresIt, ArchiveInHand, AboutToBeTrue, At
<1>7. RowsAreSelfless /\ RowIsTrue
  BY DEF RowsAreSelfless, RowIsTrue
<1> QED BY <1>3, <1>5, <1>6, <1>7 DEF IInv

LEMMA AtWork ==
    ASSUME TypeOK, StacksAreSound, NEW p \in Procs, ~Idle(p)
    PROVE  /\ stack[p] \in Seq(Frame) /\ stack[p] # << >>
           /\ Top(p) = stack[p][1] /\ Top(p) \in Frame /\ Id(p) \in Plugins
           /\ Sound(stack[p]) /\ Needs(stack[p], Selfless)
           /\ Top(p).pc \in Past \ {"deps"} => Top(p).todo = {}
           /\ Top(p).pc \in Uninstall => /\ Tail(stack[p]) = << >>
                                         /\ Kind(p) = "uninstall"
           /\ Top(p).pc \notin Uninstall => Kind(p) = "install"
<1>1. stack[p] \in Seq(Frame) /\ stack[p] # << >>
  BY DEF TypeOK, Idle
<1>2. /\ Len(stack[p]) \in Nat \ {0} /\ 1 \in DOMAIN stack[p]
      /\ DOMAIN stack[p] = 1..Len(stack[p])
      /\ Head(stack[p]) = stack[p][1] /\ Head(stack[p]) \in Frame
  BY <1>1, FirstCall
<1>3. Top(p) = stack[p][1] /\ Top(p) \in Frame /\ Id(p) \in Plugins
  BY <1>2 DEF Top, Id, Frame
<1>4. Sound(stack[p]) /\ Needs(stack[p], Selfless)
  BY DEF StacksAreSound
<1>5. Top(p).pc \in Past \ {"deps"} => Top(p).todo = {}
  BY <1>2, <1>3, <1>4 DEF Sound
<1>6. ASSUME Top(p).pc \in Uninstall PROVE Tail(stack[p]) = << >> /\ Kind(p) = "uninstall"
  <2>1. Top(p).kind = "uninstall" /\ Len(stack[p]) = 1
    BY <1>2, <1>3, <1>4, <1>6 DEF Sound
  <2>2. Tail(stack[p]) = << >>
    <3>1. Tail(stack[p]) \in Seq(Frame) /\ Len(Tail(stack[p])) = 0
      BY <1>1, <2>1
    <3> QED BY <3>1, EmptySeq
  <2>3. Outermost(p) = Top(p)
    BY <1>3, <2>1 DEF Outermost
  <2> QED BY <2>1, <2>2, <2>3 DEF Kind
<1>7. ASSUME Top(p).pc \notin Uninstall PROVE Kind(p) = "install"
  <2>1. Top(p).kind # "uninstall"
    BY <1>2, <1>3, <1>4, <1>7 DEF Sound
  <2>2. Outermost(p).kind # "uninstall"
    <3>1. Len(stack[p]) \in DOMAIN stack[p]
      BY <1>2
    <3>2. Outermost(p).kind = "uninstall" => Len(stack[p]) = 1
      BY <3>1, <1>4 DEF Sound, Outermost
    <3> QED BY <1>3, <2>1, <3>2 DEF Outermost
  <2> QED BY <2>2 DEF Kind
<1> QED BY <1>1, <1>3, <1>4, <1>5, <1>6, <1>7

LEMMA OneContinues ==
    ASSUME TypeOK, NEW p \in Procs, NEW t \in Seq(Frame), Continue(p, t)
    PROVE  /\ stack' \in [Procs -> Seq(Frame)]
           /\ beside' \in [Procs -> SUBSET {"install", "uninstall"}]
           /\ stack'[p] = t /\ beside'[p] = IF t = << >> THEN {} ELSE beside[p]
           /\ \A q \in Procs \ {p} : stack'[q] = stack[q] /\ beside'[q] = beside[q]
BY DEF TypeOK, Continue

LEMMA StacksStep ==
    ASSUME IInv, NEW p \in Procs, ~Idle(p), NEW t \in Seq(Frame), Continue(p, t),
           Sound(t), SameKind(stack[p], t), Needs(t, Selfless), recorded' \subseteq Selfless,
           Kind(p) = "uninstall" \/ recorded \subseteq recorded',
           "uninstall" \notin beside[p] => Needs(t, recorded')
    PROVE  StacksAreSound' /\ KnowEachOther' /\ NeedsAreRecorded' /\ RowsAreSelfless'
<1>1. /\ stack'[p] = t /\ beside'[p] = IF t = << >> THEN {} ELSE beside[p]
      /\ \A q \in Procs \ {p} : stack'[q] = stack[q] /\ beside'[q] = beside[q]
  BY OneContinues DEF IInv
<1>2. Selfless' = Selfless
  BY DEF Selfless
<1>3. StacksAreSound'
  BY <1>1, <1>2 DEF IInv, StacksAreSound
<1>4. ASSUME NEW q \in Procs, ~Idle(q)' PROVE ~Idle(q) /\ Kind(q)' = Kind(q)
  <2>1. CASE q = p
    BY <1>1, <1>4, <2>1 DEF Idle, Kind, Outermost, SameKind
  <2>2. CASE q # p
    BY <1>1, <1>4, <2>2 DEF Idle, Kind, Outermost
  <2> QED BY <2>1, <2>2
<1>5. ASSUME NEW q \in Procs, ~Idle(q)' PROVE beside'[q] = beside[q]
  BY <1>1, <1>5 DEF Idle
<1>6. KnowEachOther'
  BY <1>4, <1>5 DEF IInv, KnowEachOther
<1>7. ASSUME NEW q \in Procs, "uninstall" \notin beside'[q] PROVE Needs(stack'[q], recorded')
  <2>1. CASE stack'[q] = << >>
    <3>1. DOMAIN << >> = {}
      OBVIOUS
    <3> QED BY <2>1, <3>1 DEF Needs
  <2>2. CASE q = p /\ stack'[q] # << >>
    BY <1>1, <1>7, <2>2
  <2>3. CASE q # p /\ stack'[q] # << >>
    <3>1. stack'[q] = stack[q] /\ beside'[q] = beside[q] /\ ~Idle(q)
      BY <1>1, <2>3 DEF Idle
    <3>2. Kind(p) \in beside[q]
      BY <2>3, <3>1 DEF IInv, KnowEachOther
    <3>3. recorded \subseteq recorded'
      BY <1>7, <3>1, <3>2
    <3>4. Needs(stack[q], recorded)
      BY <1>7, <3>1 DEF IInv, NeedsAreRecorded
    <3> QED BY <3>1, <3>3, <3>4 DEF Needs
  <2> QED BY <2>1, <2>2, <2>3
<1>8. NeedsAreRecorded'
  BY <1>7 DEF NeedsAreRecorded
<1> QED BY <1>2, <1>3, <1>6, <1>8 DEF RowsAreSelfless

TopIn(t, pcs) == t # << >> /\ Head(t).pc \in pcs

\* Who is beside nobody moves alone: only its own step matters.
LEMMA AloneStep ==
    ASSUME IInv, NEW p \in Procs, ~Idle(p), NEW t \in Seq(Frame), Continue(p, t),
           beside[p] = {} =>
              /\ TopIn(t, {"remove", "forget"}) => \A e \in recorded' : Head(t).id \notin Requires[e]
              /\ TopIn(t, {"download"}) => tmp'[Head(t).id] = "part"
              /\ TopIn(t, {"open"}) => tmp'[Head(t).id] = "whole"
    PROVE  NothingRequiresIt' /\ ArchiveInHand'
<1>1. /\ stack'[p] = t /\ beside'[p] = IF t = << >> THEN {} ELSE beside[p]
      /\ \A q \in Procs \ {p} : stack'[q] = stack[q] /\ beside'[q] = beside[q]
  BY OneContinues DEF IInv
<1>2. ASSUME NEW q \in Procs, beside'[q] = {}, ~Idle(q)' PROVE q = p /\ beside[p] = {}
  <2>1. CASE q = p
    BY <1>1, <1>2, <2>1 DEF Idle
  <2>2. CASE q # p
    <3>1. ~Idle(q) /\ beside[q] = {}
      BY <1>1, <1>2, <2>2 DEF Idle
    <3>2. Kind(p) \in beside[q]
      BY <2>2, <3>1 DEF IInv, KnowEachOther
    <3> QED BY <3>1, <3>2
  <2> QED BY <2>1, <2>2
<1>3. ~Idle(p)' => t # << >> /\ Top(p)' = Head(t) /\ Id(p)' = Head(t).id
  BY <1>1 DEF Idle, Top, Id
<1>4. NothingRequiresIt'
  BY <1>2, <1>3 DEF NothingRequiresIt, At, TopIn
<1>5. ArchiveInHand'
  BY <1>2, <1>3 DEF ArchiveInHand, At, TopIn
<1> QED BY <1>4, <1>5

\* Only one entry's files change hands: those of the call on top.
LEMMA DiskStep ==
    ASSUME IInv, NEW p \in Procs, ~Idle(p), NEW t \in Seq(Frame), Continue(p, t),
           NEW i, i = Id(p),
           TopIn(t, {"extract", "remove", "forget", "post"}) => Head(t).id = i,
           \A j \in Plugins \ {i} : /\ disk'[j] = disk[j]
                                    /\ j \in spoiled' <=> j \in spoiled
                                    /\ j \in recorded' <=> j \in recorded,
           i \notin spoiled' /\ (Elsewhere(p, i, {"post"}) \/ TopIn(t, {"post"})) =>
              \/ disk'[i] = "whole"
              \/ Elsewhere(p, i, {"extract", "remove"}) \/ TopIn(t, {"extract", "remove"}),
           i \notin spoiled' /\ i \in recorded' =>
              \/ disk'[i] = "whole"
              \/ Elsewhere(p, i, {"extract", "remove", "forget"})
              \/ TopIn(t, {"extract", "remove", "forget"}),
           recorded' \subseteq Plugins
    PROVE  AboutToBeTrue' /\ RowIsTrue'
<1>1. /\ stack'[p] = t
      /\ \A q \in Procs \ {p} : stack'[q] = stack[q]
  BY OneContinues DEF IInv
<1>2. t # << >> => ~Idle(p)' /\ Top(p)' = Head(t) /\ Id(p)' = Head(t).id
  BY <1>1 DEF Idle, Top, Id
<1>3. ~Idle(p)' => t # << >>
  BY <1>1 DEF Idle
<1>4. \A q \in Procs \ {p} : (Idle(q)' <=> Idle(q)) /\ Top(q)' = Top(q) /\ Id(q)' = Id(q)
  BY <1>1 DEF Idle, Top, Id
<1>5. ASSUME NEW pcs, pcs \subseteq {"extract", "remove", "forget"}
      PROVE  /\ \A j \in Plugins \ {i} : Someone(pcs, j) => Someone(pcs, j)'
             /\ Elsewhere(p, i, pcs) \/ TopIn(t, pcs) => Someone(pcs, i)'
  <2>1. ASSUME NEW j \in Plugins \ {i}, Someone(pcs, j) PROVE Someone(pcs, j)'
    <3>1. PICK q \in Procs : On(q, pcs, j)
      BY <2>1 DEF Someone
    <3>2. q # p
      BY <3>1 DEF On
    <3>3. On(q, pcs, j)'
      BY <1>4, <3>1, <3>2 DEF On
    <3> QED BY <3>3 DEF Someone
  <2>2. ASSUME Elsewhere(p, i, pcs) PROVE Someone(pcs, i)'
    <3>1. PICK q \in Procs \ {p} : On(q, pcs, i)
      BY <2>2 DEF Elsewhere, On
    <3>2. On(q, pcs, i)'
      BY <1>4, <3>1 DEF On
    <3> QED BY <3>2 DEF Someone
  <2>3. ASSUME TopIn(t, pcs) PROVE Someone(pcs, i)'
    <3>1. t # << >> /\ Head(t).pc \in pcs /\ Head(t).id = i
      BY <1>5, <2>3 DEF TopIn
    <3>2. On(p, pcs, i)'
      BY <1>2, <3>1 DEF On
    <3> QED BY <3>2 DEF Someone
  <2> QED BY <2>1, <2>2, <2>3
<1>6. AboutToBeTrue'
  <2> SUFFICES ASSUME NEW q \in Procs, At(q, "post")', NEW j, j = Id(q)', j \notin spoiled'
               PROVE  disk'[j] = "whole" \/ Someone({"extract", "remove"}, j)'
    BY DEF AboutToBeTrue, Someone, On
  <2>0. {"extract", "remove"} \subseteq {"extract", "remove", "forget"}
    OBVIOUS
  <2>1. CASE q = p
    <3>1. TopIn(t, {"post"}) /\ Id(p)' = i
      BY <1>2, <1>3, <2>1 DEF At, TopIn
    <3> QED BY <1>5, <2>0, <2>1, <3>1
  <2>2. CASE q # p /\ Id(q) = i
    <3>1. Elsewhere(p, i, {"post"}) /\ Id(q)' = i
      BY <1>4, <2>2 DEF Elsewhere, At
    <3> QED BY <1>5, <2>0, <3>1
  <2>3. CASE q # p /\ Id(q) # i
    <3>1. At(q, "post") /\ Id(q)' = Id(q) /\ ~Idle(q)
      BY <1>4, <2>3 DEF At
    <3>2. Id(q) \in Plugins \ {i}
      BY <2>3, <3>1, AtWork DEF IInv
    <3>3. disk[Id(q)] = "whole" \/ Someone({"extract", "remove"}, Id(q))
      BY <3>1, <3>2 DEF IInv, AboutToBeTrue
    <3> QED BY <1>5, <2>0, <3>1, <3>2, <3>3
  <2> QED BY <2>1, <2>2, <2>3
<1>7. RowIsTrue'
  <2> SUFFICES ASSUME NEW j \in recorded' \ spoiled'
               PROVE  disk'[j] = "whole" \/ Someone({"extract", "remove", "forget"}, j)'
    BY DEF RowIsTrue
  <2>1. CASE j = i
    BY <1>5, <2>1
  <2>2. CASE j # i
    <3>1. j \in Plugins \ {i} /\ j \in recorded \ spoiled
      BY <2>2
    <3>2. disk[j] = "whole" \/ Someone({"extract", "remove", "forget"}, j)
      BY <3>1 DEF IInv, RowIsTrue
    <3> QED BY <1>5, <3>1, <3>2
  <2> QED BY <2>1, <2>2
<1> QED BY <1>6, <1>7

\* What the two facts about files say, as seen from one process.
LEMMA DiskNow ==
    ASSUME IInv, NEW p \in Procs, ~Idle(p), NEW i, i = Id(p)
    PROVE  /\ i \notin spoiled /\ (Elsewhere(p, i, {"post"}) \/ At(p, "post")) =>
                 \/ disk[i] = "whole"
                 \/ Elsewhere(p, i, {"extract", "remove"}) \/ At(p, "extract") \/ At(p, "remove")
           /\ i \notin spoiled /\ i \in recorded =>
                 \/ disk[i] = "whole" \/ Elsewhere(p, i, {"extract", "remove", "forget"})
                 \/ At(p, "extract") \/ At(p, "remove") \/ At(p, "forget")
<1>1. ASSUME NEW pcs, Someone(pcs, i)
      PROVE  Elsewhere(p, i, pcs) \/ Top(p).pc \in pcs
  <2>1. PICK q \in Procs : On(q, pcs, i)
    BY <1>1 DEF Someone
  <2> QED BY <2>1 DEF On, Elsewhere
<1>2. ASSUME i \notin spoiled, Elsewhere(p, i, {"post"}) \/ At(p, "post")
      PROVE  disk[i] = "whole" \/ Someone({"extract", "remove"}, i)
  <2>1. PICK q \in Procs : At(q, "post") /\ Id(q) = i
    BY <1>2 DEF Elsewhere, At
  <2> QED BY <1>2, <2>1 DEF IInv, AboutToBeTrue
<1>3. ASSUME i \notin spoiled, i \in recorded
      PROVE  disk[i] = "whole" \/ Someone({"extract", "remove", "forget"}, i)
  BY <1>3 DEF IInv, RowIsTrue
<1> QED BY <1>1, <1>2, <1>3 DEF At

------------------------------------------------------------------------------
(***************************************************************************)
(* The steps.  First the three forms of a move, with what follows for the  *)
(* stacks; then each action of the installer.                              *)
(***************************************************************************)

\* The conditions under which a step of p to stack t keeps the invariant.
StackOK(p, t) ==
    /\ Sound(t) /\ SameKind(stack[p], t) /\ Needs(t, Selfless)
    /\ "uninstall" \notin beside[p] => Needs(t, recorded)

LEMMA ChangeOK ==
    ASSUME IInv, NEW p \in Procs, ~Idle(p), NEW f \in Frame,
           f.kind = Top(p).kind, f.id = Id(p), f.pc \in Uninstall <=> Top(p).pc \in Uninstall,
           f.pc \in Past \ {"deps"} => f.todo = {},
           f.pc \in Past => \/ Top(p).pc \in Past /\ f.todo = Top(p).todo
                          \/ f.todo = Requires[Id(p)]
    PROVE  /\ <<f>> \o Tail(stack[p]) \in Seq(Frame) /\ <<f>> \o Tail(stack[p]) # << >>
           /\ Head(<<f>> \o Tail(stack[p])) = f
           /\ StackOK(p, <<f>> \o Tail(stack[p]))
<1> DEFINE s == stack[p]
<1> DEFINE t == <<f>> \o Tail(s)
<1>1. s \in Seq(Frame) /\ s # << >> /\ Top(p) = s[1] /\ Sound(s) /\ Needs(s, Selfless)
  BY AtWork DEF IInv
<1>2. t \in Seq(Frame) /\ t # << >> /\ Head(t) = f
  BY <1>1, TopChanges
<1>3. Id(p) = s[1].id /\ 1 \in DOMAIN s
  BY <1>1 DEF Id
<1>4. ASSUME NEW have, Needs(s, have), f.pc \in Past, NEW d \in Requires[f.id]
      PROVE  d \in have \/ d \in f.todo
  <2>1. CASE f.todo = Requires[Id(p)]
    BY <1>4, <2>1
  <2>2. CASE s[1].pc \in Past /\ f.todo = s[1].todo
    BY <1>3, <1>4, <2>2 DEF Needs
  <2> QED BY <1>1, <1>4, <2>1, <2>2
<1>5. ASSUME NEW have, Needs(s, have) PROVE Needs(t, have)
  <2>1. f.pc \in Past => \A d \in Requires[f.id] : d \in have \/ d \in f.todo
    BY <1>4, <1>5
  <2> QED BY <1>1, <1>3, <1>5, <2>1, ChangeNeeds
<1>6. Sound(t) /\ SameKind(s, t)
  BY <1>1, <1>3, ChangeIsSound
<1>7. "uninstall" \notin beside[p] => Needs(t, recorded)
  BY <1>5 DEF IInv, NeedsAreRecorded
<1>8. Needs(t, Selfless)
  BY <1>1, <1>5
<1> HIDE DEF t
<1>9. StackOK(p, t)
  BY <1>6, <1>7, <1>8 DEF StackOK
<1> QED BY <1>2, <1>9 DEF t

LEMMA ReturnOK ==
    ASSUME IInv, NEW p \in Procs, ~Idle(p), Id(p) \in recorded \/ Top(p).pc \in Uninstall
    PROVE  /\ Tail(stack[p]) \in Seq(Frame)
           /\ ~TopIn(Tail(stack[p]), {"download", "open", "extract", "post", "remove", "forget"})
           /\ StackOK(p, Tail(stack[p]))
<1> DEFINE s == stack[p]
<1> DEFINE t == Tail(s)
<1>1. s \in Seq(Frame) /\ s # << >> /\ Top(p) = s[1] /\ Sound(s) /\ Needs(s, Selfless)
  BY AtWork DEF IInv
<1>2. t \in Seq(Frame) /\ Sound(t) /\ SameKind(s, t) /\ (t # << >> => Head(t).pc = "deps")
  BY <1>1, ReturnIsSound, TopReturns
<1>3. CASE Top(p).pc \in Uninstall
  <2>1. t = << >>
    BY <1>3, AtWork DEF IInv
  <2>2. DOMAIN << >> = {}
    OBVIOUS
  <2>3. Needs(t, Selfless) /\ Needs(t, recorded)
    BY <2>1, <2>2 DEF Needs
  <2> QED BY <1>2, <2>3 DEF StackOK, TopIn
<1>4. CASE Id(p) \in recorded
  <2>1. s[1].id \in recorded /\ s[1].id \in Selfless
    BY <1>1, <1>4 DEF Id, IInv, RowsAreSelfless
  <2>2. Needs(t, Selfless)
    BY <1>1, <2>1, ReturnNeeds
  <2>3. "uninstall" \notin beside[p] => Needs(t, recorded)
    BY <1>1, <2>1, ReturnNeeds DEF IInv, NeedsAreRecorded
  <2> QED BY <1>2, <2>2, <2>3 DEF StackOK, TopIn
<1> QED BY <1>3, <1>4

LEMMA UnwindOK ==
    ASSUME NEW p \in Procs
    PROVE  << >> \in Seq(Frame) /\ StackOK(p, << >>) /\ \A pcs : ~TopIn(<< >>, pcs)
<1>1. << >> \in Seq(Frame) /\ DOMAIN << >> = {}
  OBVIOUS
<1>2. Sound(<< >>) /\ SameKind(stack[p], << >>) /\ \A have : Needs(<< >>, have)
  BY <1>1 DEF Sound, SameKind, Needs
<1> QED BY <1>1, <1>2 DEF StackOK, TopIn

\* A step that leaves the files and their fate as they are.
LEMMA QuietStep ==
    ASSUME IInv, NEW p \in Procs, ~Idle(p), NEW t \in Seq(Frame), Continue(p, t), StackOK(p, t),
           UNCHANGED <<recorded, disk, spoiled>>, tmp' \in [Plugins -> {"none", "part", "whole"}],
           Top(p).pc \notin {"extract", "remove", "forget"}, ~TopIn(t, {"post", "remove", "forget"}),
           ~TopIn(t, {"extract"}),
           beside[p] = {} /\ TopIn(t, {"download"}) => tmp'[Head(t).id] = "part",
           beside[p] = {} /\ TopIn(t, {"open"}) => tmp'[Head(t).id] = "whole"
    PROVE  IInv'
<1>1. StacksAreSound' /\ KnowEachOther' /\ NeedsAreRecorded' /\ RowsAreSelfless'
  <2>1. recorded' \subseteq Selfless
    BY DEF IInv, RowsAreSelfless
  <2> QED BY <2>1, StacksStep DEF StackOK
<1>2. NothingRequiresIt' /\ ArchiveInHand'
  <2>1. ~TopIn(t, {"remove", "forget"})
    BY DEF TopIn
  <2> QED BY <2>1, AloneStep
<1>3. AboutToBeTrue' /\ RowIsTrue'
  <2> DEFINE i == Id(p)
  <2>1. ~TopIn(t, {"extract", "remove", "forget", "post"}) /\ ~TopIn(t, {"post"})
    BY DEF TopIn
  <2>2. recorded' \subseteq Plugins
    BY DEF IInv, TypeOK
  <2>3. ~At(p, "extract") /\ ~At(p, "remove") /\ ~At(p, "forget")
    BY DEF At
  <2> HIDE DEF i
  <2>4. i \notin spoiled' /\ (Elsewhere(p, i, {"post"}) \/ TopIn(t, {"post"})) =>
              disk'[i] = "whole" \/ Elsewhere(p, i, {"extract", "remove"})
    BY <2>1, <2>3, DiskNow DEF i
  <2>5. i \notin spoiled' /\ i \in recorded' =>
              disk'[i] = "whole" \/ Elsewhere(p, i, {"extract", "remove", "forget"})
    BY <2>3, DiskNow DEF i
  <2> QED BY <2>1, <2>2, <2>4, <2>5, DiskStep DEF i
<1>4. TypeOK'
  <2>1. stack' \in [Procs -> Seq(Frame)] /\ beside' \in [Procs -> SUBSET {"install", "uninstall"}]
    BY OneContinues DEF IInv
  <2> QED BY <2>1 DEF IInv, TypeOK
<1> QED BY <1>1, <1>2, <1>3, <1>4 DEF IInv

\* The call on top goes to another pc.
Moved(p, pc) == <<[Top(p) EXCEPT !.pc = pc]>> \o Tail(stack[p])

LEMMA GotoOK ==
    ASSUME IInv, NEW p \in Procs, ~Idle(p), NEW pc \in Install \union Uninstall,
           pc \in Uninstall <=> Top(p).pc \in Uninstall,
           pc \in Past \ {"deps"} => Top(p).pc \in Past /\ Top(p).todo = {},
           pc # "deps"
    PROVE  /\ Moved(p, pc) \in Seq(Frame) /\ StackOK(p, Moved(p, pc))
           /\ Moved(p, pc) # << >> /\ Head(Moved(p, pc)).pc = pc /\ Head(Moved(p, pc)).id = Id(p)
<1> DEFINE f == [Top(p) EXCEPT !.pc = pc]
<1>1. Top(p) \in Frame
  BY AtWork DEF IInv
<1>2. f \in Frame /\ f.pc = pc /\ f.id = Id(p) /\ f.kind = Top(p).kind /\ f.todo = Top(p).todo
  BY <1>1 DEF Frame, Id
<1> HIDE DEF f
<1>3. pc \in Past => pc \in Past \ {"deps"}
  OBVIOUS
<1>4. f.pc \in Past => \/ Top(p).pc \in Past /\ f.todo = Top(p).todo
                       \/ f.todo = Requires[Id(p)]
  BY <1>2, <1>3
<1>5. f.pc \in Past \ {"deps"} => f.todo = {}
  BY <1>2
<1>6. /\ <<f>> \o Tail(stack[p]) \in Seq(Frame) /\ <<f>> \o Tail(stack[p]) # << >>
      /\ Head(<<f>> \o Tail(stack[p])) = f /\ StackOK(p, <<f>> \o Tail(stack[p]))
  BY <1>2, <1>4, <1>5, ChangeOK
<1>7. Moved(p, pc) = <<f>> \o Tail(stack[p])
  BY DEF f, Moved
<1> QED BY <1>2, <1>6, <1>7

LEMMA AlreadyInstalledStep ==
    ASSUME IInv, NEW p \in Procs, AlreadyInstalled(p)
    PROVE  IInv'
<1> DEFINE t == Tail(stack[p])
<1>1. /\ ~Idle(p) /\ Top(p).pc = "begin" /\ Id(p) \in recorded /\ Continue(p, t)
      /\ UNCHANGED <<recorded, disk, tmp, spoiled>>
  BY DEF AlreadyInstalled, At, Return
<1>2. /\ t \in Seq(Frame) /\ StackOK(p, t)
      /\ ~TopIn(t, {"download", "open", "extract", "post", "remove", "forget"})
  BY <1>1, ReturnOK
<1>3. tmp' \in [Plugins -> {"none", "part", "whole"}]
  BY <1>1 DEF IInv, TypeOK
<1> HIDE DEF t
<1>4. /\ ~TopIn(t, {"post", "remove", "forget"}) /\ ~TopIn(t, {"extract"})
      /\ ~TopIn(t, {"download"}) /\ ~TopIn(t, {"open"})
  BY <1>2 DEF TopIn
<1> QED BY <1>1, <1>2, <1>3, <1>4, QuietStep

LEMMA FailStep ==
    ASSUME IInv, NEW p \in Procs, ResolveFails(p) \/ DownloadFails(p) \/ PostInstallFails(p)
    PROVE  IInv'
<1>1. /\ ~Idle(p) /\ Top(p).pc \in {"begin", "download", "post"} /\ Continue(p, << >>)
      /\ UNCHANGED <<recorded, disk, spoiled>>
  BY DEF ResolveFails, DownloadFails, PostInstallFails, At, Unwind
<1>2. tmp' = tmp \/ tmp' = [tmp EXCEPT ![Id(p)] = "none"]
  BY DEF ResolveFails, DownloadFails, PostInstallFails
<1>3. tmp' \in [Plugins -> {"none", "part", "whole"}]
  BY <1>2 DEF IInv, TypeOK
<1>4. << >> \in Seq(Frame) /\ StackOK(p, << >>) /\ \A pcs : ~TopIn(<< >>, pcs)
  BY UnwindOK
<1> QED BY <1>1, <1>3, <1>4, QuietStep

LEMMA ResolveStep ==
    ASSUME IInv, NEW p \in Procs, Resolve(p)
    PROVE  IInv'
<1> DEFINE f == [Top(p) EXCEPT !.pc = "deps", !.todo = Requires[Id(p)]]
<1> DEFINE t == <<f>> \o Tail(stack[p])
<1>1. /\ ~Idle(p) /\ Top(p).pc = "begin" /\ Continue(p, t)
      /\ UNCHANGED <<recorded, disk, tmp, spoiled>>
  BY DEF Resolve, At
<1>2. Top(p) \in Frame /\ Id(p) \in Plugins
  BY <1>1, AtWork DEF IInv
<1>3. Requires[Id(p)] \in SUBSET Plugins
  BY <1>2, RequiresAssumption
<1>4. /\ f \in Frame /\ f.pc = "deps" /\ f.id = Id(p) /\ f.kind = Top(p).kind
      /\ f.todo = Requires[Id(p)]
  BY <1>2, <1>3 DEF Frame, Id, Install
<1> HIDE DEF f
<1>5. f.pc \notin Uninstall /\ Top(p).pc \notin Uninstall
  BY <1>1, <1>4 DEF Uninstall
<1>6. t \in Seq(Frame) /\ t # << >> /\ Head(t) = f /\ StackOK(p, t)
  BY <1>1, <1>4, <1>5, ChangeOK
<1>7. tmp' \in [Plugins -> {"none", "part", "whole"}]
  BY <1>1 DEF IInv, TypeOK
<1> HIDE DEF t
<1>8. /\ ~TopIn(t, {"post", "remove", "forget"}) /\ ~TopIn(t, {"extract"})
      /\ ~TopIn(t, {"download"}) /\ ~TopIn(t, {"open"})
  BY <1>4, <1>6 DEF TopIn
<1> QED BY <1>1, <1>6, <1>7, <1>8, QuietStep

LEMMA DependencyStep ==
    ASSUME IInv, NEW p \in Procs, NEW dep \in Plugins, Dependency(p, dep)
    PROVE  IInv'
<1> DEFINE s == stack[p]
<1> DEFINE f == [Top(p) EXCEPT !.todo = Top(p).todo \ {dep}]
<1> DEFINE c == Call(dep, "begin", FALSE, "nested")
<1>1. /\ ~Idle(p) /\ Top(p).pc = "deps" /\ UNCHANGED <<recorded, disk, tmp, spoiled>>
      /\ Continue(p, (IF dep \in recorded THEN << >> ELSE <<c>>) \o <<f>> \o Tail(s))
  BY DEF Dependency, At
<1>2. /\ s \in Seq(Frame) /\ s # << >> /\ Top(p) = s[1] /\ Top(p) \in Frame
      /\ Sound(s) /\ Needs(s, Selfless)
  BY <1>1, AtWork DEF IInv
<1>3. /\ f \in Frame /\ f.pc = "deps" /\ f.id = s[1].id /\ f.kind = s[1].kind
      /\ f.todo = s[1].todo \ {dep}
  BY <1>1, <1>2 DEF Frame
<1>4. c \in Frame /\ c.pc = "begin" /\ c.id = dep /\ c.kind = "nested"
  BY DEF Call, Frame, Install
<1> HIDE DEF f, c
<1>5. PICK t \in Seq(Frame) : /\ Continue(p, t) /\ StackOK(p, t)
                              /\ t # << >> /\ Head(t).pc \in {"begin", "deps"}
  <2>1. CASE dep \in recorded
    <3> DEFINE t == <<f>> \o Tail(s)
    <3>1. << >> \o <<f>> = <<f>>
      OBVIOUS
    <3>2. Continue(p, t)
      BY <1>1, <2>1, <3>1
    <3>3. t \in Seq(Frame) /\ t # << >> /\ Head(t) = f
      BY <1>2, <1>3, TopChanges
    <3>4. f.pc \in Uninstall <=> s[1].pc \in Uninstall
      BY <1>1, <1>2, <1>3
    <3>5. f.pc \notin Past \ {"deps"}
      BY <1>3
    <3>6. Sound(t) /\ SameKind(s, t)
      BY <1>2, <1>3, <3>4, <3>5, ChangeIsSound
    <3>7. ASSUME NEW have, Needs(s, have), dep \in have PROVE Needs(t, have)
      <4>1. 1 \in DOMAIN s /\ s[1].pc \in Past
        BY <1>1, <1>2, FirstCall DEF Past
      <4>2. \A d \in Requires[f.id] : d \in have \/ d \in f.todo
        BY <1>3, <3>7, <4>1 DEF Needs
      <4> QED BY <1>2, <1>3, <3>7, <4>2, ChangeNeeds
    <3>8. Needs(t, Selfless)
      BY <1>2, <2>1, <3>7 DEF IInv, RowsAreSelfless
    <3>9. "uninstall" \notin beside[p] => Needs(t, recorded)
      BY <2>1, <3>7 DEF IInv, NeedsAreRecorded
    <3> HIDE DEF t
    <3> QED BY <1>3, <3>2, <3>3, <3>6, <3>8, <3>9 DEF StackOK
  <2>2. CASE dep \notin recorded
    <3> DEFINE t == Called(s, c, f)
    <3>1. Continue(p, t)
      BY <1>1, <2>2 DEF Called
    <3>2. CalledFrom(t, s, c, f)
      BY <1>2, <1>3, <1>4, TopCalls
    <3>3. s[1].pc = "deps" /\ f.todo = s[1].todo \ {c.id}
      BY <1>1, <1>2, <1>3, <1>4
    <3>4. Sound(t) /\ SameKind(s, t)
      BY <1>2, <1>3, <1>4, <3>3, CallIsSound
    <3>5. ASSUME NEW have, Needs(s, have) PROVE Needs(t, have)
      BY <1>2, <1>3, <1>4, <3>3, <3>5, CallNeeds
    <3>6. Needs(t, Selfless) /\ ("uninstall" \notin beside[p] => Needs(t, recorded))
      BY <1>2, <3>5 DEF IInv, NeedsAreRecorded
    <3> HIDE DEF t
    <3> QED BY <1>4, <3>1, <3>2, <3>4, <3>6 DEF StackOK, CalledFrom
  <2> QED BY <2>1, <2>2
<1>6. tmp' \in [Plugins -> {"none", "part", "whole"}]
  BY <1>1 DEF IInv, TypeOK
<1>7. /\ ~TopIn(t, {"post", "remove", "forget"}) /\ ~TopIn(t, {"extract"})
      /\ ~TopIn(t, {"download"}) /\ ~TopIn(t, {"open"})
  BY <1>5 DEF TopIn
<1> QED BY <1>1, <1>5, <1>6, <1>7, QuietStep

\* Beside nobody, there is nobody elsewhere.
LEMMA Nobody ==
    ASSUME IInv, NEW p \in Procs, ~Idle(p), beside[p] = {}, NEW i, NEW pcs
    PROVE  ~Elsewhere(p, i, pcs)
BY DEF IInv, KnowEachOther, Elsewhere

LEMMA DownloadBeginsStep ==
    ASSUME IInv, NEW p \in Procs, DownloadBegins(p)
    PROVE  IInv'
<1> DEFINE t == Moved(p, "download")
<1>1. /\ ~Idle(p) /\ Top(p).pc = "deps" /\ Top(p).todo = {} /\ Continue(p, t)
      /\ tmp' = [tmp EXCEPT ![Id(p)] = "part"] /\ UNCHANGED <<recorded, disk, spoiled>>
  BY DEF DownloadBegins, At, Goto, Moved
<1>2. /\ "download" \in Install \union Uninstall /\ "download" \notin Uninstall
      /\ "deps" \notin Uninstall /\ "deps" \in Past
  BY DEF Install, Uninstall, Past
<1>3. /\ t \in Seq(Frame) /\ StackOK(p, t)
      /\ t # << >> /\ Head(t).pc = "download" /\ Head(t).id = Id(p)
  BY <1>1, <1>2, GotoOK
<1>4. Id(p) \in Plugins
  BY <1>1, AtWork DEF IInv
<1>5. tmp' \in [Plugins -> {"none", "part", "whole"}] /\ tmp'[Id(p)] = "part"
  BY <1>1, <1>4 DEF IInv, TypeOK
<1> HIDE DEF t
<1>6. /\ ~TopIn(t, {"post", "remove", "forget"}) /\ ~TopIn(t, {"extract"})
      /\ ~TopIn(t, {"open"})
  BY <1>3 DEF TopIn
<1> QED BY <1>1, <1>3, <1>5, <1>6, QuietStep

LEMMA DownloadEndsStep ==
    ASSUME IInv, NEW p \in Procs, DownloadEnds(p)
    PROVE  IInv'
<1> DEFINE t == Moved(p, "open")
<1> DEFINE i == Id(p)
<1>1. /\ ~Idle(p) /\ Top(p).pc = "download" /\ Continue(p, t)
      /\ tmp' = [tmp EXCEPT ![i] = IF tmp[i] = "none" \/ Elsewhere(p, i, {"download"})
                                   THEN tmp[i] ELSE "whole"]
      /\ UNCHANGED <<recorded, disk, spoiled>>
  BY DEF DownloadEnds, At, Goto, Moved
<1>2. /\ "open" \in Install \union Uninstall /\ "open" \notin Uninstall
      /\ "download" \notin Uninstall /\ "download" \in Past \ {"deps"}
  BY DEF Install, Uninstall, Past
<1>3. i \in Plugins /\ Top(p).todo = {}
  BY <1>1, <1>2, AtWork DEF IInv
<1>4. /\ t \in Seq(Frame) /\ StackOK(p, t)
      /\ t # << >> /\ Head(t).pc = "open" /\ Head(t).id = i
  BY <1>1, <1>2, <1>3, GotoOK
<1>5. tmp \in [Plugins -> {"none", "part", "whole"}]
  BY DEF IInv, TypeOK
<1>6. tmp' \in [Plugins -> {"none", "part", "whole"}]
  BY <1>1, <1>3, <1>5
<1>7. beside[p] = {} => tmp'[i] = "whole"
  <2> SUFFICES ASSUME beside[p] = {} PROVE tmp'[i] = "whole"
    OBVIOUS
  <2>1. tmp[i] = "part"
    BY <1>1 DEF IInv, ArchiveInHand, At
  <2>2. ~Elsewhere(p, i, {"download"})
    BY <1>1, Nobody
  <2> QED BY <1>1, <1>3, <1>5, <2>1, <2>2
<1> HIDE DEF t
<1>8. /\ ~TopIn(t, {"post", "remove", "forget"}) /\ ~TopIn(t, {"extract"})
      /\ ~TopIn(t, {"download"})
  BY <1>4 DEF TopIn
<1> QED BY <1>1, <1>4, <1>6, <1>7, <1>8, QuietStep

LEMMA GuardStep ==
    ASSUME IInv, NEW p \in Procs,
           Guard(p) \/ (Check(p) /\ ~(Id(p) \in recorded /\ ~\E e \in recorded : Id(p) \in Requires[e]))
    PROVE  IInv'
<1>1. /\ ~Idle(p) /\ Top(p).pc \in {"guard", "check"} /\ Top(p).pc \in Uninstall
      /\ UNCHANGED <<recorded, tmp, spoiled>>
  BY DEF Guard, Check, At, Uninstall
<1>2. disk' = disk
  BY DEF Guard, Check, IInv, TypeOK
<1>3. Return(p) \/ Goto(p, "check")
  BY DEF Guard, Check
<1>4. PICK t \in Seq(Frame) :
          /\ Continue(p, t) /\ StackOK(p, t)
          /\ ~TopIn(t, {"download", "open", "extract", "post", "remove", "forget"})
  <2>1. CASE Return(p)
    BY <1>1, <2>1, ReturnOK DEF Return
  <2>2. CASE Goto(p, "check")
    <3> DEFINE t == Moved(p, "check")
    <3>1. "check" \in Install \union Uninstall /\ "check" \in Uninstall /\ "check" \notin Past
      BY DEF Install, Uninstall, Past
    <3>2. /\ t \in Seq(Frame) /\ StackOK(p, t) /\ t # << >> /\ Head(t).pc = "check"
      BY <1>1, <3>1, GotoOK
    <3>3. Continue(p, t)
      BY <2>2 DEF Goto, Moved
    <3> HIDE DEF t
    <3> QED BY <3>2, <3>3 DEF TopIn
  <2> QED BY <1>3, <2>1, <2>2
<1>5. /\ ~TopIn(t, {"post", "remove", "forget"}) /\ ~TopIn(t, {"extract"})
      /\ ~TopIn(t, {"download"}) /\ ~TopIn(t, {"open"})
  BY <1>4 DEF TopIn
<1>6. tmp' \in [Plugins -> {"none", "part", "whole"}]
  BY <1>1 DEF IInv, TypeOK
<1> QED BY <1>1, <1>2, <1>4, <1>5, <1>6, QuietStep

------------------------------------------------------------------------------
(***************************************************************************)
(* The steps that change files or rows.                                    *)
(***************************************************************************)
FilesChange(i) ==
    /\ disk' \in [Plugins -> {"absent", "part", "whole"}]
    /\ tmp' \in [Plugins -> {"none", "part", "whole"}]
    /\ spoiled' \subseteq Plugins
    /\ \A j \in Plugins \ {i} : disk'[j] = disk[j] /\ (j \in spoiled' <=> j \in spoiled)

\* A step that changes the files of the entry at hand, and no row.
FileStep(p, i, t) ==
    /\ FilesChange(i) /\ recorded' = recorded
    /\ ~TopIn(t, {"download", "open"})
    /\ TopIn(t, {"extract", "remove", "forget", "post"}) => Head(t).id = i
    /\ beside[p] = {} /\ TopIn(t, {"remove", "forget"}) => \A e \in recorded : i \notin Requires[e]
    /\ i \notin spoiled' /\ (Elsewhere(p, i, {"post"}) \/ TopIn(t, {"post"})) =>
              \/ disk'[i] = "whole"
              \/ Elsewhere(p, i, {"extract", "remove"}) \/ TopIn(t, {"extract", "remove"})
    /\ i \notin spoiled' /\ i \in recorded =>
              \/ disk'[i] = "whole"
              \/ Elsewhere(p, i, {"extract", "remove", "forget"})
              \/ TopIn(t, {"extract", "remove", "forget"})

LEMMA FilesStep ==
    ASSUME IInv, NEW p \in Procs, ~Idle(p), NEW t \in Seq(Frame), Continue(p, t), StackOK(p, t),
           NEW i, i = Id(p), FileStep(p, i, t)
    PROVE  IInv'
<1> USE DEF FileStep
<1>1. StacksAreSound' /\ KnowEachOther' /\ NeedsAreRecorded' /\ RowsAreSelfless'
  <2>1. recorded' \subseteq Selfless
    BY DEF IInv, RowsAreSelfless
  <2> QED BY <2>1, StacksStep DEF StackOK
<1>2. NothingRequiresIt' /\ ArchiveInHand'
  <2>1. ~TopIn(t, {"download"}) /\ ~TopIn(t, {"open"})
    BY DEF TopIn
  <2>2. TopIn(t, {"remove", "forget"}) => Head(t).id = i
    BY DEF TopIn
  <2> QED BY <2>1, <2>2, AloneStep
<1>3. AboutToBeTrue' /\ RowIsTrue'
  <2>1. recorded' \subseteq Plugins
    BY DEF IInv, TypeOK
  <2> QED BY <2>1, DiskStep DEF FilesChange
<1>4. TypeOK'
  <2>1. stack' \in [Procs -> Seq(Frame)] /\ beside' \in [Procs -> SUBSET {"install", "uninstall"}]
    BY OneContinues DEF IInv
  <2> QED BY <2>1 DEF IInv, TypeOK, FilesChange
<1> QED BY <1>1, <1>2, <1>3, <1>4 DEF IInv

LEMMA ExtractBeginsStep ==
    ASSUME IInv, NEW p \in Procs, ExtractBegins(p)
    PROVE  IInv'
<1> DEFINE t == Moved(p, "extract")
<1> DEFINE i == Id(p)
<1>1. /\ ~Idle(p) /\ Top(p).pc = "open" /\ Continue(p, t)
      /\ disk' = [disk EXCEPT ![i] = "part"] /\ UNCHANGED <<recorded, tmp, spoiled>>
  BY DEF ExtractBegins, At, Goto, Moved
<1>2. /\ "extract" \in Install \union Uninstall /\ "extract" \notin Uninstall
      /\ "open" \notin Uninstall /\ "open" \in Past \ {"deps"}
  BY DEF Install, Uninstall, Past
<1>3. i \in Plugins /\ Top(p).todo = {}
  BY <1>1, <1>2, AtWork DEF IInv
<1>4. /\ t \in Seq(Frame) /\ StackOK(p, t)
      /\ t # << >> /\ Head(t).pc = "extract" /\ Head(t).id = i
  BY <1>1, <1>2, <1>3, GotoOK
<1>5. FilesChange(i)
  BY <1>1, <1>3 DEF FilesChange, IInv, TypeOK
<1> HIDE DEF t, i
<1>6. FileStep(p, i, t)
  BY <1>1, <1>4, <1>5 DEF FileStep, TopIn
<1> QED BY <1>1, <1>4, <1>6, FilesStep DEF i

\* The archive cannot be extracted, or not to the end.
LEMMA SpoiledStep ==
    ASSUME IInv, NEW p \in Procs, ArchiveSpoiled(p) \/ ExtractFails(p)
    PROVE  IInv'
<1> DEFINE i == Id(p)
<1>1. /\ ~Idle(p) /\ Continue(p, << >>) /\ spoiled' = spoiled \union {i}
      /\ tmp' = [tmp EXCEPT ![i] = "none"]
      /\ disk' = disk \/ disk' = [disk EXCEPT ![i] = "part"]
      /\ recorded' = recorded
  BY DEF ArchiveSpoiled, ExtractFails, At, Unwind, Spoil
<1>2. i \in Plugins
  BY <1>1, AtWork DEF IInv
<1>3. << >> \in Seq(Frame) /\ StackOK(p, << >>) /\ \A pcs : ~TopIn(<< >>, pcs)
  BY UnwindOK
<1>4. FilesChange(i)
  BY <1>1, <1>2 DEF FilesChange, IInv, TypeOK
<1> HIDE DEF i
<1>5. FileStep(p, i, << >>)
  BY <1>1, <1>3, <1>4 DEF FileStep
<1> QED BY <1>1, <1>3, <1>5, FilesStep DEF i

LEMMA WiderElsewhere ==
    ASSUME NEW p, NEW i, NEW few, NEW many, few \subseteq many, Elsewhere(p, i, few)
    PROVE  Elsewhere(p, i, many)
BY DEF Elsewhere

LEMMA ExtractEndsStep ==
    ASSUME IInv, NEW p \in Procs, ExtractEnds(p)
    PROVE  IInv'
<1> DEFINE t == Moved(p, "post")
<1> DEFINE i == Id(p)
<1>1. /\ ~Idle(p) /\ Top(p).pc = "extract" /\ Continue(p, t)
      /\ disk' = [disk EXCEPT ![i] = IF Elsewhere(p, i, {"extract", "remove"})
                                     THEN disk[i] ELSE "whole"]
      /\ spoiled' = spoiled \/ spoiled' = spoiled \ {i}
      /\ UNCHANGED <<recorded, tmp>>
  BY DEF ExtractEnds, At, Goto, Moved
<1>2. /\ "post" \in Install \union Uninstall /\ "post" \notin Uninstall
      /\ "extract" \notin Uninstall /\ "extract" \in Past \ {"deps"}
  BY DEF Install, Uninstall, Past
<1>3. i \in Plugins /\ Top(p).todo = {}
  BY <1>1, <1>2, AtWork DEF IInv
<1>4. /\ t \in Seq(Frame) /\ StackOK(p, t)
      /\ t # << >> /\ Head(t).pc = "post" /\ Head(t).id = i
  BY <1>1, <1>2, <1>3, GotoOK
<1>5. disk \in [Plugins -> {"absent", "part", "whole"}]
  BY DEF IInv, TypeOK
<1>6. FilesChange(i)
  <2>1. disk[i] \in {"absent", "part", "whole"}
    BY <1>3, <1>5
  <2>2. disk' \in [Plugins -> {"absent", "part", "whole"}]
    BY <1>1, <1>3, <1>5, <2>1
  <2>3. \A j \in Plugins \ {i} : disk'[j] = disk[j] /\ (j \in spoiled' <=> j \in spoiled)
    BY <1>1, <1>5
  <2> QED BY <1>1, <2>2, <2>3 DEF FilesChange, IInv, TypeOK
<1>7. disk'[i] = "whole" \/ Elsewhere(p, i, {"extract", "remove"})
  BY <1>1, <1>3, <1>5
<1> HIDE DEF t, i
<1>8. disk'[i] = "whole" \/ Elsewhere(p, i, {"extract", "remove", "forget"})
  BY <1>7, WiderElsewhere
<1>9. FileStep(p, i, t)
  BY <1>1, <1>4, <1>6, <1>7, <1>8 DEF FileStep, TopIn
<1> QED BY <1>1, <1>4, <1>9, FilesStep DEF i

LEMMA CheckStep ==
    ASSUME IInv, NEW p \in Procs, Check(p),
           Id(p) \in recorded, ~\E e \in recorded : Id(p) \in Requires[e]
    PROVE  IInv'
<1> DEFINE t == Moved(p, "remove")
<1> DEFINE i == Id(p)
<1>1. /\ ~Idle(p) /\ Top(p).pc = "check" /\ Continue(p, t)
      /\ disk' = [disk EXCEPT ![i] = "part"]
      /\ UNCHANGED <<recorded, tmp, spoiled>>
  BY DEF Check, At, Goto, Moved
<1>2. /\ "remove" \in Install \union Uninstall /\ "remove" \in Uninstall
      /\ "check" \in Uninstall /\ "remove" \notin Past
  BY DEF Install, Uninstall, Past
<1>3. i \in Plugins
  BY <1>1, AtWork DEF IInv
<1>4. /\ t \in Seq(Frame) /\ StackOK(p, t)
      /\ t # << >> /\ Head(t).pc = "remove" /\ Head(t).id = i
  BY <1>1, <1>2, GotoOK
<1>5. FilesChange(i)
  BY <1>1, <1>3 DEF FilesChange, IInv, TypeOK
<1>6. \A e \in recorded : i \notin Requires[e]
  OBVIOUS
<1> HIDE DEF t, i
<1>7. FileStep(p, i, t)
  BY <1>1, <1>4, <1>5, <1>6 DEF FileStep, TopIn
<1> QED BY <1>1, <1>4, <1>7, FilesStep DEF i

LEMMA RemoveEndsStep ==
    ASSUME IInv, NEW p \in Procs, RemoveEnds(p)
    PROVE  IInv'
<1> DEFINE t == Moved(p, "forget")
<1> DEFINE i == Id(p)
<1>1. /\ ~Idle(p) /\ Top(p).pc = "remove" /\ Continue(p, t)
      /\ disk' = [disk EXCEPT ![i] = IF Elsewhere(p, i, {"extract"}) THEN disk[i] ELSE "absent"]
      /\ UNCHANGED <<recorded, tmp>>
  BY DEF RemoveEnds, At, Goto, Moved
<1>2. /\ "forget" \in Install \union Uninstall /\ "forget" \in Uninstall
      /\ "remove" \in Uninstall /\ "forget" \notin Past
  BY DEF Install, Uninstall, Past
<1>3. i \in Plugins
  BY <1>1, AtWork DEF IInv
<1>4. /\ t \in Seq(Frame) /\ StackOK(p, t)
      /\ t # << >> /\ Head(t).pc = "forget" /\ Head(t).id = i
  BY <1>1, <1>2, GotoOK
<1>5. /\ beside[p] # {} => spoiled' = spoiled \union {i}
      /\ beside[p] = {} => spoiled' = spoiled
  BY DEF RemoveEnds, Spoil
<1>6. FilesChange(i)
  <2>1. disk \in [Plugins -> {"absent", "part", "whole"}]
    BY DEF IInv, TypeOK
  <2>2. disk[i] \in {"absent", "part", "whole"}
    BY <1>3, <2>1
  <2>3. disk' \in [Plugins -> {"absent", "part", "whole"}]
    BY <1>1, <1>3, <2>1, <2>2
  <2>4. \A j \in Plugins \ {i} : disk'[j] = disk[j] /\ (j \in spoiled' <=> j \in spoiled)
    BY <1>1, <1>5, <2>1
  <2> QED BY <1>1, <1>3, <1>5, <2>3, <2>4 DEF FilesChange, IInv, TypeOK
<1>7. beside[p] = {} => \A e \in recorded : i \notin Requires[e]
  BY <1>1 DEF IInv, NothingRequiresIt, At
<1>8. i \notin spoiled' => ~Elsewhere(p, i, {"post"})
  BY <1>1, <1>5, Nobody
<1> HIDE DEF t, i
<1>9. FileStep(p, i, t)
  BY <1>1, <1>4, <1>6, <1>7, <1>8 DEF FileStep, TopIn
<1> QED BY <1>1, <1>4, <1>9, FilesStep DEF i

LEMMA RemoveFailsStep ==
    ASSUME IInv, NEW p \in Procs, RemoveFails(p)
    PROVE  IInv'
<1> DEFINE i == Id(p)
<1> DEFINE t == Tail(stack[p])
<1>1. /\ ~Idle(p) /\ Top(p).pc \in Uninstall /\ Continue(p, t) /\ spoiled' = spoiled \union {i}
      /\ UNCHANGED <<recorded, disk, tmp>>
  BY DEF RemoveFails, At, Return, Spoil, Uninstall
<1>2. i \in Plugins
  BY <1>1, AtWork DEF IInv
<1>3. /\ t \in Seq(Frame) /\ StackOK(p, t)
      /\ ~TopIn(t, {"download", "open", "extract", "post", "remove", "forget"})
  BY <1>1, ReturnOK
<1>4. FilesChange(i)
  BY <1>1, <1>2 DEF FilesChange, IInv, TypeOK
<1> HIDE DEF i, t
<1>5. FileStep(p, i, t)
  BY <1>1, <1>3, <1>4 DEF FileStep, TopIn
<1> QED BY <1>1, <1>3, <1>5, FilesStep DEF i

\* What a call past its dependencies requires has been installed, and it does
\* not require itself.
LEMMA PastItsNeeds ==
    ASSUME IInv, NEW p \in Procs, ~Idle(p), Top(p).pc \in Past \ {"deps"}
    PROVE  /\ Id(p) \in Selfless
           /\ "uninstall" \notin beside[p] => Requires[Id(p)] \subseteq recorded
<1>1. /\ stack[p] \in Seq(Frame) /\ stack[p] # << >> /\ Top(p) = stack[p][1]
      /\ Needs(stack[p], Selfless) /\ Top(p).todo = {} /\ Id(p) \in Plugins
  BY AtWork DEF IInv
<1>2. 1 \in DOMAIN stack[p]
  BY <1>1, FirstCall
<1>3. ASSUME NEW have, Needs(stack[p], have) PROVE \A d \in Requires[Id(p)] : d \in have
  BY <1>1, <1>2, <1>3 DEF Needs, Id
<1>4. Id(p) \in Selfless
  <2>1. Id(p) \in Requires[Id(p)] => Id(p) \in Selfless
    BY <1>1, <1>3
  <2> QED BY <1>1, <2>1 DEF Selfless
<1>5. "uninstall" \notin beside[p] => Needs(stack[p], recorded)
  BY DEF IInv, NeedsAreRecorded
<1> QED BY <1>3, <1>4, <1>5

LEMMA RecordStep ==
    ASSUME IInv, NEW p \in Procs, Record(p)
    PROVE  IInv'
<1> DEFINE s == stack[p]
<1> DEFINE t == Tail(s)
<1> DEFINE i == Id(p)
<1>1. /\ ~Idle(p) /\ Top(p).pc = "post" /\ At(p, "post") /\ Continue(p, t)
      /\ recorded' = recorded \union {i}
      /\ tmp' = [tmp EXCEPT ![i] = "none"] /\ UNCHANGED <<disk, spoiled>>
  BY DEF Record, At, Return
<1>2. /\ s \in Seq(Frame) /\ s # << >> /\ Top(p) = s[1] /\ Sound(s) /\ Needs(s, Selfless)
      /\ i \in Plugins
  BY <1>1, AtWork DEF IInv
<1>3. i \in Selfless
  BY <1>1, PastItsNeeds DEF Past
<1>4. t \in Seq(Frame) /\ Sound(t) /\ SameKind(s, t) /\ (t # << >> => Head(t).pc = "deps")
  BY <1>2, ReturnIsSound, TopReturns
<1>5. s[1].id = i
  BY <1>2 DEF Id
<1>6. Needs(t, Selfless)
  BY <1>2, <1>3, <1>5, ReturnNeeds
<1>7. "uninstall" \notin beside[p] => Needs(t, recorded')
  <2> SUFFICES ASSUME "uninstall" \notin beside[p] PROVE Needs(t, recorded')
    OBVIOUS
  <2>1. Needs(s, recorded)
    BY DEF IInv, NeedsAreRecorded
  <2>2. Needs(s, recorded')
    BY <1>1, <2>1 DEF Needs
  <2> QED BY <1>1, <1>2, <1>5, <2>2, ReturnNeeds
<1>8. recorded' \subseteq Selfless /\ recorded \subseteq recorded' /\ recorded' \subseteq Plugins
  BY <1>1, <1>2, <1>3 DEF IInv, RowsAreSelfless, TypeOK
<1>9. /\ ~TopIn(t, {"download"}) /\ ~TopIn(t, {"open"}) /\ ~TopIn(t, {"remove", "forget"})
      /\ ~TopIn(t, {"extract", "remove", "forget", "post"})
  BY <1>4 DEF TopIn
<1>10. i \notin spoiled => disk[i] = "whole" \/ Elsewhere(p, i, {"extract", "remove"})
  BY <1>1, DiskNow DEF At
<1> HIDE DEF i, t, s
<1>11. StacksAreSound' /\ KnowEachOther' /\ NeedsAreRecorded' /\ RowsAreSelfless'
  BY <1>1, <1>4, <1>6, <1>7, <1>8, StacksStep DEF s
<1>12. NothingRequiresIt' /\ ArchiveInHand'
  BY <1>1, <1>4, <1>9, AloneStep
<1>13. i \notin spoiled => disk[i] = "whole" \/ Elsewhere(p, i, {"extract", "remove", "forget"})
  BY <1>10, WiderElsewhere
<1>14. \A j \in Plugins \ {i} : /\ disk'[j] = disk[j]
                                /\ j \in spoiled' <=> j \in spoiled
                                /\ j \in recorded' <=> j \in recorded
  BY <1>1
<1>15. AboutToBeTrue' /\ RowIsTrue'
  BY <1>1, <1>4, <1>8, <1>9, <1>10, <1>13, <1>14, DiskStep DEF i
<1>16. TypeOK'
  <2>1. stack' \in [Procs -> Seq(Frame)] /\ beside' \in [Procs -> SUBSET {"install", "uninstall"}]
    BY <1>1, <1>4, OneContinues DEF IInv
  <2> QED BY <1>1, <1>8, <2>1 DEF IInv, TypeOK
<1> QED BY <1>11, <1>12, <1>15, <1>16 DEF IInv

LEMMA ForgetStep ==
    ASSUME IInv, NEW p \in Procs, Forget(p)
    PROVE  IInv'
<1> DEFINE i == Id(p)
<1>1. /\ ~Idle(p) /\ Top(p).pc = "forget" /\ Continue(p, Tail(stack[p]))
      /\ recorded' = recorded \ {i} /\ UNCHANGED <<disk, tmp, spoiled>>
  BY DEF Forget, At, Return
<1>2. Top(p).pc \in Uninstall
  BY <1>1 DEF Uninstall
<1>3. Tail(stack[p]) = << >> /\ Kind(p) = "uninstall" /\ i \in Plugins
  BY <1>1, <1>2, AtWork DEF IInv
<1>4. Continue(p, << >>)
  BY <1>1, <1>3
<1>5. << >> \in Seq(Frame) /\ StackOK(p, << >>) /\ \A pcs : ~TopIn(<< >>, pcs)
  BY UnwindOK
<1>6. \A have : Needs(<< >>, have)
  <2>1. DOMAIN << >> = {}
    OBVIOUS
  <2> QED BY <2>1 DEF Needs
<1>7. recorded' \subseteq Selfless /\ recorded' \subseteq Plugins
  BY <1>1 DEF IInv, RowsAreSelfless, TypeOK
<1>8. /\ i \notin spoiled /\ Elsewhere(p, i, {"post"}) =>
            disk[i] = "whole" \/ Elsewhere(p, i, {"extract", "remove"})
      /\ i \notin recorded'
  BY <1>1, DiskNow DEF At
<1>9. \A j \in Plugins \ {i} : /\ disk'[j] = disk[j]
                               /\ j \in spoiled' <=> j \in spoiled
                               /\ j \in recorded' <=> j \in recorded
  BY <1>1
<1> HIDE DEF i
<1>10. StacksAreSound' /\ KnowEachOther' /\ NeedsAreRecorded' /\ RowsAreSelfless'
  BY <1>1, <1>3, <1>4, <1>5, <1>6, <1>7, StacksStep DEF StackOK
<1>11. NothingRequiresIt' /\ ArchiveInHand'
  BY <1>1, <1>4, <1>5, AloneStep
<1>12. AboutToBeTrue' /\ RowIsTrue'
  BY <1>1, <1>4, <1>5, <1>7, <1>8, <1>9, DiskStep DEF i
<1>13. TypeOK'
  <2>1. stack' \in [Procs -> Seq(Frame)] /\ beside' \in [Procs -> SUBSET {"install", "uninstall"}]
    BY <1>4, <1>5, OneContinues DEF IInv
  <2> QED BY <1>1, <1>7, <2>1 DEF IInv, TypeOK
<1> QED BY <1>10, <1>11, <1>12, <1>13 DEF IInv

\* A request is made: a process that was idle has one call.
LEMMA BeginStep ==
    ASSUME IInv, NEW p \in Procs, NEW c \in Frame, Begin(p, c),
           c.pc \in {"begin", "guard"}, c.kind \in {"job", "sync", "uninstall"},
           c.pc = "guard" <=> c.kind = "uninstall"
    PROVE  IInv'
<1>1. /\ Idle(p) /\ stack' = [stack EXCEPT ![p] = <<c>>]
      /\ UNCHANGED <<recorded, disk, tmp, spoiled>>
      /\ beside' = [q \in Procs |->
                      IF q = p THEN {Kind(o) : o \in {o \in Procs : ~Idle(o)}}
                      ELSE IF Idle(q) THEN beside[q] ELSE beside[q] \union {Kind(p)'}]
  BY DEF Begin
<1>2. /\ stack \in [Procs -> Seq(Frame)] /\ beside \in [Procs -> SUBSET {"install", "uninstall"}]
  BY DEF IInv, TypeOK
<1>3. /\ <<c>> \in Seq(Frame) /\ <<c>> # << >> /\ Head(<<c>>) = c /\ Len(<<c>>) = 1
      /\ <<c>>[1] = c /\ DOMAIN <<c>> = {1}
  OBVIOUS
<1>4. stack'[p] = <<c>> /\ \A q \in Procs \ {p} : stack'[q] = stack[q]
  BY <1>1, <1>2
<1>5. /\ \A q \in Procs \ {p} : /\ Idle(q)' <=> Idle(q)
                                /\ Top(q)' = Top(q) /\ Id(q)' = Id(q) /\ Kind(q)' = Kind(q)
      /\ ~Idle(p)' /\ Top(p)' = c /\ Id(p)' = c.id
  BY <1>3, <1>4 DEF Idle, Top, Id, Kind, Outermost
<1>6. \A q \in Procs : Kind(q) \in {"install", "uninstall"} /\ Kind(q)' \in {"install", "uninstall"}
  BY DEF Kind
<1>7. TypeOK'
  <2>1. stack' \in [Procs -> Seq(Frame)]
    BY <1>1, <1>2, <1>3
  <2>2. ASSUME NEW q \in Procs PROVE beside'[q] \subseteq {"install", "uninstall"}
    <3>1. beside[q] \subseteq {"install", "uninstall"}
      BY <1>2
    <3>2. CASE q = p
      BY <1>1, <1>6, <3>2
    <3>3. CASE q # p
      BY <1>1, <1>6, <3>1, <3>3
    <3> QED BY <3>2, <3>3
  <2>3. beside' \in [Procs -> SUBSET {"install", "uninstall"}]
    BY <1>1, <2>2
  <2> QED BY <1>1, <2>1, <2>3 DEF IInv, TypeOK
<1>8. Sound(<<c>>) /\ \A have : Needs(<<c>>, have)
  BY <1>3 DEF Sound, Needs, Uninstall, Past
<1>9. StacksAreSound'
  <2>1. Selfless' = Selfless
    BY DEF Selfless
  <2> QED BY <1>4, <1>8, <2>1 DEF IInv, StacksAreSound
<1>10. \A q \in Procs \ {p} : beside[q] \subseteq beside'[q]
  BY <1>1
<1>11. KnowEachOther'
  <2> SUFFICES ASSUME NEW q \in Procs, NEW o \in Procs, q # o, ~Idle(q)', ~Idle(o)'
               PROVE  Kind(o)' \in beside'[q]
    BY DEF KnowEachOther
  <2>1. CASE q = p
    <3>1. ~Idle(o) /\ Kind(o)' = Kind(o)
      BY <1>5, <2>1
    <3> QED BY <1>1, <2>1, <3>1
  <2>2. CASE o = p
    <3>1. ~Idle(q)
      BY <1>5, <2>2
    <3> QED BY <1>1, <2>2, <3>1
  <2>3. CASE q # p /\ o # p
    <3>1. Kind(o) \in beside[q] /\ Kind(o)' = Kind(o)
      BY <1>5, <2>3 DEF IInv, KnowEachOther
    <3> QED BY <1>10, <2>3, <3>1
  <2> QED BY <2>1, <2>2, <2>3
<1>12. NeedsAreRecorded'
  <2> SUFFICES ASSUME NEW q \in Procs, "uninstall" \notin beside'[q]
               PROVE  Needs(stack'[q], recorded)
    BY <1>1 DEF NeedsAreRecorded
  <2>1. CASE q = p
    BY <1>4, <1>8, <2>1
  <2>2. CASE q # p
    BY <1>4, <1>10, <2>2 DEF IInv, NeedsAreRecorded
  <2> QED BY <2>1, <2>2
<1>13. ASSUME NEW q \in Procs, beside'[q] = {}, NEW pc, At(q, pc)', pc \notin {"begin", "guard"}
       PROVE  q # p /\ beside[q] = {} /\ At(q, pc)
  BY <1>5, <1>10, <1>13 DEF At
<1>14. NothingRequiresIt'
  <2> SUFFICES ASSUME NEW q \in Procs, At(q, "remove")' \/ At(q, "forget")', beside'[q] = {}
               PROVE  \A e \in recorded : Id(q)' \notin Requires[e]
    BY <1>1 DEF NothingRequiresIt
  <2>1. q # p /\ beside[q] = {} /\ (At(q, "remove") \/ At(q, "forget"))
    BY <1>13
  <2> QED BY <1>5, <2>1 DEF IInv, NothingRequiresIt
<1>15. ArchiveInHand'
  <2> SUFFICES ASSUME NEW q \in Procs, beside'[q] = {}
               PROVE  /\ At(q, "download")' => tmp[Id(q)'] = "part"
                      /\ At(q, "open")' => tmp[Id(q)'] = "whole"
    BY <1>1 DEF ArchiveInHand
  <2>1. At(q, "download")' => At(q, "download") /\ q # p /\ beside[q] = {}
    BY <1>13
  <2>2. At(q, "open")' => At(q, "open") /\ q # p /\ beside[q] = {}
    BY <1>13
  <2> QED BY <1>5, <2>1, <2>2 DEF IInv, ArchiveInHand
<1>16. ASSUME NEW pcs, NEW j, Someone(pcs, j) PROVE Someone(pcs, j)'
  <2>1. PICK q \in Procs : On(q, pcs, j)
    BY <1>16 DEF Someone
  <2>2. q # p
    BY <1>1, <2>1 DEF On
  <2>3. On(q, pcs, j)'
    BY <1>5, <2>1, <2>2 DEF On
  <2> QED BY <2>3 DEF Someone
<1>17. AboutToBeTrue'
  <2> SUFFICES ASSUME NEW q \in Procs, At(q, "post")', NEW j, j = Id(q)', j \notin spoiled
               PROVE  disk[j] = "whole" \/ Someone({"extract", "remove"}, j)'
    BY <1>1 DEF AboutToBeTrue, Someone, On
  <2>1. q # p /\ At(q, "post") /\ j = Id(q)
    BY <1>5 DEF At
  <2> QED BY <1>16, <2>1 DEF IInv, AboutToBeTrue
<1>18. RowIsTrue'
  <2> SUFFICES ASSUME NEW j \in recorded \ spoiled
               PROVE  disk[j] = "whole" \/ Someone({"extract", "remove", "forget"}, j)'
    BY <1>1 DEF RowIsTrue
  <2> QED BY <1>16 DEF IInv, RowIsTrue
<1>19. RowsAreSelfless'
  <2>1. Selfless' = Selfless
    BY DEF Selfless
  <2> QED BY <1>1, <2>1 DEF IInv, RowsAreSelfless
<1> QED BY <1>7, <1>9, <1>11, <1>12, <1>14, <1>15, <1>17, <1>18, <1>19 DEF IInv

LEMMA AskStep ==
    ASSUME IInv, NEW p \in Procs, NEW id \in Plugins,
           AskUninstall(p, id)
             \/ \E force \in BOOLEAN, kind \in {"job", "sync"} : AskInstall(p, id, force, kind)
    PROVE  IInv'
<1>1. PICK c : /\ Begin(p, c)
               /\ \/ c = Call(id, "guard", FALSE, "uninstall")
                  \/ \E force \in BOOLEAN, kind \in {"job", "sync"} :
                       c = Call(id, "begin", force, kind)
  BY DEF AskUninstall, AskInstall
<1>2. /\ c \in Frame /\ c.pc \in {"begin", "guard"} /\ c.kind \in {"job", "sync", "uninstall"}
      /\ c.pc = "guard" <=> c.kind = "uninstall"
  <2>1. CASE c = Call(id, "guard", FALSE, "uninstall")
    BY <2>1 DEF Call, Frame, Install, Uninstall
  <2>2. ASSUME NEW force \in BOOLEAN, NEW kind \in {"job", "sync"},
               c = Call(id, "begin", force, kind)
        PROVE  /\ c \in Frame /\ c.pc = "begin" /\ c.kind = kind
    BY <2>2 DEF Call, Frame, Install, Uninstall
  <2> QED
    <3>1. CASE c = Call(id, "guard", FALSE, "uninstall")
      <4>1. c.pc = "guard" /\ c.kind = "uninstall"
        BY <3>1 DEF Call
      <4> QED BY <2>1, <3>1, <4>1
    <3>2. CASE \E force \in BOOLEAN, kind \in {"job", "sync"} : c = Call(id, "begin", force, kind)
      BY <2>2, <3>2
    <3> QED BY <1>1, <3>1, <3>2
<1> QED BY <1>1, <1>2, BeginStep

LEMMA Inductive == IInv /\ [Next]_vars => IInv'
<1> SUFFICES ASSUME IInv, [Next]_vars PROVE IInv'
  OBVIOUS
<1>1. CASE UNCHANGED vars
  BY <1>1 DEF vars, IInv, TypeOK, StacksAreSound, KnowEachOther, NeedsAreRecorded,
              NothingRequiresIt, RowsAreSelfless, ArchiveInHand, AboutToBeTrue, RowIsTrue,
              Selfless, Someone, On, Idle, At, Top, Id, Kind, Outermost
<1>2. ASSUME NEW p \in Procs, Step(p) PROVE IInv'
  <2>1. CASE Check(p)
    BY <2>1, CheckStep, GuardStep
  <2> QED BY <1>2, <2>1, AlreadyInstalledStep, ResolveStep, FailStep, DependencyStep,
             DownloadBeginsStep, DownloadEndsStep, ExtractBeginsStep, SpoiledStep,
             ExtractEndsStep, RecordStep, GuardStep, RemoveEndsStep, RemoveFailsStep, ForgetStep
             DEF Step
<1>3. CASE Next
  BY <1>2, <1>3, AskStep DEF Next
<1> QED BY <1>1, <1>3

LEMMA Invariance == Spec => []IInv
BY Initially, Inductive, PTL DEF Spec

------------------------------------------------------------------------------
(***************************************************************************)
(* The theorems.                                                           *)
(***************************************************************************)

\* Every state of the installer is well typed, for any number of processes.
THEOREM Typing == Spec => []TypeOK
<1>1. IInv => TypeOK
  BY DEF IInv
<1> QED BY <1>1, Invariance, PTL

\* A row is true of the disk, whatever failed on the way and however many
\* processes install at once: where nobody is at work on a recorded entry that
\* nothing spoiled, its files are there (plugins.go, install and Uninstall; the
\* comment at handlePluginUninstall's guard).  An archive is whole when its one
\* installer opens it, and so are the required entries when it extracts.
THEOREM RowsTellTheTruth == Spec => []RowsAreTrue
<1> SUFFICES ASSUME IInv PROVE RowsAreTrue
  BY Invariance, PTL
<1>1. ASSUME NEW pcs, NEW i, Someone(pcs, i) PROVE InHand(i)
  <2>1. PICK q \in Procs : ~Idle(q) /\ Id(q) = i
    BY <1>1 DEF Someone, On
  <2>2. 1 \in DOMAIN stack[q] /\ Top(q) = stack[q][1]
    <3>1. stack[q] \in Seq(Frame) /\ stack[q] # << >> /\ Top(q) = stack[q][1]
      BY <2>1, AtWork DEF IInv
    <3> QED BY <3>1, FirstCall
  <2> QED BY <2>1, <2>2 DEF InHand, Id
<1>2. RecordedOnDisk
  BY <1>1 DEF RecordedOnDisk, IInv, RowIsTrue
<1>3. ArchiveIsWhole
  BY DEF ArchiveIsWhole, IInv, ArchiveInHand
<1>4. DependenciesOnDisk
  <2> SUFFICES ASSUME NEW p \in Procs, At(p, "extract"), beside[p] = {},
                      NEW d \in Requires[Id(p)] \ spoiled
               PROVE  disk[d] = "whole"
    BY DEF DependenciesOnDisk
  <2>1. ~Idle(p) /\ Top(p).pc \in Past \ {"deps"} /\ Top(p).pc = "extract"
    BY DEF At, Past
  <2>2. d \in recorded /\ Id(p) \in Selfless
    BY <2>1, PastItsNeeds
  <2>3. d # Id(p)
    BY <2>2 DEF Selfless
  <2>4. disk[d] = "whole" \/ Someone({"extract", "remove", "forget"}, d)
    BY <2>2 DEF IInv, RowIsTrue
  <2>5. ASSUME Someone({"extract", "remove", "forget"}, d) PROVE FALSE
    <3>1. PICK q \in Procs : On(q, {"extract", "remove", "forget"}, d)
      BY <2>5 DEF Someone
    <3>2. q # p /\ ~Idle(q)
      BY <2>3, <3>1 DEF On
    <3>3. Kind(q) \in beside[p]
      BY <2>1, <3>2 DEF IInv, KnowEachOther
    <3> QED BY <3>3
  <2> QED BY <2>4, <2>5
<1> QED BY <1>2, <1>3, <1>4 DEF RowsAreTrue

\* A step that is beside no uninstall, or is none beside anything, leaves no
\* recorded entry without what it requires.
LEMMA RowsKeepTheirNeeds ==
    ASSUME IInv, [Next]_vars
    PROVE  \/ Unmet' \subseteq Unmet
           \/ \E p \in Procs : ~Idle(p) /\ Meddled(p) /\ stack'[p] # stack[p]
<1>1. CASE recorded' = recorded
  BY <1>1 DEF Unmet
<1>2. ASSUME NEW p \in Procs, Record(p), ~Meddled(p) PROVE Unmet' \subseteq Unmet
  <2>1. ~Idle(p) /\ Top(p).pc = "post" /\ recorded' = recorded \union {Id(p)}
    BY <1>2 DEF Record, At
  <2>2. Kind(p) = "install"
    BY <2>1, AtWork DEF IInv, Uninstall
  <2>3. "uninstall" \notin beside[p]
    BY <1>2, <2>2 DEF Meddled
  <2>4. Requires[Id(p)] \subseteq recorded
    BY <2>1, <2>3, PastItsNeeds DEF Past
  <2> QED BY <2>1, <2>4 DEF Unmet
<1>3. ASSUME NEW p \in Procs, Forget(p), ~Meddled(p) PROVE Unmet' \subseteq Unmet
  <2>1. ~Idle(p) /\ Top(p).pc = "forget" /\ At(p, "forget") /\ recorded' = recorded \ {Id(p)}
    BY <1>3 DEF Forget, At
  <2>2. Kind(p) = "uninstall"
    BY <2>1, AtWork DEF IInv, Uninstall
  <2>3. \A e \in recorded : Id(p) \notin Requires[e]
    BY <1>3, <2>1, <2>2 DEF Meddled, IInv, NothingRequiresIt
  <2> QED BY <2>1, <2>3 DEF Unmet
<1>4. ASSUME NEW p \in Procs, Record(p) \/ Forget(p) PROVE stack'[p] # stack[p] /\ ~Idle(p)
  <2>1. ~Idle(p) /\ Continue(p, Tail(stack[p]))
    BY <1>4 DEF Record, Forget, At, Return
  <2>2. stack[p] \in Seq(Frame) /\ stack[p] # << >>
    BY <2>1, AtWork DEF IInv
  <2>3. Tail(stack[p]) # stack[p] /\ Tail(stack[p]) \in Seq(Frame)
    <3>1. Tail(stack[p]) \in Seq(Frame) /\ Len(Tail(stack[p])) = Len(stack[p]) - 1
      BY <2>2, TopReturns
    <3>2. Len(stack[p]) \in Nat /\ Len(stack[p]) - 1 # Len(stack[p])
      BY <2>2
    <3> QED BY <3>1, <3>2
  <2> QED BY <2>1, <2>3, OneContinues DEF IInv
<1>5. recorded' = recorded \/ \E p \in Procs : Record(p) \/ Forget(p)
  BY DEF Next, vars, Step, AskInstall, AskUninstall, Begin, AlreadyInstalled, Resolve, ResolveFails,
     Dependency, DownloadBegins, DownloadEnds, DownloadFails, ExtractBegins, ArchiveSpoiled,
     ExtractEnds, ExtractFails, PostInstallFails, Guard, Check, RemoveEnds, RemoveFails
<1> QED BY <1>1, <1>2, <1>3, <1>4, <1>5

\* What is installed has what it requires, through any number of installs at
\* once and any failure (plugins.go: install brings the dependencies in first,
\* and Uninstall "refuses to remove something other installed components
\* need"); only an uninstall that overlaps another operation can break it.
THEOREM RequirementsStayMet == Spec => DependenciesStayMet
<1>1. IInv /\ [Next]_vars =>
        [\/ Unmet' \subseteq Unmet
         \/ \E p \in Procs : ~Idle(p) /\ Meddled(p) /\ stack'[p] # stack[p]]_vars
  BY RowsKeepTheirNeeds
<1> QED BY <1>1, Invariance, PTL DEF Spec, DependenciesStayMet
==============================================================================
