-------------------------- MODULE CrewBatchesProofs --------------------------
(***************************************************************************)
(* That a seafarer's month is entitled on one vessel only, and what the    *)
(* batches bring out, for any crews, vessels, currencies, screens and      *)
(* bounds.                                                                 *)
(*                                                                         *)
(* An approval looks for an overlap when it begins and writes when it      *)
(* ends.  What it saw lasts because a new entitlement of the seafarer      *)
(* elsewhere needs his lock, which the approval holds; and it holds the    *)
(* right locks because the cases of a version never change.                *)
(*                                                                         *)
(* What goes out is read and written in one step, so its two properties    *)
(* are of that step; they need the rows to be a sequence, which a batch    *)
(* only extends, and a batch to be finite, as its cases and decisions are. *)
(***************************************************************************)
EXTENDS CrewBatches, SequenceTheorems, FiniteSetTheorems, TLAPS

----------------------------------------------------------------------------
(* The invariant *)

IsSequence(s) == s \in Seq({s[i] : i \in DOMAIN s})

IsVersion(x) ==
  /\ {"status", "entries"} \subseteq DOMAIN x
  /\ IsFiniteSet(x.entries) /\ \A e \in x.entries : e.key[1] \in Crews
Shape ==
  /\ DOMAIN work = Tabs /\ DOMAIN holder = Cycles /\ DOMAIN versions = Cycles
  /\ \A c \in Cycles :
       /\ DOMAIN holder[c] = Keys
       /\ IsSequence(versions[c])
       /\ \A v \in DOMAIN versions[c] : IsVersion(versions[c][v])

\* An approval under way is of a version that is there, under that version's locks
Working(u) ==
  /\ DOMAIN work[u] = {"locks", "cycle", "version"}
  /\ work[u].cycle \in Cycles
  /\ work[u].version \in DOMAIN versions[work[u].cycle]
  /\ work[u].locks = ApprovalLocks(work[u].cycle, work[u].version)
LocksAreOfTheVersion == \A u \in Tabs : work[u] = Idle \/ Working(u)

LocksExclude ==
  \A u, w \in Tabs : u # w => work[u].locks \cap work[w].locks = {}

\* What an approval looked for when it began is still not there
NoOverlapSince ==
  \A u \in Tabs : work[u] # Idle =>
    \A e \in versions[work[u].cycle][work[u].version].entries :
      ~Overlaps(work[u].cycle, e.key[1])

IInv == Shape /\ LocksAreOfTheVersion /\ LocksExclude /\ NoOverlapSince /\ ServiceIsPaidOnce

----------------------------------------------------------------------------
(* Sequences of versions *)

LEMMA FunctionIsSequence ==
  ASSUME NEW n \in Nat, NEW s, s = [i \in 1..n |-> s[i]]
  PROVE  IsSequence(s) /\ DOMAIN s = 1..n
BY DEF IsSequence

LEMMA SequenceIsFunction ==
  ASSUME NEW s, IsSequence(s)
  PROVE  Len(s) \in Nat /\ DOMAIN s = 1..Len(s) /\ s = [i \in 1..Len(s) |-> s[i]]
BY DEF IsSequence

LEMMA Appended ==
  ASSUME NEW s, IsSequence(s), NEW x
  PROVE  /\ IsSequence(Append(s, x))
         /\ DOMAIN Append(s, x) = 1..(Len(s) + 1)
         /\ \A i \in DOMAIN s : Append(s, x)[i] = s[i]
         /\ Append(s, x)[Len(s) + 1] = x
<1> DEFINE S == {s[i] : i \in DOMAIN s} \cup {x}
<1>1. s \in Seq(S) /\ x \in S
  BY DEF IsSequence
<1>2. /\ Append(s, x) \in Seq(S)
      /\ Len(Append(s, x)) = Len(s) + 1
      /\ \A i \in 1..Len(s) : Append(s, x)[i] = s[i]
      /\ Append(s, x)[Len(s) + 1] = x
  BY <1>1, AppendProperties
<1>3. Append(s, x) = [i \in 1..(Len(s) + 1) |-> Append(s, x)[i]] /\ Len(s) + 1 \in Nat
  <2>1. PICK a : a = Append(s, x)
    OBVIOUS
  <2>2. a \in [1..(Len(s) + 1) -> S]
    BY <1>1, <1>2, <2>1, LenProperties
  <2>3. a = [i \in 1..(Len(s) + 1) |-> a[i]]
    BY <2>2, Zenon
  <2>4. Len(s) + 1 \in Nat
    BY <1>1, SequenceIsFunction
  <2> QED
    BY <2>1, <2>3, <2>4
<1> QED
  BY <1>1, <1>2, <1>3, FunctionIsSequence, SequenceIsFunction

LEMMA Concatenated ==
  ASSUME NEW s, IsSequence(s), NEW t, IsSequence(t)
  PROVE  /\ IsSequence(s \o t) /\ DOMAIN s \subseteq DOMAIN (s \o t)
         /\ \A i \in DOMAIN (s \o t) \ DOMAIN s : \E j \in DOMAIN t : (s \o t)[i] = t[j]
<1> DEFINE S == {s[i] : i \in DOMAIN s} \cup {t[i] : i \in DOMAIN t}
<1>1. s \in Seq(S) /\ t \in Seq(S)
  BY DEF IsSequence
<1>2. PICK m, n, a : m = Len(s) /\ n = Len(t) /\ a = s \o t
  OBVIOUS
<1>3. /\ m \in Nat /\ n \in Nat
      /\ DOMAIN s = 1..m /\ DOMAIN t = 1..n
  BY <1>2, SequenceIsFunction
<1>4. /\ a \in Seq(S) /\ Len(a) = m + n
      /\ \A i \in 1..(m + n) : a[i] = IF i <= m THEN s[i] ELSE t[i - m]
  BY <1>1, <1>2, ConcatProperties
<1>5. DOMAIN a = 1..(m + n) /\ IsSequence(a)
  <2>1. a \in [1..(m + n) -> S]
    BY <1>3, <1>4, LenProperties
  <2>2. a = [i \in 1..(m + n) |-> a[i]] /\ m + n \in Nat
    BY <1>3, <2>1
  <2> QED
    BY <2>2, FunctionIsSequence
<1>6. ASSUME NEW i \in DOMAIN a \ DOMAIN s PROVE \E j \in DOMAIN t : a[i] = t[j]
  <2>1. i \in 1..(m + n) /\ i > m /\ i - m \in 1..n
    BY <1>3, <1>5
  <2> QED
    BY <1>3, <1>4, <2>1
<1>7. DOMAIN s \subseteq DOMAIN a
  BY <1>3, <1>5
<1> QED
  BY <1>2, <1>5, <1>6, <1>7

----------------------------------------------------------------------------
(* Finite sets *)

LEMMA FiniteImage ==
  ASSUME NEW S, IsFiniteSet(S), NEW F
  PROVE  IsFiniteSet({F[x] : x \in S})
<1>1. PICK T, f : T = {F[x] : x \in S} /\ f = [x \in S |-> F[x]]
  OBVIOUS
<1>2. f \in Surjection(S, T)
  BY <1>1 DEF Surjection
<1> QED
  BY <1>1, <1>2, FS_Surjection

\* A finite set can be put into a sequence, in which nothing else is
LEMMA Enumerated ==
  ASSUME NEW S, IsFiniteSet(S)
  PROVE  IsSequence(SetToSeq(S)) /\ \A i \in DOMAIN SetToSeq(S) : SetToSeq(S)[i] \in S
<1>1. PICK n : n = Cardinality(S)
  OBVIOUS
<1>2. n \in Nat /\ \E f \in [1..n -> S] : IsInjective(f)
  <2>1. n \in Nat /\ ExistsBijection(1..n, S)
    BY <1>1, FS_CardinalityType
  <2> QED
    BY <2>1 DEF ExistsBijection, Bijection, Injection, IsInjective
<1>3. PICK q : q = SetToSeq(S)
  OBVIOUS
<1>4. q \in [1..n -> S]
  BY <1>1, <1>2, <1>3 DEF SetToSeq
<1>5. q = [i \in 1..n |-> q[i]]
  BY <1>4
<1> QED
  BY <1>2, <1>3, <1>4, <1>5, FunctionIsSequence

----------------------------------------------------------------------------
(* What each step leaves alone *)

\* A step keeps the shape, and the cases of every version there is
Keeps ==
  /\ Shape'
  /\ \A c \in Cycles : \A v \in DOMAIN versions[c] :
       v \in DOMAIN versions'[c] /\ versions'[c][v].entries = versions[c][v].entries

LEMMA SubmitKeeps ==
  ASSUME Shape, NEW c \in Cycles, NEW keys \in SUBSET Keys, Submit(c, keys)
  PROVE  Keeps /\ UNCHANGED <<holder, work>>
<1> DEFINE old == versions[c]
<1>1. PICK g, x :
        /\ g = [v \in DOMAIN old |->
                  IF v \in Submitted(old) THEN [old[v] EXCEPT !.status = "superseded"]
                  ELSE old[v]]
        /\ IsVersion(x)
        /\ versions' = [versions EXCEPT ![c] = Append(g, x)]
  <2>1. PICK x : x = [status   |-> "submitted",
                      entries  |-> {Case(c, k) : k \in keys},
                      replaces |-> UNION {Orphans(c, k[1]) : k \in keys},
                      rate     |-> IF \E k \in keys : k[1] \in linked THEN rate ELSE 0]
    OBVIOUS
  <2>2. PICK g : g = [v \in DOMAIN old |->
                        IF v \in Submitted(old) THEN [old[v] EXCEPT !.status = "superseded"]
                        ELSE old[v]]
    OBVIOUS
  <2>3. versions' = [versions EXCEPT ![c] = Append(g, x)]
    BY <2>1, <2>2 DEF Submit
  <2>4. IsVersion(x)
    <3>1. \A k \in keys : Case(c, k).key[1] \in Crews
      BY DEF Case, Keys
    <3>2. IsFiniteSet({Case(c, k) : k \in keys})
      <4>1. IsFiniteSet(keys)
        BY CrewsAssumption, FS_Product, FS_Subset DEF Keys
      <4>2. PICK f : f = [k \in keys |-> Case(c, k)]
        OBVIOUS
      <4>3. {f[k] : k \in keys} = {Case(c, k) : k \in keys}
        BY <4>2
      <4> QED
        BY <4>1, <4>3, FiniteImage
    <3> QED
      BY <2>1, <3>1, <3>2 DEF IsVersion
  <2> QED
    BY <2>2, <2>3, <2>4
<1>2. IsSequence(old) /\ Len(old) \in Nat /\ DOMAIN old = 1..Len(old)
  BY SequenceIsFunction DEF Shape
<1>3. IsSequence(g) /\ DOMAIN g = DOMAIN old
  <2>1. g = [i \in 1..Len(old) |-> g[i]]
    BY <1>1, <1>2
  <2> QED
    BY <2>1, <1>2, FunctionIsSequence
<1>4. \A v \in DOMAIN old :
        g[v].entries = old[v].entries /\ IsVersion(g[v])
  BY <1>1 DEF Shape, IsVersion
<1>5. PICK a : a = Append(g, x)
  OBVIOUS
<1>6. /\ IsSequence(a)
      /\ \A v \in DOMAIN old : v \in DOMAIN a /\ a[v].entries = old[v].entries
      /\ \A v \in DOMAIN a : IsVersion(a[v])
  <2>1. Len(g) = Len(old) /\ DOMAIN g = 1..Len(g)
    BY <1>2, <1>3, SequenceIsFunction
  <2>2. /\ IsSequence(a) /\ DOMAIN a = 1..(Len(old) + 1)
        /\ \A v \in DOMAIN g : a[v] = g[v]
        /\ a[Len(old) + 1] = x
    BY <1>3, <1>5, <2>1, Appended
  <2>3. \A v \in 1..(Len(old) + 1) : v \in 1..Len(old) \/ v = Len(old) + 1
    BY <1>2
  <2> QED
    <3>1. \A v \in DOMAIN old : v \in DOMAIN a /\ a[v].entries = old[v].entries
      BY <1>2, <1>3, <1>4, <2>2
    <3>2. \A v \in DOMAIN a : IsVersion(a[v])
      BY <1>1, <1>2, <1>3, <1>4, <2>2, <2>3
    <3> QED
      BY <2>2, <3>1, <3>2
<1>7. versions' = [versions EXCEPT ![c] = a] /\ UNCHANGED <<holder, work>>
  BY <1>1, <1>5 DEF Submit
<1> QED
  BY <1>6, <1>7 DEF Keeps, Shape

LEMMA RejectKeeps ==
  ASSUME Shape, NEW c \in Cycles, NEW v \in DOMAIN versions[c], Reject(c, v)
  PROVE  Keeps /\ UNCHANGED <<holder, work>>
<1>1. PICK g : g = [versions[c] EXCEPT ![v].status = "rejected"]
  OBVIOUS
<1>2. versions' = [versions EXCEPT ![c] = g] /\ UNCHANGED <<holder, work>>
  BY <1>1 DEF Reject, Shape
<1>3. IsSequence(g) /\ DOMAIN g = DOMAIN versions[c]
  <2>1. Len(versions[c]) \in Nat /\ DOMAIN versions[c] = 1..Len(versions[c])
    BY SequenceIsFunction DEF Shape
  <2>2. g = [i \in 1..Len(versions[c]) |-> g[i]]
    BY <1>1, <2>1
  <2> QED
    BY <2>1, <2>2, FunctionIsSequence
<1>4. \A w \in DOMAIN versions[c] :
        g[w].entries = versions[c][w].entries /\ IsVersion(g[w])
  BY <1>1 DEF Shape, IsVersion
<1> QED
  BY <1>2, <1>3, <1>4 DEF Keeps, Shape

LEMMA BeginKeeps ==
  ASSUME Shape, NEW u \in Tabs, NEW c \in Cycles, NEW v \in DOMAIN versions[c],
         BeginApprove(u, c, v)
  PROVE  Keeps /\ UNCHANGED <<holder, versions>>
BY DEF BeginApprove, recordVars, Keeps, Shape

\* The end of an approval entitles its version's cases, and no others that were not
LEMMA FinishKeeps ==
  ASSUME Shape, LocksAreOfTheVersion, NEW u \in Tabs, FinishApprove(u)
  PROVE  /\ Keeps /\ Working(u)
         /\ work' = [work EXCEPT ![u] = Idle]
         /\ \A d \in Cycles, k \in Keys :
              holder'[d][k] # 0 /\ holder[d][k] = 0 =>
                /\ d = work[u].cycle
                /\ \E e \in versions[d][work[u].version].entries : e.key = k
<1>1. Working(u) /\ work' = [work EXCEPT ![u] = Idle]
  BY DEF FinishApprove, LocksAreOfTheVersion
<1>2. PICK c, v : c = work[u].cycle /\ v = work[u].version
  OBVIOUS
<1>3. c \in Cycles /\ v \in DOMAIN versions[c]
  BY <1>1, <1>2 DEF Working
<1>4. PICK taken, lost, h, g :
        /\ h = [k \in Keys |-> IF \E e \in versions[c][v].entries : e.key = k THEN v
                               ELSE IF k \in taken THEN 0 ELSE holder[c][k]]
        /\ g = [n \in DOMAIN versions[c] |->
                  IF n = v THEN [versions[c][n] EXCEPT !.status = "approved"]
                  ELSE IF n \in lost THEN [versions[c][n] EXCEPT !.status = "superseded"]
                  ELSE versions[c][n]]
        /\ holder' = [holder EXCEPT ![c] = h]
        /\ versions' = [versions EXCEPT ![c] = g]
  <2>1. PICK taken, after :
          /\ after = AfterApproval(c, v, taken)
          /\ holder' = [holder EXCEPT ![c] = after.holder]
          /\ versions' = [versions EXCEPT ![c] = after.versions]
    BY <1>2 DEF FinishApprove
  <2>2. PICK lost :
          after.versions = [n \in DOMAIN versions[c] |->
             IF n = v THEN [versions[c][n] EXCEPT !.status = "approved"]
             ELSE IF n \in lost THEN [versions[c][n] EXCEPT !.status = "superseded"]
             ELSE versions[c][n]]
    BY <2>1 DEF AfterApproval
  <2>3. after.holder = [k \in Keys |-> IF \E e \in versions[c][v].entries : e.key = k THEN v
                                       ELSE IF k \in taken THEN 0 ELSE holder[c][k]]
    BY <2>1 DEF AfterApproval
  <2>4. PICK h, g : h = after.holder /\ g = after.versions
    OBVIOUS
  <2>5. holder' = [holder EXCEPT ![c] = h] /\ versions' = [versions EXCEPT ![c] = g]
    BY <2>1, <2>4
  <2>6. h = [k \in Keys |-> IF \E e \in versions[c][v].entries : e.key = k THEN v
                            ELSE IF k \in taken THEN 0 ELSE holder[c][k]]
    BY <2>3, <2>4
  <2>7. g = [n \in DOMAIN versions[c] |->
               IF n = v THEN [versions[c][n] EXCEPT !.status = "approved"]
               ELSE IF n \in lost THEN [versions[c][n] EXCEPT !.status = "superseded"]
               ELSE versions[c][n]]
    BY <2>2, <2>4
  <2> QED
    BY <2>5, <2>6, <2>7
<1>5. IsSequence(g) /\ DOMAIN g = DOMAIN versions[c]
  <2>1. Len(versions[c]) \in Nat /\ DOMAIN versions[c] = 1..Len(versions[c])
    BY <1>3, SequenceIsFunction DEF Shape
  <2>2. g = [i \in 1..Len(versions[c]) |-> g[i]]
    BY <1>4, <2>1
  <2> QED
    BY <2>1, <2>2, FunctionIsSequence
<1>6. \A w \in DOMAIN versions[c] :
        g[w].entries = versions[c][w].entries /\ IsVersion(g[w])
  BY <1>3, <1>4 DEF Shape, IsVersion
<1>7. Keeps
  BY <1>1, <1>3, <1>4, <1>5, <1>6 DEF Keeps, Shape
<1>8. ASSUME NEW d \in Cycles, NEW k \in Keys, holder'[d][k] # 0, holder[d][k] = 0
      PROVE  d = c /\ \E e \in versions[d][v].entries : e.key = k
  BY <1>3, <1>4, <1>8 DEF Shape
<1> QED
  BY <1>1, <1>2, <1>7, <1>8

\* The other steps touch none of the three
LEMMA OthersKeep ==
  ASSUME [CrewNext]_crewVars
  PROVE  \/ UNCHANGED <<versions, holder, work>>
         \/ \E c \in Cycles, keys \in SUBSET Keys : Submit(c, keys)
         \/ \E c \in Cycles : \E v \in DOMAIN versions[c] :
              Reject(c, v) \/ \E u \in Tabs : BeginApprove(u, c, v)
         \/ \E u \in Tabs : FinishApprove(u)
<1>1. CASE UNCHANGED crewVars
  BY <1>1 DEF crewVars, recordVars
<1>2. CASE Sources
  BY <1>2, ZenonT(60) DEF Sources, ImportFile, AssignFile, Link, ReviewAuthorization, ReviewItem,
       SetRate, ReviewAccount, recordVars
<1>3. CASE \E c \in Cycles : \E v \in DOMAIN versions[c], cur \in Currencies :
             ExportPayments(c, v, cur)
  BY <1>3 DEF ExportPayments
<1>4. CASE \E c \in Cycles : \E p \in Waiting(c) : OpenPage(p)
  BY <1>4 DEF OpenPage, recordVars
<1>5. CASE \E action \in {"replace", "settle", "keep"}, amount \in 0..Salary :
             ResolveBatch(action, amount)
  BY <1>5 DEF ResolveBatch
<1> QED
  BY <1>1, <1>2, <1>3, <1>4, <1>5 DEF CrewNext, Records

----------------------------------------------------------------------------
(* The invariant is kept *)

\* If no case is entitled anew and the approvals under way stay the same, all stays
LEMMA Quiet ==
  ASSUME IInv, Keeps, UNCHANGED <<holder, work>>
  PROVE  IInv'
<1>1. ASSUME NEW u \in Tabs, Working(u) PROVE Working(u)'
  BY <1>1 DEF Working, ApprovalLocks, Keeps
<1>2. NoOverlapSince'
  <2> SUFFICES ASSUME NEW u \in Tabs, work[u] # Idle,
                      NEW e \in versions'[work[u].cycle][work[u].version].entries
               PROVE  ~Overlaps(work[u].cycle, e.key[1])'
    BY DEF NoOverlapSince, Idle
  <2>1. e \in versions[work[u].cycle][work[u].version].entries
    BY DEF IInv, LocksAreOfTheVersion, Working, Keeps
  <2>2. ~Overlaps(work[u].cycle, e.key[1])
    BY <2>1 DEF IInv, NoOverlapSince
  <2> QED
    BY <2>2 DEF Overlaps
<1> QED
  BY <1>1, <1>2 DEF IInv, Keeps, LocksAreOfTheVersion, LocksExclude, ServiceIsPaidOnce, Idle

LEMMA BeginStep ==
  ASSUME IInv, NEW u \in Tabs, NEW c \in Cycles, NEW v \in DOMAIN versions[c],
         BeginApprove(u, c, v)
  PROVE  IInv'
<1>1. Keeps /\ UNCHANGED <<holder, versions>>
  BY BeginKeeps DEF IInv
<1>2. PICK locks : locks = ApprovalLocks(c, v)
  OBVIOUS
<1>3. work' = [work EXCEPT ![u] = [locks |-> locks, cycle |-> c, version |-> v]]
  BY <1>2 DEF BeginApprove
<1>4. locks = ApprovalLocks(c, v)'
  BY <1>1, <1>2 DEF ApprovalLocks
<1>5. Working(u)'
  BY <1>1, <1>3, <1>4 DEF Working, IInv, Shape
<1>6. ASSUME NEW w \in Tabs, w # u PROVE work'[w] = work[w] /\ (Working(w) => Working(w)')
  BY <1>1, <1>3, <1>6 DEF Working, ApprovalLocks, IInv, Shape
<1>7. LocksAreOfTheVersion'
  BY <1>5, <1>6 DEF IInv, LocksAreOfTheVersion, Idle
<1>8. ASSUME NEW w \in Tabs, w # u PROVE work[w].locks \cap locks = {}
  BY <1>2 DEF BeginApprove, Free, Held
<1>9. LocksExclude'
  BY <1>3, <1>6, <1>8 DEF IInv, LocksExclude, Shape
<1>10. NoOverlapSince'
  <2>1. \A e \in versions[c][v].entries : ~Overlaps(c, e.key[1])
    BY DEF BeginApprove, Approvable
  <2>2. work'[u].cycle = c /\ work'[u].version = v
    BY <1>3 DEF IInv, Shape
  <2> QED
    BY <1>1, <1>6, <2>1, <2>2 DEF IInv, NoOverlapSince, Overlaps
<1> QED
  BY <1>1, <1>7, <1>9, <1>10 DEF IInv, Keeps, ServiceIsPaidOnce

LEMMA FinishStep ==
  ASSUME IInv, NEW u \in Tabs, FinishApprove(u)
  PROVE  IInv'
<1>1. /\ Keeps /\ Working(u)
      /\ work' = [work EXCEPT ![u] = Idle]
      /\ \A d \in Cycles, k \in Keys :
           holder'[d][k] # 0 /\ holder[d][k] = 0 =>
             /\ d = work[u].cycle
             /\ \E e \in versions[d][work[u].version].entries : e.key = k
  BY FinishKeeps DEF IInv
<1>2. ASSUME NEW w \in Tabs, w # u PROVE work'[w] = work[w] /\ (Working(w) => Working(w)')
  BY <1>1, <1>2 DEF Working, ApprovalLocks, Keeps, IInv, Shape
<1>3. work'[u] = Idle /\ Idle.locks = {}
  BY <1>1 DEF IInv, Shape, Idle
<1>4. LocksAreOfTheVersion' /\ LocksExclude'
  BY <1>2, <1>3 DEF IInv, LocksAreOfTheVersion, LocksExclude
<1>5. work[u] # Idle
  BY DEF FinishApprove
<1>6. PICK c, v : c = work[u].cycle /\ v = work[u].version
  OBVIOUS
<1>7. \* who is entitled anew has no entitlement elsewhere
      ASSUME NEW d \in Cycles, NEW s \in Crews, NEW cur \in Currencies,
             holder'[d][<<s, cur>>] # 0, holder[d][<<s, cur>>] = 0
      PROVE  d = c /\ CrewLock(s) \in work[u].locks /\ ~Overlaps(c, s)
  <2>1. PICK e \in versions[c][v].entries : d = c /\ e.key = <<s, cur>>
    BY <1>1, <1>6, <1>7 DEF Keys
  <2>2. e.key[1] = s
    BY <2>1
  <2> QED
    BY <1>1, <1>5, <1>6, <2>1, <2>2 DEF IInv, NoOverlapSince, Working, ApprovalLocks
<1>8. NoOverlapSince'
  <2> SUFFICES ASSUME NEW w \in Tabs, work'[w] # Idle,
                      NEW e \in versions'[work'[w].cycle][work'[w].version].entries
               PROVE  ~(\E d \in Cycles \ {work'[w].cycle}, cur \in Currencies :
                           holder'[d][<<e.key[1], cur>>] # 0)
    BY DEF NoOverlapSince, Overlaps, Idle
  <2>1. w # u /\ work'[w] = work[w]
    BY <1>2, <1>3
  <2>2. PICK b, n : b = work[w].cycle /\ n = work[w].version
    OBVIOUS
  <2>3. Working(w) /\ b \in Cycles /\ n \in DOMAIN versions[b]
    BY <2>1, <2>2 DEF IInv, LocksAreOfTheVersion, Working
  <2>4. e \in versions[b][n].entries
    BY <1>1, <2>1, <2>2, <2>3 DEF Keeps
  <2>5. ~Overlaps(b, e.key[1]) /\ CrewLock(e.key[1]) \in work[w].locks
    BY <2>1, <2>2, <2>3, <2>4 DEF IInv, NoOverlapSince, Working, ApprovalLocks
  <2>6. ASSUME NEW d \in Cycles \ {b}, NEW cur \in Currencies,
               holder'[d][<<e.key[1], cur>>] # 0
        PROVE  FALSE
    <3>1. holder[d][<<e.key[1], cur>>] = 0 /\ e.key[1] \in Crews
      BY <2>3, <2>4, <2>5 DEF Overlaps, IInv, Shape, IsVersion
    <3>2. CrewLock(e.key[1]) \in work[u].locks
      BY <1>7, <2>6, <3>1
    <3> QED
      BY <2>1, <2>5, <3>2 DEF IInv, LocksExclude
  <2>7. work'[w].cycle = b
    BY <2>1, <2>2
  <2>8. ~(\E d \in Cycles \ {b}, cur \in Currencies : holder'[d][<<e.key[1], cur>>] # 0)
    BY <2>6
  <2> QED
    BY <2>7, <2>8
<1>9. ServiceIsPaidOnce'
  <2> SUFFICES ASSUME NEW s \in Crews, NEW a \in Cycles, NEW b \in Cycles, a # b,
                      NEW cur \in Currencies, NEW other \in Currencies,
                      holder'[a][<<s, cur>>] # 0, holder'[b][<<s, other>>] # 0
               PROVE  FALSE
    BY DEF ServiceIsPaidOnce
  <2>1. CASE holder[a][<<s, cur>>] # 0 /\ holder[b][<<s, other>>] # 0
    BY <2>1 DEF IInv, ServiceIsPaidOnce
  <2>2. CASE holder[a][<<s, cur>>] = 0
    BY <1>7, <2>2 DEF Overlaps
  <2>3. CASE holder[b][<<s, other>>] = 0
    BY <1>7, <2>3 DEF Overlaps
  <2> QED
    BY <2>1, <2>2, <2>3
<1> QED
  BY <1>1, <1>4, <1>8, <1>9 DEF IInv, Keeps

----------------------------------------------------------------------------
LEMMA Invariant == CrewSpec => []IInv
<1>1. CrewInit => IInv
  <2> SUFFICES ASSUME CrewInit PROVE IInv
    OBVIOUS
  <2>1. IsSequence(<< >>) /\ DOMAIN << >> = {}
    BY DEF IsSequence
  <2> QED
    BY <2>1 DEF CrewInit, IInv, Shape, LocksAreOfTheVersion, LocksExclude, NoOverlapSince,
         ServiceIsPaidOnce, Idle, Keys
<1>2. IInv /\ [CrewNext]_crewVars => IInv'
  <2> SUFFICES ASSUME IInv, [CrewNext]_crewVars PROVE IInv'
    OBVIOUS
  <2>1. CASE UNCHANGED <<versions, holder, work>>
    BY <2>1, Quiet DEF IInv, Keeps, Shape
  <2>2. CASE \E c \in Cycles, keys \in SUBSET Keys : Submit(c, keys)
    BY <2>2, SubmitKeeps, Quiet DEF IInv
  <2>3. CASE \E c \in Cycles : \E v \in DOMAIN versions[c] : Reject(c, v)
    BY <2>3, RejectKeeps, Quiet DEF IInv
  <2>4. CASE \E u \in Tabs, c \in Cycles : \E v \in DOMAIN versions[c] : BeginApprove(u, c, v)
    BY <2>4, BeginStep
  <2>5. CASE \E u \in Tabs : FinishApprove(u)
    BY <2>5, FinishStep
  <2> QED
    BY <2>1, <2>2, <2>3, <2>4, <2>5, OthersKeep
<1> QED
  BY <1>1, <1>2, PTL DEF CrewSpec

\* A seafarer's month is entitled on one vessel only, however many screens approve at
\* once, whatever is imported, linked, submitted or rejected meanwhile (approve, the
\* locks of the seafarers)
THEOREM PaidOnce == CrewSpec => []ServiceIsPaidOnce
BY Invariant, PTL DEF IInv

----------------------------------------------------------------------------
(* What goes out *)

RowsShape ==
  /\ DOMAIN rows = Cycles /\ DOMAIN decisions = Cycles
  /\ \A c \in Cycles : IsSequence(rows[c]) /\ IsFiniteSet(decisions[c])

\* A row of a batch is of a case of the version that entitles it: in full while
\* nothing stands for the case, or by a decision on that very content
Backed(c, v, e, r) ==
  /\ r.key = e.key /\ r.entry = e /\ r.version = v /\ holder[c][e.key] = v
  /\ \/ r.decision = Undecided /\ Prior(c, e.key) = {}
     \/ r.decision # Undecided /\ r.decision.entry = e

LEMMA RowsOfTheBatch ==
  ASSUME NEW c, NEW v, NEW cur, NEW b \in Batch(c, v, cur)
  PROVE  \E e : Backed(c, v, e, b.row)
<1>1. PICK e : /\ Entitled(c, v, e.key)
               /\ \/ Prior(c, e.key) = {} /\ b \in Fresh(c, v, e)
                  \/ b \in Answered(c, v, e)
  BY DEF Batch
<1>2. CASE Prior(c, e.key) = {} /\ b \in Fresh(c, v, e)
  <2>1. b.row = Row(v, e, "full", e.balance, Undecided)
    BY <1>2 DEF Fresh
  <2> QED
    BY <1>1, <1>2, <2>1 DEF Row, Backed, Entitled
<1>3. CASE b \in Answered(c, v, e)
  <2>1. PICK d \in Answers(c, e) :
          /\ d.action \in {"settle", "replace"}
          /\ \E kind, amount : b.row = Row(v, e, kind, amount, d)
    BY <1>3 DEF Answered
  <2>2. d.entry = e /\ d # Undecided
    BY <2>1 DEF Answers, Undecided
  <2> QED
    BY <1>1, <2>1, <2>2 DEF Row, Backed, Entitled
<1> QED
  BY <1>1, <1>2, <1>3

LEMMA BatchIsFinite ==
  ASSUME Shape, RowsShape, NEW c \in Cycles, NEW v \in DOMAIN versions[c], NEW cur
  PROVE  IsFiniteSet(Batch(c, v, cur))
<1>1. ASSUME NEW e PROVE IsFiniteSet(Fresh(c, v, e))
  <2>1. PICK x : x = [row |-> Row(v, e, "full", e.balance, Undecided), replaces |-> {}]
    OBVIOUS
  <2>2. Fresh(c, v, e) \subseteq {x}
    BY <2>1 DEF Fresh
  <2> QED
    BY <2>2, FS_Singleton, FS_Subset
<1>2. ASSUME NEW e PROVE IsFiniteSet(Answered(c, v, e))
  <2>1. PICK D : D = {x \in Answers(c, e) :
                        x.action = "settle" \/ (x.action = "replace" /\ e.balance > 0)}
    OBVIOUS
  <2>2. IsFiniteSet(D)
    BY <2>1, FS_Subset DEF RowsShape, Answers
  <2>3. PICK f : f = [d \in D |->
          IF d.action = "settle"
          THEN [row |-> Row(v, e, "settlement", d.amount, d), replaces |-> {}]
          ELSE [row |-> Row(v, e, "full", e.balance, d), replaces |-> Prior(c, e.key)]]
    OBVIOUS
  <2>4. {f[d] : d \in D} = Answered(c, v, e)
    BY <2>1, <2>3 DEF Answered
  <2> QED
    BY <2>2, <2>4, FiniteImage
<1>3. PICK E, f :
        /\ E = {x \in versions[c][v].entries :
                  x.key[2] = cur /\ x.payable /\ Entitled(c, v, x.key)}
        /\ f = [e \in E |-> IF Prior(c, e.key) = {} THEN Fresh(c, v, e)
                            ELSE IF rows[c][Max(Prior(c, e.key))].entry = e THEN {}
                            ELSE Answered(c, v, e)]
  OBVIOUS
<1>4. IsFiniteSet(E)
  BY <1>3, FS_Subset DEF Shape, IsVersion
<1>5. Batch(c, v, cur) = UNION {f[e] : e \in E}
  BY <1>3 DEF Batch
<1>6. IsFiniteSet({f[e] : e \in E})
  BY <1>4, FiniteImage
<1>7. \A T \in {f[e] : e \in E} : IsFiniteSet(T)
  BY <1>1, <1>2, <1>3, FS_EmptySet
<1> QED
  BY <1>5, <1>6, <1>7, FS_UNION

\* The new rows are those of the batch, after the others
LEMMA ExportStep ==
  ASSUME Shape, RowsShape, NEW c \in Cycles, NEW v \in DOMAIN versions[c], NEW cur,
         ExportPayments(c, v, cur)
  PROVE  /\ RowsShape'
         /\ \A d \in Cycles : \A i \in DOMAIN rows'[d] \ DOMAIN rows[d] :
              d = c /\ \E b \in Batch(c, v, cur) : rows'[d][i] = b.row
<1>1. PICK B, f : B = Batch(c, v, cur) /\ f = [b \in B |-> b.row]
  OBVIOUS
<1>2. PICK R, t : R = {b.row : b \in B} /\ t = SetToSeq(R)
  OBVIOUS
<1>3. IsSequence(t) /\ \A i \in DOMAIN t : \E b \in B : t[i] = b.row
  <2>1. {f[b] : b \in B} = R
    BY <1>1, <1>2
  <2>2. IsFiniteSet(R)
    BY <1>1, <2>1, BatchIsFinite, FiniteImage
  <2> QED
    BY <1>2, <2>2, Enumerated
<1>4. PICK gone, s :
        /\ s = [i \in DOMAIN rows[c] |->
                  IF i \in gone THEN [rows[c][i] EXCEPT !.standing = FALSE] ELSE rows[c][i]]
        /\ rows' = [rows EXCEPT ![c] = s \o t]
  BY <1>1, <1>2 DEF ExportPayments
<1>5. IsSequence(s) /\ DOMAIN s = DOMAIN rows[c]
  <2>1. Len(rows[c]) \in Nat /\ DOMAIN rows[c] = 1..Len(rows[c])
    BY SequenceIsFunction DEF RowsShape
  <2>2. s = [i \in 1..Len(rows[c]) |-> s[i]]
    BY <1>4, <2>1
  <2> QED
    BY <1>4, <2>1, <2>2, FunctionIsSequence
<1>6. PICK a : a = s \o t
  OBVIOUS
<1>7. IsSequence(a) /\ \A i \in DOMAIN a \ DOMAIN rows[c] : \E j \in DOMAIN t : a[i] = t[j]
  BY <1>3, <1>5, <1>6, Concatenated
<1>8. rows' = [rows EXCEPT ![c] = a] /\ UNCHANGED decisions
  BY <1>4, <1>6 DEF ExportPayments
<1> QED
  BY <1>1, <1>3, <1>7, <1>8 DEF RowsShape

LEMMA ResolveStep ==
  ASSUME RowsShape, NEW action, NEW amount, ResolveBatch(action, amount)
  PROVE  RowsShape' /\ \A d \in Cycles : DOMAIN rows'[d] = DOMAIN rows[d]
<1>1. PICK c, s, earlier, x, void :
        /\ s = [i \in DOMAIN rows[c] |->
                  IF i \in void THEN [rows[c][i] EXCEPT !.standing = FALSE] ELSE rows[c][i]]
        /\ rows' = [rows EXCEPT ![c] = s]
        /\ decisions' = [decisions EXCEPT ![c] = (@ \ earlier) \union {x}]
  <2>1. PICK c, k, row :
          c = page.cycle /\ k = page.entry.key /\ row = rows[c][page.row]
    OBVIOUS
  <2>2. PICK void, earlier, x :
          /\ void = IF action = "replace" /\ page.entry.balance <= 0
                    THEN Own(c, row.key) ELSE {}
          /\ earlier = {d \in decisions[c] : d.entry.key = k /\ d.row = page.row}
          /\ x = [entry |-> page.entry, row |-> page.row, action |-> action,
                  amount |-> amount, after |-> Len(rows[c])]
    OBVIOUS
  <2>3. PICK s : s = [i \in DOMAIN rows[c] |->
                        IF i \in void THEN [rows[c][i] EXCEPT !.standing = FALSE]
                        ELSE rows[c][i]]
    OBVIOUS
  <2>4. rows' = [rows EXCEPT ![c] = s]
    BY <2>1, <2>2, <2>3 DEF ResolveBatch
  <2>5. decisions' = [decisions EXCEPT ![c] = (@ \ earlier) \union {x}]
    BY <2>1, <2>2 DEF ResolveBatch
  <2> QED
    BY <2>3, <2>4, <2>5
<1>2. ASSUME c \in Cycles PROVE IsSequence(s) /\ DOMAIN s = DOMAIN rows[c]
  <2>1. Len(rows[c]) \in Nat /\ DOMAIN rows[c] = 1..Len(rows[c])
    BY <1>2, SequenceIsFunction DEF RowsShape
  <2>2. s = [i \in 1..Len(rows[c]) |-> s[i]]
    BY <1>1, <2>1
  <2> QED
    BY <1>1, <2>1, <2>2, FunctionIsSequence
<1>3. ASSUME c \in Cycles PROVE IsFiniteSet((decisions[c] \ earlier) \union {x})
  <2>1. IsFiniteSet(decisions[c] \ earlier)
    BY <1>3, FS_Subset DEF RowsShape
  <2> QED
    BY <2>1, FS_AddElement
<1> QED
  BY <1>1, <1>2, <1>3 DEF RowsShape

\* Only the exports and the owner's decisions touch rows and decisions
LEMMA RowsKept ==
  ASSUME [CrewNext]_crewVars
  PROVE  \/ UNCHANGED <<rows, decisions>>
         \/ \E c \in Cycles : \E v \in DOMAIN versions[c], cur \in Currencies :
              ExportPayments(c, v, cur)
         \/ \E action \in {"replace", "settle", "keep"}, amount \in 0..Salary :
              ResolveBatch(action, amount)
<1>1. CASE UNCHANGED crewVars
  BY <1>1 DEF crewVars, recordVars
<1>2. CASE Sources
  BY <1>2, ZenonT(60) DEF Sources, ImportFile, AssignFile, Link, ReviewAuthorization, ReviewItem,
       SetRate, ReviewAccount, recordVars
<1>3. CASE \E c \in Cycles, keys \in SUBSET Keys : Submit(c, keys)
  BY <1>3 DEF Submit
<1>4. CASE \E c \in Cycles : \E v \in DOMAIN versions[c] :
             Reject(c, v) \/ \E u \in Tabs : BeginApprove(u, c, v)
  BY <1>4 DEF Reject, BeginApprove, recordVars
<1>5. CASE \E u \in Tabs : FinishApprove(u)
  BY <1>5 DEF FinishApprove
<1>6. CASE \E c \in Cycles : \E p \in Waiting(c) : OpenPage(p)
  BY <1>6 DEF OpenPage, recordVars
<1> QED
  BY <1>1, <1>2, <1>3, <1>4, <1>5, <1>6 DEF CrewNext, Records

\* What a step brings out is a batch of one version
NewRows ==
  \A c \in Cycles : \A i \in DOMAIN rows'[c] \ DOMAIN rows[c] :
    \E v, cur : /\ Unspent(c, Batch(c, v, cur))
                /\ \E b \in Batch(c, v, cur) : rows'[c][i] = b.row

LEMMA RowsStep ==
  ASSUME IInv, RowsShape, [CrewNext]_crewVars
  PROVE  RowsShape' /\ NewRows
<1>1. CASE UNCHANGED <<rows, decisions>>
  BY <1>1 DEF RowsShape, NewRows
<1>2. ASSUME NEW c \in Cycles, NEW v \in DOMAIN versions[c], NEW cur \in Currencies,
             ExportPayments(c, v, cur)
      PROVE  RowsShape' /\ NewRows
  <2>1. Unspent(c, Batch(c, v, cur))
    BY <1>2 DEF ExportPayments
  <2> QED
    BY <1>2, <2>1, ExportStep DEF IInv, NewRows
<1>3. ASSUME NEW action, NEW amount, ResolveBatch(action, amount)
      PROVE  RowsShape' /\ NewRows
  BY <1>3, ResolveStep DEF NewRows
<1> QED
  BY <1>1, <1>2, <1>3, RowsKept

LEMMA RowsInvariant == CrewSpec => [](IInv /\ RowsShape)
<1>1. CrewInit => RowsShape
  BY FS_EmptySet DEF CrewInit, RowsShape, IsSequence
<1>2. IInv /\ RowsShape /\ [CrewNext]_crewVars => RowsShape'
  BY RowsStep
<1> QED
  BY <1>1, <1>2, Invariant, PTL DEF CrewSpec

\* What goes out, for any crews, versions, decisions and batches, is what stands
\* approved for the case at that moment; a decision brings it out for the very content
\* it was taken on, whatever was imported and approved since (exportPayments)
THEOREM RowsAreApproved == CrewSpec => RowsAreOfTheStandingApproval
<1>1. NewRows => \A c \in Cycles : \A i \in DOMAIN rows'[c] \ DOMAIN rows[c] :
        LET r == rows'[c][i] IN
        /\ holder[c][r.key] = r.version
        /\ r.decision # Undecided => r.decision.entry = r.entry
  BY RowsOfTheBatch DEF NewRows, Backed
<1> QED
  BY <1>1, RowsStep, RowsInvariant, PTL DEF CrewSpec, RowsAreOfTheStandingApproval

\* Nothing goes out in full, undecided, beside what stands for the case or for the
\* seafarer under a key that is gone, and a decision is spent by one row, for any
\* crews, currencies and sequence of batches and decisions (payableEntries)
THEOREM NothingAgainUndecided == CrewSpec => NothingGoesOutAgainUndecided
<1>1. NewRows => \A c \in Cycles : \A i \in DOMAIN rows'[c] \ DOMAIN rows[c] :
        LET r == rows'[c][i] IN
        /\ r.decision = Undecided =>
             \A j \in DOMAIN rows[c] :
               rows[c][j].standing /\ rows[c][j].key[1] = r.key[1] =>
                 rows[c][j].key # r.key /\ rows[c][j].key \in Live(c)
        /\ r.decision # Undecided =>
             \A j \in DOMAIN rows[c] : rows[c][j].decision # r.decision
  <2> SUFFICES ASSUME NEW c \in Cycles, NEW i \in DOMAIN rows'[c] \ DOMAIN rows[c],
                      NEW v, NEW cur, Unspent(c, Batch(c, v, cur)),
                      NEW b \in Batch(c, v, cur), rows'[c][i] = b.row,
                      NEW r, r = b.row, NEW j \in DOMAIN rows[c]
               PROVE  /\ r.decision = Undecided =>
                           (rows[c][j].standing /\ rows[c][j].key[1] = r.key[1] =>
                              rows[c][j].key # r.key /\ rows[c][j].key \in Live(c))
                      /\ r.decision # Undecided => rows[c][j].decision # r.decision
    BY DEF NewRows
  <2>1. PICK e : Backed(c, v, e, r)
    BY RowsOfTheBatch
  <2>2. Prior(c, e.key) = {} =>
          (rows[c][j].standing /\ rows[c][j].key[1] = e.key[1] =>
             rows[c][j].key # e.key /\ rows[c][j].key \in Live(c))
    BY DEF Prior, Own, Out
  <2> QED
    BY <2>1, <2>2 DEF Backed, Unspent
<1> QED
  BY <1>1, RowsStep, RowsInvariant, PTL DEF CrewSpec, NothingGoesOutAgainUndecided
=============================================================================
