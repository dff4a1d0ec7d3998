------------------------------- MODULE MonteCard -------------------------------
(***************************************************************************)
(* The profit card of the vessel Monte: one row, whose column "manual"     *)
(* holds the package of voyages and the inputs of the team.  It has three  *)
(* writers: the package pushed by a session (MonteIngestService), the      *)
(* inputs (MonteInputsService), and the save button of the card            *)
(* (VesselProfitService.save).                                             *)
(*                                                                         *)
(* The first two work under a lock of the row; the third reads without one *)
(* and writes the whole column later.  A card is open on what it read when *)
(* it was opened, and saves that.                                          *)
(***************************************************************************)
EXTENDS Integers, Sequences, SequencesExt, FiniteSetsExt

CONSTANTS
  Team,
  Packages,  \* what may be pushed or uploaded
  Hidden,    \* HIDDEN_VOYAGES
  Entries,   \* what the team may send: [kind, month, value, document]
  Monthly,   \* the kinds that belong to a month of the card
  Acceptable,  \* the values a kind admits
  MaxWrites, \* bound
  Absent

TeamInputs == [id : Nat, target : Nat \cup {Absent}]
Cards == [package : Packages, inputs : {Absent} \cup Seq(TeamInputs)]

\* Lists, and amounts in cents
ASSUME CardAssumption ==
  /\ Absent \notin Nat \cup Packages \cup Seq(TeamInputs) \cup Cards
  /\ \A p \in Packages :
       /\ p.at = Absent \/ p.at \in Int
       /\ p.voyages \in Seq({p.voyages[k] : k \in DOMAIN p.voyages})
       /\ p.monthly \in Seq({p.monthly[k] : k \in DOMAIN p.monthly})
       /\ \A k \in DOMAIN p.monthly : p.monthly[k].pos \in Int /\ p.monthly[k].fixed \in Int
       /\ \A k \in DOMAIN p.voyages :
            LET items == p.voyages[k].items IN
            /\ items \in Seq({items[i] : i \in DOMAIN items})
            /\ \A i \in DOMAIN items : items[i].usd \in Int

VARIABLES
  card,   \* the row's column, or Absent before there is a row
  open,   \* what the card open before each user shows
  hand,   \* the request of each user
  minted, \* inputs that were given an identifier
  writes  \* bound

cardVars == <<card, open, hand, minted, writes>>

----------------------------------------------------------------------------
(* A package: voyages with their items, and the months they come to *)

Net(v) == v.rev - v.cost
AddUp(F, S) == MapThenSumSet(LAMBDA x : F[x], S)

\* The voyages shown, by their place in the package
Shown(p) == {k \in DOMAIN p.voyages : p.voyages[k].no \notin Hidden}
In(p, month) == {k \in Shown(p) : p.voyages[k].month = month}
NetIn(p, month) == AddUp([k \in Shown(p) |-> Net(p.voyages[k])], In(p, month))

\* itemTotals: what is excluded counts for neither side
CountedItems(v, kind) == {k \in DOMAIN v.items : v.items[k].kind = kind /\ ~v.items[k].excluded}
ItemTotal(v, kind) == AddUp([k \in DOMAIN v.items |-> v.items[k].usd], CountedItems(v, kind))

VoyageAgrees(v) ==
  /\ v.items # <<>>
  /\ v.rev = ItemTotal(v, "rev") /\ v.cost = -ItemTotal(v, "cost")
  /\ \A k \in DOMAIN v.items : v.items[k].excluded => v.items[k].kind = "cost"
MonthAgrees(p, m) ==
  /\ m.vnet = NetIn(p, m.month) /\ m.trips = Cardinality(In(p, m.month))
  /\ m.fixed = FoldLeft(LAMBDA n, i : n + i.usd, m.regular, m.items)
  /\ \A i, j \in DOMAIN m.items : i # j => m.items[i].key # m.items[j].key
  /\ m.net = m.vnet + m.pos + m.fixed

Months(p) == {p.monthly[k].month : k \in DOMAIN p.monthly}
validateMontePackage(p) ==
  /\ Shown(p) # {}
  /\ \A i, j \in Shown(p) : i # j => p.voyages[i].no # p.voyages[j].no
  /\ \A k \in Shown(p) : VoyageAgrees(p.voyages[k]) /\ p.voyages[k].month \in Months(p)
  /\ \A k \in DOMAIN p.monthly : MonthAgrees(p, p.monthly[k])

----------------------------------------------------------------------------
(* Inputs *)

\* validateInput: a month of the card, a value within bounds, a document
validateInput(e, p) ==
  /\ e.kind \in Monthly => e.month \in Months(p)
  /\ e.value \in Acceptable[e.kind]
  /\ e.document

InputsOf(c) == IF c = Absent \/ c.inputs = Absent THEN <<>> ELSE c.inputs
Voided(inputs, id) == \E k \in DOMAIN inputs : inputs[k].target = id
Voidable(inputs, id) ==
  /\ \E k \in DOMAIN inputs : inputs[k].id = id /\ inputs[k].target = Absent
  /\ ~Voided(inputs, id)

----------------------------------------------------------------------------
(* Requests *)

Empty == [package |-> Absent, inputs |-> Absent]
EmptyHanded(u) == hand[u] = Absent
TakeUp(u, r) ==
  /\ EmptyHanded(u) /\ writes < MaxWrites
  /\ hand' = [hand EXCEPT ![u] = r]
  /\ writes' = writes + 1
  /\ UNCHANGED <<card, open, minted>>
PutDown(u) == hand' = [hand EXCEPT ![u] = Absent]

OpenCard(u) ==
  /\ EmptyHanded(u) /\ card # Absent /\ open[u] # card
  /\ open' = [open EXCEPT ![u] = card]
  /\ UNCHANGED <<card, hand, minted, writes>>

\* withVesselRow: the row, if there is one, is read under its lock, which is kept
\* until the commit
Unlocked(u) == TRUE \* mutant: the row is read without a lock
RowFree(u) == \A v \in Team \ {u} : hand[v] # Absent => ~hand[v].locks
BeginLocked(u) ==
  /\ RowFree(u)
  /\ \/ \E p \in Packages :
          /\ validateMontePackage(p)
          /\ TakeUp(u, [op |-> "ingest", read |-> card, locks |-> card # Absent, package |-> p])
     \/ \E e \in Entries :
          TakeUp(u, [op |-> "add", read |-> card, locks |-> card # Absent, entry |-> e])
     \/ \E k \in 1..minted :
          TakeUp(u, [op |-> "void", read |-> card, locks |-> card # Absent, target |-> k])

\* save: the row is read without a lock; the body is what the open card shows, or
\* that with another package uploaded, which the screen has checked
BeginSave(u) ==
  /\ open[u] # Absent
  /\ \E p \in {open[u].package} \cup {q \in Packages : validateMontePackage(q)} :
       TakeUp(u, [op |-> "save", read |-> card, locks |-> FALSE,
                  body |-> [open[u] EXCEPT !.package = p]])

\* The write waits for the row's lock, and is refused if it would insert a row that
\* another has inserted
Write(u, c) ==
  /\ RowFree(u)
  /\ IF hand[u].read = Absent /\ card # Absent THEN UNCHANGED card ELSE card' = c
Stays == UNCHANGED <<card, open, minted, writes>>

Read(u) == IF hand[u].read = Absent THEN Empty ELSE hand[u].read
Older(p, q) == p.at # Absent /\ q.at # Absent /\ p.at < q.at

\* ingest: an older package is refused, the same one not written again
Ingest(u) ==
  LET p == hand[u].package  held == Read(u).package IN
  /\ ~EmptyHanded(u) /\ hand[u].op = "ingest"
  /\ IF held # Absent /\ (Older(p, held) \/ p = held) THEN Stays
     ELSE /\ Write(u, [Read(u) EXCEPT !.package = p])
          /\ UNCHANGED <<open, minted, writes>>
  /\ PutDown(u)

Input(target) == [id |-> minted + 1, target |-> target]
Append1(u, target) ==
  /\ Write(u, [Read(u) EXCEPT !.inputs = Append(InputsOf(Read(u)), Input(target))])
  /\ minted' = minted + 1
  /\ UNCHANGED <<open, writes>>
AddInput(u) ==
  /\ ~EmptyHanded(u) /\ hand[u].op = "add"
  /\ IF Read(u).package # Absent /\ validateInput(hand[u].entry, Read(u).package)
     THEN Append1(u, Absent) ELSE Stays
  /\ PutDown(u)
VoidInput(u) ==
  /\ ~EmptyHanded(u) /\ hand[u].op = "void"
  /\ IF Voidable(InputsOf(Read(u)), hand[u].target) THEN Append1(u, hand[u].target) ELSE Stays
  /\ PutDown(u)

\* The inputs are those the request read, whatever the open card holds
Merged(u) ==
  IF Read(u).inputs # Absent THEN [hand[u].body EXCEPT !.inputs = Read(u).inputs]
  ELSE hand[u].body
SaveCard(u) ==
  /\ ~EmptyHanded(u) /\ hand[u].op = "save"
  /\ Write(u, Merged(u)) /\ PutDown(u)
  /\ UNCHANGED <<open, minted, writes>>

\* The connection dies; what was not committed is gone
Lose(u) ==
  /\ ~EmptyHanded(u) /\ PutDown(u)
  /\ Stays

CardInit ==
  /\ card = Absent
  /\ open = [u \in Team |-> Absent]
  /\ hand = [u \in Team |-> Absent]
  /\ minted = 0 /\ writes = 0
CardNext ==
  \E u \in Team :
    \/ OpenCard(u) \/ BeginLocked(u) \/ BeginSave(u)
    \/ Ingest(u) \/ AddInput(u) \/ VoidInput(u) \/ SaveCard(u) \/ Lose(u)
CardSpec == CardInit /\ [][CardNext]_cardVars

----------------------------------------------------------------------------
\* Each input has its own identifier; a void names an earlier input, once
Orderly(inputs) ==
  \A i, k \in DOMAIN inputs : i < k =>
    /\ inputs[i].id < inputs[k].id
    /\ inputs[i].target # Absent => inputs[i].target # inputs[k].target
    /\ inputs[i].target # inputs[k].id
Named(inputs) ==
  \A k \in DOMAIN inputs : inputs[k].target # Absent =>
    \E i \in 1..(k - 1) : inputs[i].id = inputs[k].target /\ inputs[i].target = Absent

\* The months come to the voyages shown, if no month is there twice
AddsUp(p) ==
  LET all == DOMAIN p.monthly IN
  Cardinality(Months(p)) = Len(p.monthly) =>
    AddUp([k \in all |-> p.monthly[k].net], all) =
      AddUp([k \in Shown(p) |->
               ItemTotal(p.voyages[k], "rev") + ItemTotal(p.voyages[k], "cost")], Shown(p))
      + AddUp([k \in all |-> p.monthly[k].pos + p.monthly[k].fixed], all)

\* A save of the card whose reading another write has overtaken
Overtaken(u) == hand[u] # Absent /\ hand[u].op = "save" /\ hand[u].read # card
Ended(u, op) == hand[u] # Absent /\ hand[u].op = op /\ hand'[u] = Absent

\* The inputs of the team are a record that only grows, in which a void names an
\* input once; only a save of the card that has been overtaken may take one away.  A
\* pushed package never replaces a newer one, and the months of the package shown
\* come to its voyages (withVesselRow, save, ingest, validateMontePackage).
TeamInputsStand ==
  [][/\ Orderly(InputsOf(card)') /\ Named(InputsOf(card)')
     /\ (~\E u \in Team : Ended(u, "save") /\ Overtaken(u)) =>
          IsPrefix(InputsOf(card), InputsOf(card)')
     /\ \A u \in Team : Ended(u, "ingest") /\ card # Absent =>
          ~Older(card'.package, card.package)
     /\ (card # Absent /\ card'.package # Absent) => AddsUp(card'.package)]_cardVars
=============================================================================
