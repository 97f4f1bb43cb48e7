-------------------------- MODULE InStorageListing --------------------------
(***************************************************************************)
(* Listing the volumes of an InStorage array, or the snapshots of one      *)
(* volume, page by page: ListVolume and ListSnapshots of                   *)
(* pkg/storage/instorage/storage.go behind ListVolumes and ListSnapshots   *)
(* of pkg/csiplugin/controller.go.  A page is one lsvdisk or lslcmap of    *)
(* everything, cut to the rows from the token on; nothing is kept between  *)
(* two pages, while volumes and snapshots come and go.                     *)
(*                                                                         *)
(* The array is outside the repository: it gives a new object any number   *)
(* that is free, also one below or at a token, and lists in the order of   *)
(* the numbers.                                                            *)
(***************************************************************************)
EXTENDS Integers, FiniteSets, FiniteSetsExt

CONSTANTS
  Names,        \* names of volumes, or of snapshots of the volume
  MaxId,        \* bound: the array's numbers are 0..MaxId
  PageLimit,    \* entries of a page at most, or by default (64 in the code)
  Limits,       \* the max_entries callers ask for, 0 for none
  Callers,      \* callers that list
  MaxLists,     \* bound: listings
  MaxChanges,   \* bound: objects created or deleted
  MaxFaults     \* bound: queries that fail

(* A caller that lists snapshots gives a limit: without one ListSnapshots  *)
(* answers empty pages (min(64, 0) entries) for ever.                      *)
ASSUME ListingAssumption ==
  /\ IsFiniteSet(Names)
  /\ MaxId \in Nat /\ PageLimit \in Nat \ {0}
  /\ Limits \subseteq Nat
  /\ MaxLists \in Nat /\ MaxChanges \in Nat /\ MaxFaults \in Nat

Free == -1
NoToken == -1
NoLimit == -1

VARIABLES
  kind,     \* what is listed: "volumes", or the "snapshots" of a volume
  ids,      \* [Names -> number], Free for one that does not exist
  limit,    \* max_entries of each caller, NoLimit when it lists nothing
  token,    \* [Callers -> number]: where its next page starts, or NoToken
  listed,   \* [Callers -> [Names -> Nat]]: how often each name was in a page
  stable,   \* history, sets of names: those there since the listing began
  met,      \* history, sets of names: those there at some time since it began
  lists, changes, faults

vars == <<kind, ids, limit, token, listed, stable, met, lists, changes, faults>>

Present == {n \in Names : ids[n] # Free}
Listing(c) == limit[c] # NoLimit

(* Some objects are there at the start. *)
Init ==
  /\ kind \in {"volumes", "snapshots"}
  /\ ids \in [Names -> Free..MaxId]
  /\ \A m, n \in Present : m # n => ids[m] # ids[n]
  /\ limit = [c \in Callers |-> NoLimit]
  /\ token = [c \in Callers |-> NoToken]
  /\ listed = [c \in Callers |-> [n \in Names |-> 0]]
  /\ stable = [c \in Callers |-> {}]
  /\ met = [c \in Callers |-> {}]
  /\ lists = 0
  /\ changes = 0
  /\ faults = 0

-----------------------------------------------------------------------------
(* What other handlers do to the array. *)

Create(n, i) ==
  /\ ids[n] = Free
  /\ \A m \in Names : ids[m] # i
  /\ ids' = [ids EXCEPT ![n] = i]
  /\ met' = [c \in Callers |-> IF Listing(c) THEN met[c] \cup {n} ELSE met[c]]
  /\ UNCHANGED stable

Delete(n) ==
  /\ ids[n] # Free
  /\ ids' = [ids EXCEPT ![n] = Free]
  /\ stable' = [c \in Callers |-> IF Listing(c) THEN stable[c] \ {n} ELSE stable[c]]
  /\ UNCHANGED met

Change ==
  /\ changes < MaxChanges
  /\ changes' = changes + 1
  /\ \E n \in Names : Delete(n) \/ \E i \in 0..MaxId : Create(n, i)
  /\ UNCHANGED <<kind, limit, token, listed, lists, faults>>

-----------------------------------------------------------------------------
(* A caller asks for the first page. *)
Start(c) ==
  /\ ~Listing(c)
  /\ lists < MaxLists
  /\ lists' = lists + 1
  /\ \E m \in Limits :
       /\ kind = "snapshots" => m > 0
       /\ limit' = [limit EXCEPT ![c] = m]
  /\ stable' = [stable EXCEPT ![c] = Present]
  /\ met' = [met EXCEPT ![c] = Present]
  /\ token' = [token EXCEPT ![c] = NoToken]
  /\ listed' = [listed EXCEPT ![c] = [n \in Names |-> 0]]
  /\ UNCHANGED <<kind, ids, changes, faults>>

(* ListVolume: 64 entries if the caller sets no limit; ListSnapshots:      *)
(* never more than 64.                                                     *)
MaxCount(c) ==
  IF kind = "volumes"
  THEN IF limit[c] > 0 THEN limit[c] ELSE PageLimit
  ELSE Min({PageLimit, limit[c]})

(* The loop over the rows, in their order: the first rows from the token   *)
(* on are taken, and the next one, if any, is the next token.              *)
From(c) == {n \in Present : ids[n] >= token[c]}
Before(c, n) == {m \in From(c) : ids[m] < ids[n]}
Page(c) == {n \in From(c) : Cardinality(Before(c, n)) < MaxCount(c)}
LeftOver(c) == {ids[n] : n \in From(c) \ Page(c)}

(* Mutant: the next page starts behind the row that did not fit. *)
SkipRow(c) == IF LeftOver(c) = {} THEN NoToken ELSE Min({Min(LeftOver(c)) + 1, MaxId})

(* Mutant: the next page starts with the last row of this one. *)
RepeatRow(c) ==
  IF LeftOver(c) = {} THEN NoToken ELSE Max({ids[n] : n \in Page(c)})

NextToken(c) == IF LeftOver(c) = {} THEN NoToken ELSE Min(LeftOver(c))

(* A page is answered; the caller asks for the next one, or is done.       *)
ListPage(c) ==
  /\ Listing(c)
  /\ listed' = [listed EXCEPT ![c] =
                  [n \in Names |-> IF n \in Page(c) THEN Min({@[n] + 1, 2}) ELSE @[n]]]
  /\ token' = [token EXCEPT ![c] = NextToken(c)]
  /\ limit' = [limit EXCEPT ![c] = IF NextToken(c) = NoToken THEN NoLimit ELSE @]
  /\ UNCHANGED <<kind, ids, stable, met, lists, changes, faults>>

(* The query fails, and the caller asks for the same page again. *)
FailPage(c) ==
  /\ Listing(c)
  /\ faults < MaxFaults
  /\ faults' = faults + 1
  /\ UNCHANGED <<kind, ids, limit, token, listed, stable, met, lists, changes>>

Rest ==
  /\ lists = MaxLists /\ \A c \in Callers : ~Listing(c)
  /\ UNCHANGED vars

Next == Change \/ Rest \/ \E c \in Callers : Start(c) \/ ListPage(c) \/ FailPage(c)

(* A caller asks for page after page. *)
Fairness == \A c \in Callers : WF_vars(ListPage(c))

Spec == Init /\ [][Next]_vars /\ Fairness

-----------------------------------------------------------------------------
(* When a listing is over, every volume or snapshot that was there from    *)
(* its first to its last page was listed exactly once, though numbers were *)
(* freed and given again between the pages, and nothing was listed that    *)
(* never was there (ListVolume, ListSnapshots).                            *)
ListedOnce ==
  \A c \in Callers :
    /\ \A n \in Names : listed[c][n] > 0 => n \in met[c]
    /\ \A n \in stable[c] : listed[c][n] <= 1
    /\ ~Listing(c) => \A n \in stable[c] : listed[c][n] = 1

(* A listing comes to its last page, also when a page adds nothing or the  *)
(* rows change before the next (ListVolume, ListSnapshots).                *)
ListingEnds == \A c \in Callers : Listing(c) ~> ~Listing(c)
=============================================================================
