----------------------- MODULE InStorageListing_proofs -----------------------
(***************************************************************************)
(* Theorems about InStorageListing, for every set of names and callers,    *)
(* every page size and every number of changes between the pages.          *)
(***************************************************************************)
EXTENDS InStorageListing, FiniteSetTheorems, WellFoundedInduction, TLAPS

TypeInv ==
  /\ kind \in {"volumes", "snapshots"}
  /\ ids \in [Names -> Free..MaxId]
  /\ limit \in [Callers -> Limits \cup {NoLimit}]
  /\ token \in [Callers -> NoToken..MaxId]
  /\ listed \in [Callers -> [Names -> 0..2]]
  /\ stable \in [Callers -> SUBSET Names]
  /\ met \in [Callers -> SUBSET Names]

(* No two objects have the same number. *)
RowsInv == \A m, n \in Present : m # n => ids[m] # ids[n]

(* While a caller lists, what was there all the time is listed if and only *)
(* if its number is below the token.                                       *)
CallerInv(c) ==
  /\ \A n \in Names : listed[c][n] > 0 => n \in met[c]
  /\ Listing(c) =>
       /\ stable[c] \subseteq Present /\ Present \subseteq met[c]
       /\ \A n \in stable[c] : listed[c][n] = IF ids[n] < token[c] THEN 1 ELSE 0
  /\ ~Listing(c) => \A n \in stable[c] : listed[c][n] = 1

ListInv == TypeInv /\ RowsInv /\ \A c \in Callers : CallerInv(c)

-----------------------------------------------------------------------------
(* A non-empty set of naturals has a least element, and Min is it. *)
LEMMA LeastNumber ==
  ASSUME NEW S \in SUBSET Nat, S # {}
  PROVE  Min(S) \in S /\ \A y \in S : Min(S) <= y
<1> DEFINE R == OpToRel(<, Nat)
<1>1. IsWellFoundedOn(R, Nat)
  BY NatLessThanWellFounded, Zenon
<1>2. \A x, y \in Nat : x < y => <<x, y>> \in R
  BY DEF OpToRel
<1> HIDE DEF R
<1>3. PICK x \in S : \A y \in S : ~ (<<y, x>> \in R)
  BY <1>1, WFMin
<1>4. \A y \in S : x <= y
  <2> SUFFICES ASSUME NEW y \in S PROVE x <= y
    OBVIOUS
  <2>1. x \in Nat /\ y \in Nat /\ ~ (<<y, x>> \in R)
    BY <1>3
  <2>2. ~ (y < x)
    BY <1>2, <2>1
  <2> QED
    BY <2>1, <2>2
<1> QED
  BY <1>4 DEF Min

(* A page has a size. *)
LEMMA MaxCountType ==
  ASSUME TypeInv, NEW c \in Callers, Listing(c)
  PROVE  MaxCount(c) \in Nat
<1>1. limit[c] \in Nat /\ PageLimit \in Nat
  BY ListingAssumption DEF TypeInv, Listing, NoLimit, ListingAssumption
<1>2. Min({PageLimit, limit[c]}) \in {PageLimit, limit[c]}
  BY <1>1, LeastNumber
<1> QED
  BY <1>1, <1>2 DEF MaxCount

(* The rows of a page come before those left over: with a row all before   *)
(* it are taken.                                                           *)
LEMMA PageIsFirst ==
  ASSUME TypeInv, NEW c \in Callers, Listing(c),
         NEW n \in Page(c), NEW m \in From(c) \ Page(c)
  PROVE  ids[n] < ids[m]
<1> SUFFICES ASSUME ids[m] <= ids[n] PROVE FALSE
  BY ListingAssumption DEF TypeInv, Page, From, Present, Free, ListingAssumption
<1>1. Before(c, m) \subseteq Before(c, n) /\ Before(c, n) \subseteq Names
  BY ListingAssumption DEF TypeInv, Before, Page, From, Present, Free, ListingAssumption
<1>2. IsFiniteSet(Before(c, n)) /\ IsFiniteSet(Before(c, m))
  BY <1>1, FS_Subset, ListingAssumption DEF ListingAssumption
<1>3. /\ Cardinality(Before(c, m)) <= Cardinality(Before(c, n))
      /\ Cardinality(Before(c, n)) \in Nat /\ Cardinality(Before(c, m)) \in Nat
  BY <1>1, <1>2, FS_Subset, FS_CardinalityType
<1>4. Cardinality(Before(c, n)) < MaxCount(c) /\ ~(Cardinality(Before(c, m)) < MaxCount(c))
  BY DEF Page
<1> QED
  BY <1>3, <1>4, MaxCountType

(* The next token is the least number left over. *)
LEMMA TokenIsLeast ==
  ASSUME TypeInv, NEW c \in Callers, LeftOver(c) # {}
  PROVE  /\ NextToken(c) \in LeftOver(c) /\ NextToken(c) \in 0..MaxId
         /\ \A i \in LeftOver(c) : NextToken(c) <= i
<1>1. LeftOver(c) \subseteq 0..MaxId
  BY ListingAssumption DEF TypeInv, LeftOver, From, Present, Free, ListingAssumption
<1>2. LeftOver(c) \in SUBSET Nat
  BY <1>1
<1> QED
  BY <1>1, <1>2, LeastNumber DEF NextToken

-----------------------------------------------------------------------------
LEMMA InitList == Init => ListInv
  BY ListingAssumption
     DEF Init, ListInv, TypeInv, RowsInv, CallerInv, Listing, Present, NoLimit, NoToken, Free,
         ListingAssumption

(* What other handlers create or delete. *)
LEMMA ChangeList ==
  ASSUME ListInv, Change
  PROVE  ListInv'
<1> USE ListingAssumption DEF ListingAssumption, ListInv, TypeInv, RowsInv, CallerInv, Listing,
                              Present, Free, NoLimit, NoToken
<1>0. UNCHANGED <<kind, limit, token, listed>>
  BY DEF Change
<1>1. ASSUME NEW n \in Names, Delete(n)
      PROVE  ListInv'
  <2>1. TypeInv' /\ RowsInv'
    BY <1>0, <1>1 DEF Delete
  <2>2. ASSUME NEW c \in Callers
        PROVE  CallerInv(c)'
    BY <1>0, <1>1 DEF Delete
  <2> QED
    BY <2>1, <2>2
<1>2. ASSUME NEW n \in Names, NEW i \in 0..MaxId, Create(n, i)
      PROVE  ListInv'
  <2>1. TypeInv' /\ RowsInv'
    BY <1>0, <1>2 DEF Create
  <2>2. ASSUME NEW c \in Callers
        PROVE  CallerInv(c)'
    BY <1>0, <1>2 DEF Create
  <2> QED
    BY <2>1, <2>2
<1> QED
  BY <1>1, <1>2 DEF Change

(* A listing begins with nothing listed. *)
LEMMA StartList ==
  ASSUME ListInv, NEW c \in Callers, Start(c)
  PROVE  ListInv'
<1> USE ListingAssumption DEF ListingAssumption, ListInv, TypeInv, RowsInv, CallerInv, Listing,
                              Present, Free, NoLimit, NoToken
<1>1. TypeInv' /\ RowsInv'
  BY DEF Start
<1>2. ASSUME NEW d \in Callers
      PROVE  CallerInv(d)'
  <2>1. CASE d = c
    BY <2>1 DEF Start
  <2>2. CASE d # c
    BY <2>2 DEF Start
  <2> QED
    BY <2>1, <2>2
<1> QED
  BY <1>1, <1>2

(* A page lists the rows from the old token to the new one. *)
LEMMA PageList ==
  ASSUME ListInv, NEW c \in Callers, ListPage(c)
  PROVE  ListInv'
<1>0. /\ TypeInv /\ RowsInv /\ CallerInv(c) /\ Listing(c)
      /\ UNCHANGED <<kind, ids, stable, met>> /\ MaxId \in Nat
      /\ NextToken(c) \in NoToken..MaxId
  <2>1. NextToken(c) \in NoToken..MaxId
    BY TokenIsLeast, ListingAssumption DEF ListInv, NextToken, NoToken, ListingAssumption
  <2> QED
    BY <2>1, ListingAssumption DEF ListInv, ListPage, ListingAssumption
<1>1. \A n \in Names : /\ n \in Page(c) => listed'[c][n] = Min({listed[c][n] + 1, 2})
                       /\ n \notin Page(c) => listed'[c][n] = listed[c][n]
  BY <1>0 DEF ListPage, TypeInv
<1>2. ASSUME NEW n \in Names
      PROVE  /\ Min({listed[c][n] + 1, 2}) \in 0..2
             /\ listed[c][n] = 0 => Min({listed[c][n] + 1, 2}) = 1
  <2>1. listed[c][n] \in 0..2
    BY <1>0 DEF TypeInv
  <2>2. {listed[c][n] + 1, 2} \in SUBSET Nat
    BY <2>1
  <2>3. /\ Min({listed[c][n] + 1, 2}) \in {listed[c][n] + 1, 2}
        /\ \A y \in {listed[c][n] + 1, 2} : Min({listed[c][n] + 1, 2}) <= y
    BY <2>2, LeastNumber
  <2> QED
    BY <2>1, <2>3
<1>3. TypeInv' /\ RowsInv'
  <2>1. listed' \in [Callers -> [Names -> 0..2]]
    BY <1>0, <1>2 DEF ListPage, TypeInv
  <2> QED
    BY <1>0, <2>1 DEF ListPage, TypeInv, RowsInv, Present
<1>4. ASSUME NEW d \in Callers, d # c
      PROVE  CallerInv(d)'
  BY <1>0, <1>4 DEF ListInv, CallerInv, ListPage, TypeInv, Listing, Present
<1>5. Page(c) \subseteq From(c) /\ From(c) \subseteq Present /\ Present \subseteq Names
  BY DEF Page, From, Present
<1>6. \A n \in Names : listed'[c][n] > 0 => n \in met'[c]
  BY <1>0, <1>1, <1>5 DEF CallerInv
<1>7. ASSUME NEW n \in stable[c]
      PROVE  /\ n \in Present /\ ids[n] \in 0..MaxId
             /\ n \in From(c) <=> ~(ids[n] < token[c])
             /\ listed'[c][n] = IF n \in From(c) \ Page(c) THEN 0 ELSE 1
  <2>1. /\ n \in Present /\ n \in Names /\ ids[n] \in 0..MaxId /\ token[c] \in NoToken..MaxId
        /\ listed[c][n] = IF ids[n] < token[c] THEN 1 ELSE 0
    BY <1>0 DEF CallerInv, TypeInv, Present, Free
  <2>2. n \in From(c) <=> ~(ids[n] < token[c])
    BY <1>0, <2>1 DEF From, NoToken
  <2> QED
    BY <1>1, <1>2, <1>5, <2>1, <2>2
<1>8. CASE LeftOver(c) = {}
  <2>1. /\ \A n \in stable[c] : listed'[c][n] = 1
        /\ limit'[c] = NoLimit
    <3>1. From(c) \ Page(c) = {} /\ NextToken(c) = NoToken
      BY <1>8 DEF LeftOver, NextToken
    <3> QED
      BY <1>0, <1>7, <3>1 DEF ListPage, TypeInv
  <2>2. CallerInv(c)'
    BY <1>0, <1>6, <2>1 DEF CallerInv, Listing
  <2> QED
    BY <1>3, <1>4, <2>2 DEF ListInv
<1>9. CASE LeftOver(c) # {}
  <2> DEFINE t == NextToken(c)
  <2>1. t \in LeftOver(c) /\ t \in 0..MaxId /\ \A i \in LeftOver(c) : t <= i
    BY <1>0, <1>9, TokenIsLeast
  <2>2. PICK m \in From(c) \ Page(c) : t = ids[m]
    BY <2>1 DEF LeftOver
  <2> HIDE DEF t
  <2>3. /\ token'[c] = t /\ limit'[c] = limit[c]
    BY <1>0, <2>1 DEF ListPage, TypeInv, t, NoToken
  <2>4. ASSUME NEW n \in stable[c]
        PROVE  listed'[c][n] = IF ids[n] < t THEN 1 ELSE 0
    <3>1. CASE n \in From(c) \ Page(c)
      <4>1. t <= ids[n]
        BY <2>1, <3>1 DEF LeftOver
      <4> QED
        BY <1>7, <2>1, <3>1, <4>1
    <3>2. CASE n \in Page(c)
      <4>1. ids[n] < t
        BY <1>0, <2>2, <3>2, PageIsFirst
      <4> QED
        BY <1>7, <3>2, <4>1
    <3>3. CASE n \notin From(c)
      <4>1. ids[n] < token[c] /\ token[c] <= t /\ ids[n] \in Int /\ token[c] \in Int
        BY <1>0, <1>7, <2>2, <3>3 DEF From, TypeInv, NoToken
      <4> QED
        BY <1>7, <2>1, <3>3, <4>1
    <3> QED
      BY <1>5, <3>1, <3>2, <3>3
  <2>5. CallerInv(c)'
    BY <1>0, <1>6, <2>3, <2>4 DEF CallerInv, Listing, Present
  <2> QED
    BY <1>3, <1>4, <2>5 DEF ListInv
<1> QED
  BY <1>8, <1>9

LEMMA StepList == ListInv /\ [Next]_vars => ListInv'
<1> SUFFICES ASSUME ListInv, [Next]_vars PROVE ListInv'
  OBVIOUS
<1>1. CASE Change
  BY <1>1, ChangeList
<1>2. ASSUME NEW c \in Callers, Start(c) \/ ListPage(c)
      PROVE  ListInv'
  BY <1>2, StartList, PageList
<1>3. ASSUME NEW c \in Callers, FailPage(c)
      PROVE  ListInv'
  BY <1>3 DEF FailPage, ListInv, TypeInv, RowsInv, CallerInv, Listing, Present
<1>4. CASE Rest \/ UNCHANGED vars
  BY <1>4 DEF Rest, vars, ListInv, TypeInv, RowsInv, CallerInv, Listing, Present
<1> QED
  BY <1>1, <1>2, <1>3, <1>4 DEF Next

(* Whatever is created and deleted between the pages, and whichever        *)
(* numbers are given again: what was there from the first page to the last *)
(* was listed exactly once, and nothing was listed that never was there    *)
(* (ListVolume, ListSnapshots).                                            *)
THEOREM EveryVolumeListedOnce == Spec => []ListedOnce
<1>1. ListInv => ListedOnce
  BY DEF ListInv, TypeInv, CallerInv, ListedOnce
<1> QED
  BY <1>1, InitList, StepList, PTL DEF Spec
-----------------------------------------------------------------------------
(* A page takes at least one row, as who lists snapshots gives a limit. *)
Asking == kind = "snapshots" => \A c \in Callers : Listing(c) => limit[c] > 0

(* Every page but the last moves the token up, and nothing moves it back,  *)
(* so that a listing has a page for each number of the array at most.      *)
Advances ==
  [][\A c \in Callers : /\ ListPage(c) => ~Listing(c)' \/ token'[c] > token[c]
                        /\ Listing(c) /\ Listing(c)' => token'[c] >= token[c]]_vars

LEMMA AskingStep == ListInv /\ Asking /\ [Next]_vars => Asking'
<1> SUFFICES ASSUME ListInv, Asking, [Next]_vars PROVE Asking'
  OBVIOUS
<1>1. kind' = kind
  BY DEF Next, Change, Rest, Start, ListPage, FailPage, vars
<1>2. \A c \in Callers : Listing(c)' => limit'[c] = limit[c] \/ (kind = "snapshots" => limit'[c] > 0)
  <2>1. limit' = limit \/ (\E c \in Callers : Start(c)) \/ (\E c \in Callers : ListPage(c))
    BY DEF Next, Change, Rest, FailPage, vars
  <2>2. ASSUME NEW c \in Callers, Start(c)
        PROVE  \A d \in Callers : limit'[d] = limit[d] \/ (kind = "snapshots" => limit'[d] > 0)
    BY <2>2 DEF Start, ListInv, TypeInv
  <2>3. ASSUME NEW c \in Callers, ListPage(c)
        PROVE  \A d \in Callers : limit'[d] = limit[d] \/ limit'[d] = NoLimit
    BY <2>3 DEF ListPage, ListInv, TypeInv
  <2> QED
    BY <2>1, <2>2, <2>3 DEF Listing
<1> QED
  BY <1>1, <1>2 DEF Asking, Listing

LEMMA PageTakesOne ==
  ASSUME TypeInv, Asking, NEW c \in Callers, Listing(c)
  PROVE  MaxCount(c) > 0
<1>1. /\ limit[c] \in Nat /\ PageLimit \in Nat \ {0}
      /\ kind = "snapshots" => limit[c] > 0
  BY ListingAssumption DEF TypeInv, Asking, Listing, NoLimit, ListingAssumption
<1>2. Min({PageLimit, limit[c]}) \in {PageLimit, limit[c]}
  BY <1>1, LeastNumber
<1> QED
  BY <1>1, <1>2 DEF MaxCount, TypeInv

(* The row at the token is in the page, so the next token is above it. *)
LEMMA TokenGrows ==
  ASSUME TypeInv, Asking, NEW c \in Callers, Listing(c), LeftOver(c) # {}
  PROVE  NextToken(c) > token[c]
<1>1. NextToken(c) \in LeftOver(c) /\ NextToken(c) \in 0..MaxId
  BY TokenIsLeast
<1>2. PICK n \in From(c) \ Page(c) : NextToken(c) = ids[n]
  BY <1>1 DEF LeftOver
<1>3. token[c] \in -1..MaxId /\ ids[n] >= token[c] /\ ids \in [Names -> -1..MaxId]
  BY <1>2 DEF From, TypeInv, NoToken, Free
<1>4. ids[n] # token[c]
  <2> SUFFICES ASSUME ids[n] = token[c] PROVE FALSE
    OBVIOUS
  <2>1. Before(c, n) = {}
    BY <1>3, ListingAssumption DEF Before, From, Present, ListingAssumption
  <2>2. Cardinality(Before(c, n)) = 0
    BY <2>1, FS_EmptySet
  <2> QED
    BY <1>2, <2>2, PageTakesOne DEF Page
<1> QED
  BY <1>1, <1>2, <1>3, <1>4, ListingAssumption DEF ListingAssumption

(* A listing comes nearer to its end with every page that is answered,     *)
(* also when a page adds nothing and while rows come and go (ListVolume,   *)
(* ListSnapshots).  That its caller goes on asking is fairness.            *)
THEOREM PagesAdvance == Spec => Advances
<1>1. Init => Asking
  BY DEF Init, Asking, Listing
<1>2. ListInv /\ Asking /\ [Next]_vars =>
        [\A c \in Callers : /\ ListPage(c) => ~Listing(c)' \/ token'[c] > token[c]
                            /\ Listing(c) /\ Listing(c)' => token'[c] >= token[c]]_vars
  <2> SUFFICES ASSUME ListInv, Asking, Next, NEW c \in Callers
               PROVE  /\ ListPage(c) => ~Listing(c)' \/ token'[c] > token[c]
                      /\ Listing(c) /\ Listing(c)' => token'[c] >= token[c]
    OBVIOUS
  <2>0. TypeInv /\ token[c] \in -1..MaxId /\ MaxId \in Nat
    BY ListingAssumption DEF ListInv, TypeInv, NoToken, ListingAssumption
  <2>1. ASSUME ListPage(c) PROVE ~Listing(c)' \/ (token'[c] > token[c] /\ token'[c] \in 0..MaxId)
    <3>1. /\ Listing(c) /\ token'[c] = NextToken(c)
          /\ NextToken(c) = NoToken => limit'[c] = NoLimit
      BY <2>0, <2>1 DEF ListPage, TypeInv
    <3>2. CASE LeftOver(c) = {}
      BY <3>1, <3>2 DEF NextToken, Listing
    <3>3. CASE LeftOver(c) # {}
      BY <2>0, <3>1, <3>3, TokenGrows, TokenIsLeast
    <3> QED
      BY <3>2, <3>3
  <2>2. ASSUME ~ListPage(c), Listing(c) PROVE token'[c] = token[c]
    <3>1. \/ token' = token
          \/ \E d \in Callers : d # c /\ (Start(d) \/ ListPage(d))
      BY <2>2 DEF Next, Change, Rest, Start, FailPage, vars
    <3> QED
      BY <3>1 DEF Start, ListPage, ListInv, TypeInv
  <2> QED
    BY <2>0, <2>1, <2>2
<1> QED
  BY <1>1, <1>2, AskingStep, InitList, StepList, PTL DEF Spec, Advances
=============================================================================
