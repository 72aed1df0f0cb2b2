------------------------- MODULE NativeLibrary_proofs -------------------------
(***************************************************************************)
(* Two parts of the library of the native host.                            *)
(*                                                                         *)
(* vacps:url (UrlSearch): the two copies of a query never disagree, and    *)
(* walks over a list miss nothing, for any URLs, names, values and         *)
(* iterators.  A list belongs to the URL it was made for or to none, and   *)
(* while it belongs to one it is what the text of that URL parses to;      *)
(* iterators only read.                                                    *)
(*                                                                         *)
(* vacps:http request() (HttpClient): the limits of the pooled client and  *)
(* the truth of its answers, for any script, servers and limits.  What a   *)
(* request holds follows from its phase; a gate counts its holders and is  *)
(* full while somebody waits; a connection that is idle, or has nobody,    *)
(* carries nothing, and one in use carries what is owed to its request and *)
(* no more, which is why a connection may be used again.                   *)
(***************************************************************************)
EXTENDS UrlSearch, HttpClient, FiniteSetTheorems, SequenceTheorems, WellFoundedInduction, TLAPS

(* The shape of the records, P being the lists of pairs in use. *)
Shape(P) ==
  /\ url \in [Urls -> [life : {"none", "held", "gone"}, query : P]]
  /\ bag \in [Bags -> [made : BOOLEAN, pairs : P, owner : Urls \cup {NoUrl}]]

(* A list that was not made has no owner, and "own" never has one. *)
OwnedIsMade ==
  /\ \A b \in Bags : bag[b].owner # NoUrl => bag[b].made
  /\ bag["own"].owner = NoUrl

(* The inductive invariant. *)
UrlInv == (\E P : Shape(P)) /\ OwnedIsMade /\ Coherent

-----------------------------------------------------------------------------
(* More lists in use change no shape. *)
LEMMA ShapeGrows ==
  ASSUME NEW P, NEW Q, P \subseteq Q, Shape(P)
  PROVE  Shape(Q)
<1>1. url \in [Urls -> [life : {"none", "held", "gone"}, query : Q]]
  BY DEF Shape
<1>2. bag \in [Bags -> [made : BOOLEAN, pairs : Q, owner : Urls \cup {NoUrl}]]
  BY DEF Shape
<1>3. QED
  BY <1>1, <1>2 DEF Shape

(* A mutation of a list keeps it: the owner's text becomes the list. *)
LEMMA BecomesKeeps ==
  ASSUME UrlInv, NEW b \in Bags, NEW pairs, Becomes(b, pairs)
  PROVE  UrlInv'
<1>1. bag' = [bag EXCEPT ![b].pairs = pairs]
  BY DEF Becomes
<1>2. PICK P : Shape(P) /\ pairs \in P
  <2>1. PICK R : Shape(R)
    BY DEF UrlInv
  <2>2. Shape(R \cup {pairs})
    BY <2>1, ShapeGrows
  <2>3. QED
    BY <2>2
<1>3. CASE bag[b].owner = NoUrl
  <2>1. url' = url
    BY <1>3 DEF Becomes
  <2>2. Shape(P)'
    BY <1>1, <1>2, <2>1 DEF Shape
  <2>3. OwnedIsMade' /\ Coherent'
    BY <1>1, <1>2, <1>3, <2>1 DEF UrlInv, Shape, OwnedIsMade, Coherent, Bags
  <2>4. QED
    BY <2>2, <2>3 DEF UrlInv
<1>4. CASE bag[b].owner # NoUrl
  <2>1. bag[b].owner = b /\ b \in Urls
    BY <1>4 DEF UrlInv, OwnedIsMade, Coherent, Bags
  <2>2. url' = [url EXCEPT ![b].query = pairs]
    BY <1>4, <2>1 DEF Becomes
  <2>3. Shape(P)'
    BY <1>1, <1>2, <2>1, <2>2 DEF Shape
  <2>4. OwnedIsMade' /\ Coherent'
    BY <1>1, <1>2, <2>1, <2>2 DEF UrlInv, Shape, OwnedIsMade, Coherent, Bags
  <2>5. QED
    BY <2>3, <2>4 DEF UrlInv
<1>5. QED
  BY <1>3, <1>4

(* The constructor, the setter of the URL and its collection keep it. *)
LEMMA UrlKeeps ==
  ASSUME UrlInv, NEW u \in Urls, NEW t,
         NewUrl(u, t) \/ SetSearch(u, t) \/ SearchParams(u) \/ CollectUrl(u)
  PROVE  UrlInv'
<1>1. PICK P : Shape(P) /\ t \in P /\ <<>> \in P
  <2>1. PICK R : Shape(R)
    BY DEF UrlInv
  <2>2. Shape(R \cup {t, <<>>})
    BY <2>1, ShapeGrows
  <2>3. QED
    BY <2>2
<1>2. CASE NewUrl(u, t)
  <2>1. Shape(P)'
    BY <1>1, <1>2 DEF Shape, NewUrl
  <2>2. OwnedIsMade' /\ Coherent'
    BY <1>1, <1>2 DEF UrlInv, Shape, OwnedIsMade, Coherent, Bags, NewUrl
  <2>3. QED
    BY <2>1, <2>2 DEF UrlInv
<1>3. CASE SetSearch(u, t)
  <2>1. Shape(P)'
    BY <1>1, <1>3 DEF Shape, SetSearch, Bags
  <2>2. OwnedIsMade' /\ Coherent'
    BY <1>1, <1>3 DEF UrlInv, Shape, OwnedIsMade, Coherent, Bags, SetSearch
  <2>3. QED
    BY <2>1, <2>2 DEF UrlInv
<1>4. CASE SearchParams(u)
  <2>1. Shape(P)'
    BY <1>1, <1>4 DEF Shape, SearchParams, Bags
  <2>2. OwnedIsMade' /\ Coherent'
    BY <1>1, <1>4, UrlConstantsOK DEF UrlInv, Shape, OwnedIsMade, Coherent, Bags, SearchParams
  <2>3. QED
    BY <2>1, <2>2 DEF UrlInv
<1>5. CASE CollectUrl(u)
  <2>1. Shape(P)'
    BY <1>1, <1>5 DEF Shape, CollectUrl, Bags
  <2>2. OwnedIsMade' /\ Coherent'
    BY <1>1, <1>5, UrlConstantsOK DEF UrlInv, Shape, OwnedIsMade, Coherent, Bags, CollectUrl
  <2>3. QED
    BY <2>1, <2>2 DEF UrlInv
<1>6. QED
  BY <1>2, <1>3, <1>4, <1>5

(* So does new URLSearchParams, whose list has no owner. *)
LEMMA NewParamsKeeps ==
  ASSUME UrlInv, NEW t, NewParams(t)
  PROVE  UrlInv'
<1>1. PICK P : Shape(P) /\ t \in P
  <2>1. PICK R : Shape(R)
    BY DEF UrlInv
  <2>2. Shape(R \cup {t})
    BY <2>1, ShapeGrows
  <2>3. QED
    BY <2>2
<1>2. Shape(P)'
  BY <1>1 DEF Shape, NewParams, Bags
<1>3. OwnedIsMade' /\ Coherent'
  BY <1>1 DEF UrlInv, Shape, OwnedIsMade, Coherent, Bags, NewParams
<1>4. QED
  BY <1>2, <1>3 DEF UrlInv

(* The methods of URLSearchParams that change the list end in Becomes. *)
LEMMA ListKeeps ==
  ASSUME UrlInv, NEW b \in Bags, NEW n, NEW p,
         AppendPair(b, p) \/ SetPair(b, p) \/ DeletePair(b, p) \/ DeleteName(b, n) \/ Sort(b)
  PROVE  UrlInv'
<1>1. PICK pairs : Becomes(b, pairs)
  BY DEF AppendPair, SetPair, DeletePair, DeleteName, Sort
<1>2. QED
  BY <1>1, BecomesKeeps

(* Iterators and forEach read the list. *)
LEMMA WalksKeep ==
  ASSUME UrlInv, UNCHANGED <<url, bag>>
  PROVE  UrlInv'
  BY DEF UrlInv, Shape, OwnedIsMade, Coherent

(* It holds initially, *)
LEMMA UrlInitKeeps == ASSUME UrlInit PROVE UrlInv
<1>1. Shape({<<>>})
  BY DEF UrlInit, Shape
<1>2. OwnedIsMade /\ Coherent
  BY DEF UrlInit, OwnedIsMade, Coherent, Bags
<1> QED BY <1>1, <1>2 DEF UrlInv

(* and every step keeps it. *)
LEMMA UrlNextKeeps ==
  ASSUME UrlInv, [UrlNext]_urlVars
  PROVE  UrlInv'
<1>1. CASE ForEachEnds \/ ForEachStep \/ ForEachThrows \/ UNCHANGED urlVars
  BY <1>1, WalksKeep DEF ForEachEnds, ForEachStep, ForEachThrows, urlVars
<1>2. CASE \E w \in Walkers : IteratorNext(w) \/ \E b \in Bags : Iterate(w, b)
  BY <1>2, WalksKeep DEF IteratorNext, Iterate
<1>3. CASE \E b \in Bags : ForEach(b)
  BY <1>3, WalksKeep DEF ForEach
<1>4. CASE \E u \in Urls, t \in Lists : NewUrl(u, t) \/ SetSearch(u, t)
  BY <1>4, UrlKeeps
<1>5. CASE \E u \in Urls : SearchParams(u) \/ CollectUrl(u)
  BY <1>5, UrlKeeps
<1>6. CASE \E t \in Lists : NewParams(t)
  BY <1>6, NewParamsKeeps
<1>7. CASE \E b \in Bags, p \in Pair : AppendPair(b, p) \/ SetPair(b, p) \/ DeletePair(b, p)
  BY <1>7, ListKeeps
<1>8. CASE \E b \in Bags : Sort(b) \/ \E n \in Names : DeleteName(b, n)
  BY <1>8, ListKeeps
<1>9. QED
  BY <1>1, <1>2, <1>3, <1>4, <1>5, <1>6, <1>7, <1>8 DEF UrlNext, Script

-----------------------------------------------------------------------------
(* The query of a URL and its live searchParams never disagree, whatever   *)
(* the script does with either of them and whatever is collected.          *)
THEOREM QueriesAgree == UrlSpec => []Coherent
<1>1. UrlInit => UrlInv
  BY UrlInitKeeps
<1>2. UrlInv /\ [UrlNext]_urlVars => UrlInv'
  BY UrlNextKeeps
<1>3. UrlInv => Coherent
  BY DEF UrlInv
<1>4. QED
  BY <1>1, <1>2, <1>3, PTL DEF UrlSpec

-----------------------------------------------------------------------------
(* Iterators and forEach.  A walk over a list that only grew stands at the  *)
(* number of pairs it gave, which are the list's first ones.               *)

Walks == [bag : Bags \cup {NoUrl}, index : Nat, seen : Seq(Pair), steady : BOOLEAN, ended : BOOLEAN]

(* The walk x is where its history says, in the lists of the table B.      *)
InStep(x, B) ==
  x.bag # NoUrl =>
    /\ B[x.bag].made
    /\ x.steady => /\ x.index <= Len(B[x.bag].pairs) /\ Len(x.seen) = x.index
                   /\ \A i \in 1 .. x.index : x.seen[i] = B[x.bag].pairs[i]

Listed == /\ \A b \in Bags : bag[b].pairs \in Seq(Pair)
          /\ \A u \in Urls : url[u].query \in Seq(Pair)
AllInStep == /\ walker \in [Walkers -> Walks] /\ calls \in Seq(Walks)
             /\ \A w \in Walkers : InStep(walker[w], bag)
             /\ \A i \in DOMAIN calls : calls[i].bag # NoUrl /\ InStep(calls[i], bag)
WalkInv == UrlInv /\ Listed /\ AllInStep

(* What a step does to walks that nobody advances. *)
WalkEnds ==
  /\ \A w \in Walkers : Finished(walker[w], walker'[w])
  /\ Len(calls') = Len(calls) => \A i \in DOMAIN calls : Finished(calls[i], calls'[i])

LEMMA ListsAreSeqs == Lists \subseteq Seq(Pair)
BY UrlConstantsOK DEF Lists

LEMMA BagsNamed == ASSUME NEW b \in Bags PROVE b # NoUrl
BY UrlConstantsOK DEF Bags, NoUrl

LEMMA NewWalk ==
  ASSUME NEW b \in Bags, bag[b].made PROVE Walk(b) \in Walks /\ InStep(Walk(b), bag) /\ ~Walk(b).ended /\ Walk(b).bag # NoUrl
<1>1. <<>> \in Seq(Pair) /\ Len(<<>>) = 0
  OBVIOUS
<1>2. Walk(b) \in Walks
  BY <1>1 DEF Walk, Walks
<1> QED BY <1>1, <1>2, BagsNamed DEF Walk, InStep

(* One step of a walk gives the next pair, or ends it at the list's end.   *)
LEMMA AdvancedInStep ==
  ASSUME UrlInv, Listed, NEW x \in Walks, x.bag # NoUrl, InStep(x, bag), ~x.ended
  PROVE  /\ Advanced(x) \in Walks /\ InStep(Advanced(x), bag)
         /\ Finished(x, Advanced(x)) /\ Advanced(x).bag = x.bag
<1> DEFINE pairs == bag[x.bag].pairs
<1>1. /\ x.bag \in Bags /\ x.index \in Nat /\ x.seen \in Seq(Pair)
      /\ x = [bag |-> x.bag, index |-> x.index, seen |-> x.seen, steady |-> x.steady, ended |-> x.ended]
      /\ x.steady \in BOOLEAN /\ x.ended \in BOOLEAN
  BY DEF Walks
<1>2. pairs \in Seq(Pair)
  BY <1>1 DEF Listed
<1>3. CASE x.index >= Len(pairs)
  <2>1. Advanced(x) = [x EXCEPT !.ended = TRUE]
    BY <1>3 DEF Advanced
  <2>2. Advanced(x) \in Walks /\ InStep(Advanced(x), bag) /\ Advanced(x).bag = x.bag
    BY <1>1, <2>1 DEF Walks, InStep
  <2>3. ASSUME x.steady PROVE x.seen = pairs
    <3> DEFINE seen == x.seen
    <3>1. seen \in Seq(Pair) /\ Len(seen) = x.index /\ x.index <= Len(pairs)
      BY <1>1, <2>3 DEF InStep
    <3>2. Len(seen) = Len(pairs)
      BY <1>1, <1>2, <1>3, <3>1
    <3>3. \A i \in 1 .. Len(seen) : seen[i] = pairs[i]
      BY <2>3, <3>1 DEF InStep
    <3> HIDE DEF seen, pairs
    <3>4. seen = pairs
      BY <1>2, <3>1, <3>2, <3>3
    <3> QED BY <3>4 DEF seen
  <2>4. Finished(x, Advanced(x))
    BY <1>1, <2>1, <2>3 DEF Finished
  <2> QED BY <2>2, <2>4
<1>4. CASE ~(x.index >= Len(pairs))
  <2> DEFINE s == IF x.steady THEN Append(x.seen, pairs[x.index + 1]) ELSE x.seen
             y == [x EXCEPT !.index = @ + 1, !.seen = s]
  <2>1. Advanced(x) = y
    BY <1>4 DEF Advanced
  <2>2. x.index + 1 \in 1 .. Len(pairs) /\ x.index + 1 \in Nat
    BY <1>1, <1>2, <1>4
  <2>3. s \in Seq(Pair)
    BY <1>1, <1>2, <2>2
  <2>4. x.steady => /\ Len(s) = x.index + 1 /\ x.index + 1 <= Len(pairs)
                    /\ \A i \in 1 .. x.index + 1 : s[i] = pairs[i]
    <3> SUFFICES ASSUME x.steady
                 PROVE  /\ Len(s) = x.index + 1 /\ x.index + 1 <= Len(pairs)
                        /\ \A i \in 1 .. x.index + 1 : s[i] = pairs[i]
      OBVIOUS
    <3>1. Len(x.seen) = x.index /\ \A i \in 1 .. x.index : x.seen[i] = pairs[i]
      BY DEF InStep
    <3>2. s = Append(x.seen, pairs[x.index + 1])
      OBVIOUS
    <3>3. Len(s) = x.index + 1 /\ s[x.index + 1] = pairs[x.index + 1]
      BY <1>1, <3>1, <3>2
    <3>4. \A i \in 1 .. x.index : s[i] = pairs[i]
      BY <1>1, <3>1, <3>2
    <3> HIDE DEF s, pairs
    <3> QED BY <1>1, <2>2, <3>3, <3>4
  <2> HIDE DEF s
  <2>5. /\ y.bag = x.bag /\ y.index = x.index + 1 /\ y.seen = s
        /\ y.steady = x.steady /\ y.ended = x.ended
    BY <1>1
  <2>6. y \in Walks
    BY <1>1, <2>2, <2>3 DEF Walks
  <2> HIDE DEF y
  <2>7. InStep(y, bag)
    BY <2>4, <2>5 DEF InStep
  <2>8. Finished(x, y)
    BY <2>5 DEF Finished
  <2> QED BY <2>1, <2>5, <2>6, <2>7, <2>8
<1> QED BY <1>3, <1>4

(* A list that grows at its end leaves every walk in step.                 *)
Grown(b) ==
  bag[b].made => /\ bag'[b].made
                 /\ \/ bag'[b].pairs = bag[b].pairs
                    \/ \E p \in Pair : bag'[b].pairs = Append(bag[b].pairs, p)

LEMMA GrownInStep ==
  ASSUME Listed, NEW x \in Walks, InStep(x, bag), \A b \in Bags : Grown(b)
  PROVE  InStep(x, bag')
<1> SUFFICES ASSUME x.bag # NoUrl
             PROVE  /\ bag'[x.bag].made
                    /\ x.steady => /\ x.index <= Len(bag'[x.bag].pairs) /\ Len(x.seen) = x.index
                                   /\ \A i \in 1 .. x.index : x.seen[i] = bag'[x.bag].pairs[i]
  BY DEF InStep
<1>1. x.bag \in Bags /\ x.index \in Nat /\ bag[x.bag].pairs \in Seq(Pair)
  BY DEF Walks, Listed
<1>2. /\ bag[x.bag].made
      /\ x.steady => /\ x.index <= Len(bag[x.bag].pairs) /\ Len(x.seen) = x.index
                     /\ \A i \in 1 .. x.index : x.seen[i] = bag[x.bag].pairs[i]
  BY DEF InStep
<1>3. /\ bag'[x.bag].made
      /\ \/ bag'[x.bag].pairs = bag[x.bag].pairs
         \/ \E p \in Pair : bag'[x.bag].pairs = Append(bag[x.bag].pairs, p)
  BY <1>1, <1>2 DEF Grown
<1>4. CASE bag'[x.bag].pairs = bag[x.bag].pairs
  BY <1>2, <1>3, <1>4
<1>5. ASSUME NEW p \in Pair, bag'[x.bag].pairs = Append(bag[x.bag].pairs, p)
      PROVE  /\ Len(bag[x.bag].pairs) \in Nat /\ Len(bag'[x.bag].pairs) \in Nat
             /\ Len(bag[x.bag].pairs) <= Len(bag'[x.bag].pairs)
             /\ \A i \in 1 .. Len(bag[x.bag].pairs) : bag'[x.bag].pairs[i] = bag[x.bag].pairs[i]
  BY <1>1, <1>5
<1>6. CASE \E p \in Pair : bag'[x.bag].pairs = Append(bag[x.bag].pairs, p)
  <2>1. PICK p \in Pair : bag'[x.bag].pairs = Append(bag[x.bag].pairs, p)
    BY <1>6
  <2>2. x.steady => x.index <= Len(bag'[x.bag].pairs) /\ Len(x.seen) = x.index
    BY <1>1, <1>2, <1>5, <2>1
  <2>3. ASSUME x.steady, NEW i \in 1 .. x.index
        PROVE  x.seen[i] = bag'[x.bag].pairs[i]
    <3>1. x.seen[i] = bag[x.bag].pairs[i] /\ i \in 1 .. Len(bag[x.bag].pairs)
      BY <1>1, <1>2, <1>5, <2>1, <2>3
    <3>2. QED
      BY <1>5, <2>1, <3>1
  <2> QED BY <1>3, <2>2, <2>3
<1> QED BY <1>3, <1>4, <1>6

LEMMA NoneEnds == ASSUME UNCHANGED <<walker, calls>> PROVE WalkEnds
BY DEF WalkEnds, Finished

LEMMA GrowsKeep ==
  ASSUME WalkInv, \A b \in Bags : Grown(b), UNCHANGED <<walker, calls>>
  PROVE  AllInStep' /\ WalkEnds
<1>1. \A w \in Walkers : InStep(walker[w], bag')
  BY GrownInStep DEF WalkInv, AllInStep
<1>2. \A i \in DOMAIN calls : InStep(calls[i], bag')
  BY GrownInStep DEF WalkInv, AllInStep
<1> QED BY <1>1, <1>2, NoneEnds DEF WalkInv, AllInStep

(* Any other change of a list unsettles the walks over it, and ends none.  *)
LEMMA DisturbedInStep ==
  ASSUME NEW d \in Bags, NEW x \in Walks, InStep(x, bag),
         \A b \in Bags : bag[b].made => bag'[b].made /\ (b # d => bag'[b].pairs = bag[b].pairs),
         NEW y, y = IF x.bag \in {d} THEN Disturbed(x, x.bag) ELSE x
  PROVE  y \in Walks /\ InStep(y, bag') /\ Finished(x, y) /\ y.bag = x.bag
<1>1. <<>> \in Seq(Pair)
  OBVIOUS
<1>2. CASE x.bag = d
  <2>1. y = [x EXCEPT !.steady = FALSE, !.seen = <<>>]
    BY <1>2 DEF Disturbed
  <2>2. y \in Walks /\ ~y.steady /\ y.bag = x.bag
    BY <1>1, <2>1 DEF Walks
  <2> QED BY <2>2, BagsNamed, <1>2 DEF InStep, Finished
<1>3. CASE x.bag # d
  <2>1. y = x
    BY <1>3
  <2>2. x.bag # NoUrl => x.bag \in Bags
    BY DEF Walks
  <2> QED BY <1>3, <2>1, <2>2 DEF InStep, Finished
<1> QED BY <1>2, <1>3

LEMMA DisturbsKeep ==
  ASSUME WalkInv, NEW d \in Bags, Disturbs({d}),
         \A b \in Bags : bag[b].made => bag'[b].made /\ (b # d => bag'[b].pairs = bag[b].pairs)
  PROVE  AllInStep' /\ WalkEnds
<1> DEFINE D(x) == IF x.bag \in {d} THEN Disturbed(x, x.bag) ELSE x
<1>1. walker' = [w \in Walkers |-> D(walker[w])] /\ calls' = [i \in DOMAIN calls |-> D(calls[i])]
  BY DEF Disturbs
<1>2. \A x \in Walks : InStep(x, bag) =>
        D(x) \in Walks /\ InStep(D(x), bag') /\ Finished(x, D(x)) /\ D(x).bag = x.bag
  <2> SUFFICES ASSUME NEW x \in Walks, InStep(x, bag)
               PROVE  D(x) \in Walks /\ InStep(D(x), bag') /\ Finished(x, D(x)) /\ D(x).bag = x.bag
    OBVIOUS
  <2> QED BY DisturbedInStep
<1> HIDE DEF D
<1>3. walker \in [Walkers -> Walks] /\ calls \in Seq(Walks)
  BY DEF WalkInv, AllInStep
<1>4. \A w \in Walkers : /\ walker'[w] \in Walks /\ InStep(walker'[w], bag')
                         /\ Finished(walker[w], walker'[w])
  BY <1>1, <1>2, <1>3 DEF WalkInv, AllInStep
<1>5. \A i \in DOMAIN calls : /\ calls'[i] \in Walks /\ InStep(calls'[i], bag')
                              /\ Finished(calls[i], calls'[i]) /\ calls'[i].bag # NoUrl
  BY <1>1, <1>2, <1>3 DEF WalkInv, AllInStep
<1>6. calls' \in Seq(Walks) /\ DOMAIN calls' = DOMAIN calls
  BY <1>1, <1>3, <1>5
<1>7. walker' \in [Walkers -> Walks]
  BY <1>1, <1>4
<1> QED BY <1>4, <1>5, <1>6, <1>7 DEF AllInStep, WalkEnds

(* The lists: every one that is stored is a list of pairs. *)
LEMMA BecomesGrows ==
  ASSUME WalkInv, NEW b \in Bags, NEW pairs, Becomes(b, pairs)
  PROVE  /\ Listed'
         /\ \A c \in Bags : bag[c].made => bag'[c].made /\ (c # b => bag'[c].pairs = bag[c].pairs)
         /\ bag'[b].pairs = pairs
<1>1. PICK P : Shape(P)
  BY DEF WalkInv, UrlInv
<1>2. pairs \in Seq(Pair)
  BY ListsAreSeqs DEF Becomes
<1>3. bag' = [bag EXCEPT ![b].pairs = pairs]
  BY DEF Becomes
<1>4. \A u \in Urls : url'[u].query = url[u].query \/ url'[u].query = pairs
  BY <1>1 DEF Becomes, Shape
<1> QED BY <1>1, <1>2, <1>3, <1>4 DEF WalkInv, Listed, Shape

LEMMA MadeListsWalk ==
  ASSUME WalkInv, NEW u, NEW t \in Lists,
         \/ u \in Urls /\ (NewUrl(u, t) \/ SetSearch(u, t) \/ SearchParams(u) \/ CollectUrl(u))
         \/ NewParams(t)
  PROVE  Listed' /\ AllInStep' /\ WalkEnds
<1>1. PICK P : Shape(P)
  BY DEF WalkInv, UrlInv
<1>2. t \in Seq(Pair) /\ <<>> \in Seq(Pair)
  BY ListsAreSeqs
<1>3. Listed'
  <2>1. \A b \in Bags : bag'[b].pairs \in {bag[b].pairs, t} \/ (b \in Urls /\ bag'[b].pairs = url[b].query)
    BY <1>1 DEF NewUrl, SetSearch, SearchParams, CollectUrl, NewParams, Shape, Bags
  <2>2. \A v \in Urls : url'[v].query \in {url[v].query, t, <<>>}
    BY <1>1 DEF NewUrl, SetSearch, SearchParams, CollectUrl, NewParams, Shape
  <2> QED BY <1>2, <2>1, <2>2 DEF WalkInv, Listed
<1>4. CASE u \in Urls /\ SetSearch(u, t) /\ bag[u].made
  <2>1. u \in Bags /\ Disturbs({u}) /\ bag' = [bag EXCEPT ![u].pairs = t]
    BY <1>4 DEF SetSearch, Bags
  <2>2. \A b \in Bags : bag[b].made => bag'[b].made /\ (b # u => bag'[b].pairs = bag[b].pairs)
    BY <1>1, <2>1 DEF Shape
  <2> QED BY <1>3, <2>1, <2>2, DisturbsKeep
<1>5. CASE ~(u \in Urls /\ SetSearch(u, t) /\ bag[u].made)
  <2>1. \A b \in Bags : Grown(b)
    BY <1>1, <1>5 DEF NewUrl, SetSearch, SearchParams, CollectUrl, NewParams, Shape, Bags, Grown
  <2>2. UNCHANGED <<walker, calls>>
    BY <1>5 DEF NewUrl, SetSearch, SearchParams, CollectUrl, NewParams
  <2> QED BY <1>3, <2>1, <2>2, GrowsKeep
<1> QED BY <1>4, <1>5

LEMMA ListWalks ==
  ASSUME WalkInv, NEW b \in Bags, NEW n, NEW p,
         \/ p \in Pair /\ AppendPair(b, p)
         \/ SetPair(b, p) \/ DeletePair(b, p) \/ DeleteName(b, n) \/ Sort(b)
  PROVE  Listed' /\ AllInStep' /\ WalkEnds
<1>1. CASE p \in Pair /\ AppendPair(b, p)
  <2>1. Becomes(b, Append(bag[b].pairs, p)) /\ UNCHANGED <<walker, calls>>
    BY <1>1 DEF AppendPair
  <2>2. Listed' /\ \A c \in Bags : Grown(c)
    BY <1>1, <2>1, BecomesGrows DEF Grown
  <2> QED BY <2>1, <2>2, GrowsKeep
<1>2. CASE ~(p \in Pair /\ AppendPair(b, p))
  <2>1. PICK pairs : Becomes(b, pairs) /\ Disturbs({b})
    BY <1>2 DEF SetPair, DeletePair, DeleteName, Sort
  <2> QED BY <2>1, BecomesGrows, DisturbsKeep
<1> QED BY <1>1, <1>2

(* The walks. *)
LEMMA WalkersStep ==
  ASSUME WalkInv, NEW w \in Walkers, IteratorNext(w) \/ \E b \in Bags : Iterate(w, b)
  PROVE  Listed' /\ AllInStep' /\ WalkEnds
<1>1. UNCHANGED <<url, bag, calls>> /\ Listed'
  BY DEF IteratorNext, Iterate, WalkInv, Listed
<1>2. PICK y : /\ walker' = [walker EXCEPT ![w] = y]
               /\ y \in Walks /\ InStep(y, bag) /\ Finished(walker[w], y)
  <2>1. CASE IteratorNext(w)
    <3> DEFINE x == [walker[w] EXCEPT !.ended = FALSE]
    <3>1. x \in Walks /\ x.bag # NoUrl /\ InStep(x, bag) /\ ~x.ended /\ x.seen = walker[w].seen
          /\ x.bag = walker[w].bag
      BY <2>1 DEF IteratorNext, WalkInv, AllInStep, Walks, InStep
    <3>2. walker' = [walker EXCEPT ![w] = Advanced(x)]
      BY <2>1 DEF IteratorNext
    <3> HIDE DEF x
    <3>3. Advanced(x) \in Walks /\ InStep(Advanced(x), bag) /\ Finished(x, Advanced(x))
      BY <3>1, AdvancedInStep DEF WalkInv
    <3>4. Finished(walker[w], Advanced(x))
      BY <3>1, <3>3 DEF Finished
    <3> QED BY <3>2, <3>3, <3>4
  <2>2. ASSUME NEW b \in Bags, Iterate(w, b)
        PROVE  \E y : /\ walker' = [walker EXCEPT ![w] = y]
                      /\ y \in Walks /\ InStep(y, bag) /\ Finished(walker[w], y)
    <3>1. Walk(b) \in Walks /\ InStep(Walk(b), bag) /\ ~Walk(b).ended
      BY <2>2, NewWalk DEF Iterate
    <3>2. walker' = [walker EXCEPT ![w] = Walk(b)]
      BY <2>2 DEF Iterate
    <3> QED BY <3>1, <3>2 DEF Finished
  <2> QED BY <2>1, <2>2
<1>3. \A v \in Walkers : walker'[v] = IF v = w THEN y ELSE walker[v]
  BY <1>2 DEF WalkInv, AllInStep
<1>4. AllInStep'
  BY <1>1, <1>2, <1>3 DEF WalkInv, AllInStep
<1>5. \A v \in Walkers : Finished(walker[v], walker'[v])
  BY <1>2, <1>3 DEF Finished
<1>6. \A i \in DOMAIN calls : Finished(calls[i], calls'[i])
  BY <1>1 DEF Finished
<1> QED BY <1>1, <1>4, <1>5, <1>6 DEF WalkEnds

LEMMA FrontOf ==
  ASSUME NEW S, NEW s \in Seq(S), NEW n \in Nat, n <= Len(s)
  PROVE  SubSeq(s, 1, n) \in Seq(S) /\ Len(SubSeq(s, 1, n)) = n
<1>1. SubSeq(s, 1, n) \in Seq(S)
  OBVIOUS
<1>2. Len(SubSeq(s, 1, n)) = n
  OBVIOUS
<1> QED BY <1>1, <1>2

LEMMA CallsStep ==
  ASSUME WalkInv, ForEachStep \/ ForEachEnds \/ ForEachThrows \/ \E b \in Bags : ForEach(b)
  PROVE  Listed' /\ AllInStep' /\ WalkEnds
<1>1. UNCHANGED <<url, bag, walker>> /\ Listed' /\ \A v \in Walkers : Finished(walker[v], walker'[v])
  BY DEF ForEachStep, ForEachEnds, ForEachThrows, ForEach, WalkInv, Listed, Finished
<1>2. calls \in Seq(Walks) /\ Len(calls) \in Nat
  BY DEF WalkInv, AllInStep
<1>3. CASE ForEachStep
  <2> DEFINE n == Len(calls)
             y == Advanced(calls[n])
  <2>1. n \in DOMAIN calls /\ calls[n] \in Walks /\ ~calls[n].ended /\ InStep(calls[n], bag)
    BY <1>2, <1>3 DEF ForEachStep, Last, WalkInv, AllInStep
  <2>2. calls[n].bag # NoUrl
    BY <2>1 DEF WalkInv, AllInStep
  <2>3. y \in Walks /\ InStep(y, bag) /\ Finished(calls[n], y) /\ y.bag # NoUrl
    BY <2>1, <2>2, AdvancedInStep DEF WalkInv
  <2>4. calls' = [calls EXCEPT ![n] = y]
    BY <1>3 DEF ForEachStep
  <2> HIDE DEF y
  <2>5. calls' \in Seq(Walks) /\ DOMAIN calls' = DOMAIN calls
    BY <1>2, <2>1, <2>3, <2>4
  <2>6. \A i \in DOMAIN calls : calls'[i] = IF i = n THEN y ELSE calls[i]
    BY <1>2, <2>4
  <2>7. \A i \in DOMAIN calls : /\ InStep(calls'[i], bag) /\ Finished(calls[i], calls'[i])
                                /\ calls'[i].bag # NoUrl
    BY <2>3, <2>6 DEF WalkInv, AllInStep, Finished
  <2> QED BY <1>1, <2>5, <2>7 DEF WalkInv, AllInStep, WalkEnds
<1>4. CASE ForEachEnds \/ ForEachThrows
  <2>1. calls # <<>> /\ calls' = SubSeq(calls, 1, Len(calls) - 1)
    BY <1>4 DEF ForEachEnds, ForEachThrows, Front
  <2>2. /\ calls' \in Seq(Walks) /\ Len(calls') = Len(calls) - 1
        /\ \A i \in DOMAIN calls' : i \in DOMAIN calls /\ calls'[i] = calls[i]
    <3>1. Len(calls) - 1 \in 0 .. Len(calls)
      BY <1>2, <2>1
    <3>2. calls' \in Seq(Walks) /\ Len(calls') = Len(calls) - 1
      <4> DEFINE n == Len(calls) - 1
      <4>1. n \in Nat /\ n = Len(calls) - 1 /\ n <= Len(calls)
        BY <1>2, <3>1
      <4> HIDE DEF n
      <4>2. calls' = SubSeq(calls, 1, n)
        BY <2>1, <4>1
      <4>3. SubSeq(calls, 1, n) \in Seq(Walks) /\ Len(SubSeq(calls, 1, n)) = n
        BY <1>2, <4>1, FrontOf
      <4> QED BY <4>1, <4>2, <4>3
    <3>3. \A i \in 1 .. Len(calls) - 1 : calls'[i] = calls[i]
      BY <1>2, <2>1, <3>1
    <3>4. DOMAIN calls' = 1 .. Len(calls) - 1 /\ DOMAIN calls = 1 .. Len(calls)
      BY <1>2, <3>2
    <3> QED BY <1>2, <3>2, <3>3, <3>4
  <2>3. Len(calls') # Len(calls)
    BY <1>2, <2>2
  <2> QED BY <1>1, <2>2, <2>3 DEF WalkInv, AllInStep, WalkEnds
<1>5. ASSUME NEW b \in Bags, ForEach(b) PROVE Listed' /\ AllInStep' /\ WalkEnds
  <2> DEFINE y == Walk(b)
  <2>1. y \in Walks /\ InStep(y, bag) /\ y.bag # NoUrl /\ calls' = Append(calls, y)
    BY <1>5, NewWalk DEF ForEach
  <2> HIDE DEF y
  <2>2. calls' \in Seq(Walks) /\ Len(calls') = Len(calls) + 1
    BY <1>2, <2>1
  <2>3. \A i \in DOMAIN calls' : calls'[i].bag # NoUrl /\ InStep(calls'[i], bag)
    BY <1>2, <2>1 DEF WalkInv, AllInStep
  <2>4. Len(calls') # Len(calls)
    BY <1>2, <2>2
  <2> QED BY <1>1, <2>2, <2>3, <2>4 DEF WalkInv, AllInStep, WalkEnds
<1> QED BY <1>3, <1>4, <1>5

LEMMA WalkNext ==
  ASSUME WalkInv, [UrlNext]_urlVars PROVE WalkInv' /\ [WalkEnds]_urlVars
<1>1. UrlInv'
  BY UrlNextKeeps DEF WalkInv
<1>2. CASE UNCHANGED urlVars
  BY <1>1, <1>2 DEF urlVars, WalkInv, Listed, AllInStep
<1>3. CASE ForEachEnds \/ ForEachStep \/ ForEachThrows \/ \E b \in Bags : ForEach(b)
  BY <1>1, <1>3, CallsStep DEF WalkInv
<1>4. CASE \E w \in Walkers : IteratorNext(w) \/ \E b \in Bags : Iterate(w, b)
  BY <1>1, <1>4, WalkersStep DEF WalkInv
<1>5. CASE \E u \in Urls, t \in Lists : NewUrl(u, t) \/ SetSearch(u, t)
  BY <1>1, <1>5, MadeListsWalk DEF WalkInv
<1>6. CASE \E u \in Urls : SearchParams(u) \/ CollectUrl(u)
  <2>1. <<>> \in Lists
    BY UrlConstantsOK DEF Lists
  <2> QED BY <1>1, <1>6, <2>1, MadeListsWalk DEF WalkInv
<1>7. CASE \E t \in Lists : NewParams(t)
  BY <1>1, <1>7, MadeListsWalk DEF WalkInv
<1>8. CASE \E b \in Bags, p \in Pair : AppendPair(b, p) \/ SetPair(b, p) \/ DeletePair(b, p)
  BY <1>1, <1>8, ListWalks DEF WalkInv
<1>9. CASE \E b \in Bags : Sort(b) \/ \E n \in Names : DeleteName(b, n)
  BY <1>1, <1>9, ListWalks DEF WalkInv
<1> QED BY <1>2, <1>3, <1>4, <1>5, <1>6, <1>7, <1>8, <1>9 DEF UrlNext, Script

(* An iterator, or a forEach, over a list that only grows gives every pair   *)
(* once and in order, those appended behind it included, and ends only at   *)
(* the end of the list, whatever else the callbacks and the script do.      *)
THEOREM WalksAreWhole == UrlSpec => WalksWhole
<1> DEFINE S == /\ \A w \in Walkers : Faithful(walker[w])
                /\ \A i \in DOMAIN calls : Faithful(calls[i])
<1>1. ASSUME UrlInit PROVE WalkInv
  <2>1. UrlInv /\ <<>> \in Seq(Pair) /\ <<>> \in Seq(Walks)
    BY <1>1, UrlInitKeeps
  <2>2. NoWalk \in Walks /\ InStep(NoWalk, bag)
    BY <2>1 DEF NoWalk, Walk, Walks, InStep
  <2>3. Listed
    BY <1>1, <2>1 DEF UrlInit, Listed
  <2>4. calls \in Seq(Walks) /\ DOMAIN calls = {}
    BY <1>1, <2>1 DEF UrlInit
  <2>5. walker \in [Walkers -> Walks] /\ \A w \in Walkers : InStep(walker[w], bag)
    BY <1>1, <2>2 DEF UrlInit
  <2> QED BY <2>1, <2>3, <2>4, <2>5 DEF WalkInv, AllInStep
<1>2. WalkInv => S
  <2> SUFFICES ASSUME WalkInv, NEW x \in Walks, InStep(x, bag) PROVE Faithful(x)
    BY DEF WalkInv, AllInStep
  <2> SUFFICES ASSUME x.bag # NoUrl, x.steady
               PROVE  IsPrefix(x.seen, bag[x.bag].pairs) /\ Len(x.seen) = x.index
    BY DEF Faithful
  <2>1. /\ x.seen \in Seq(Pair) /\ bag[x.bag].pairs \in Seq(Pair) /\ x.index \in Nat
        /\ x.index <= Len(bag[x.bag].pairs) /\ Len(x.seen) = x.index
        /\ \A i \in 1 .. x.index : x.seen[i] = bag[x.bag].pairs[i]
    BY DEF Walks, InStep, WalkInv, Listed
  <2>2. SubSeq(x.seen, 1, x.index) = SubSeq(bag[x.bag].pairs, 1, x.index)
    BY <2>1
  <2> QED BY <2>1, <2>2 DEF IsPrefix
<1>3. WalkInv /\ [UrlNext]_urlVars => WalkInv' /\ [WalkEnds]_urlVars
  BY WalkNext
<1>4. WalksWhole <=> []S /\ [][WalkEnds]_urlVars
  BY DEF WalksWhole, WalkEnds
<1> HIDE DEF S
<1> QED BY <1>1, <1>2, <1>3, <1>4, PTL DEF UrlSpec

-----------------------------------------------------------------------------
(* The invariant of the HTTP client: first the types. *)
Phases == {"free", "origin", "global", "resolve", "connect", "tls", "write", "read", "done"}
Events == {"none", "pending", "between", "ok", "aborted", "failed"}
Outcomes == {"none", "ok", "failed", "timeout", "cancelled", "refused"}
Response == [req : Requests, kind : ResponseKinds]
NoResponse == [req |-> 0, kind |-> "none"]
ReqType == [at : Phases, ev : Events, missed : Phases \cup {"none"}, holds : SUBSET Gates, conn : Requests \cup {NoConn},
            got : Response \cup {NoResponse}, out : Outcomes]
IdleType == [kept : SUBSET Requests, count : Nat, since : [Requests -> Nat], now : Nat, past : Nat]
ConnType == [sent : Seq(Requests), back : Seq(Response), told : BOOLEAN, open : BOOLEAN]

ClientTypeOK ==
  /\ clientUse \in ClientUses
  /\ req \in [Requests -> ReqType]
  /\ edges \in [Requests -> SUBSET {"deadline", "stop"}] /\ late \subseteq Requests
  /\ gate \in [Gates -> [taken : Nat, queue : Seq(Requests)]]
  /\ pools \in [Origins -> Nat \cup {NoPool}]
  /\ idle \in IdleType
  /\ conns \in [Requests -> ConnType]
  /\ clientStop \in BOOLEAN

(* What a request holds follows from its phase. *)
PhaseRight(r) ==
  /\ ~Active(r) => req[r].ev = "none" /\ req[r].holds = {}
  /\ Active(r) => req[r].ev # "none" /\ req[r].out = "none"
  /\ req[r].at = "free" => req[r].out = "none"
  /\ req[r].at = "origin" => req[r].holds = IF req[r].ev = "ok" THEN {Origin(r)} ELSE {}
  /\ req[r].at = "global" =>
       req[r].holds = IF req[r].ev = "ok" THEN {Origin(r), Global} ELSE {Origin(r)}
  /\ req[r].at \in {"resolve", "connect", "tls", "write", "read"} => req[r].holds = {Origin(r), Global}
  /\ req[r].at \in {"free", "origin", "global", "resolve"} => req[r].conn = NoConn
  /\ req[r].at \in {"connect", "tls"} => req[r].conn = r
  /\ req[r].at \in {"write", "read"} => req[r].conn # NoConn
PhasesRight == \A r \in Requests : PhaseRight(r)

(* A gate counts who holds a permit of it, and is full while somebody      *)
(* waits; who is in line waits here, and stands there once.                *)
WaitsAt(r, g) ==
  /\ req[r].ev = "pending"
  /\ \/ req[r].at = "origin" /\ g = Origin(r)
     \/ req[r].at = "global" /\ g = Global
Holders(g) == {r \in Requests : g \in req[r].holds}
GateRight(g) ==
  /\ gate[g].taken = Cardinality(Holders(g))
  /\ gate[g].taken <= Capacity(g) /\ (gate[g].queue # <<>> => gate[g].taken = Capacity(g))
  /\ \A k \in DOMAIN gate[g].queue : WaitsAt(gate[g].queue[k], g)
  /\ \A j, k \in DOMAIN gate[g].queue : gate[g].queue[j] = gate[g].queue[k] => j = k
GatesRight == \A g \in Gates : GateRight(g)

(* idle_connections_ is exact; no stamp is in the future. *)
IdleRight ==
  /\ idle.count = Cardinality(idle.kept) /\ idle.count <= MaxIdle
  /\ \A c \in Requests : idle.since[c] <= idle.now

(* The requests that use the pool of an origin. *)
Users(o) == {r \in Requests : Active(r) /\ Origin(r) = o}

(* The count of a pool is the requests that use it; a pool nothing uses is gone. *)
PoolsRight ==
  \A o \in Origins :
    pools[o] = IF Users(o) = {} /\ OfPool(o) = {} THEN NoPool ELSE Cardinality(Users(o))

(* Who opened a connection has its number for good. *)
Made(c) == req[c].conn = c
ConnsRight ==
  /\ \A c \in idle.kept : Made(c)
  /\ \A r \in Requests : Active(r) /\ req[r].conn # NoConn =>
       /\ Made(req[r].conn) /\ req[r].conn \notin idle.kept /\ Origin(req[r].conn) = Origin(r)
       /\ \A q \in Requests : Active(q) /\ req[q].conn = req[r].conn => q = r

(* A connection carries nothing, or what one request is owed: the request  *)
(* itself with informational responses to it, or these and its final one.  *)
Clean(c) == conns[c].sent = <<>> /\ conns[c].back = <<>>
Owed(c, r) ==
  /\ \A k \in DOMAIN conns[c].back : conns[c].back[k].req = r
  /\ \/ conns[c].sent = <<r>> /\ \A k \in DOMAIN conns[c].back : conns[c].back[k].kind = "info"
     \/ /\ conns[c].sent = <<>> /\ conns[c].back # <<>>
        /\ \A k \in DOMAIN conns[c].back : conns[c].back[k].kind = "info" <=> k < Len(conns[c].back)
(* Where a request is in its exchange. *)
Final(r) == req[r].at = "read" /\ req[r].ev = "ok" /\ req[r].got.kind # "info"
Writing(r) == req[r].at = "write" /\ req[r].ev # "ok"
Asked(r) == req[r].at \in {"write", "read"} /\ ~Writing(r) /\ ~Final(r)
(* What nobody uses is clean, and so is what was not written on or was     *)
(* read to the end; in between it owes the request that has it.            *)
ContentRight ==
  /\ \A c \in Requests : c \in idle.kept \/ ~Made(c) => Clean(c)
  /\ \A r \in Requests :
       /\ req[r].at \in {"connect", "tls"} \/ Writing(r) \/ Final(r) => Clean(req[r].conn)
       /\ Asked(r) => Owed(req[r].conn, r)
       /\ req[r].at = "read" /\ req[r].ev = "ok" => req[r].got.req = r

(* The signal was emitted for a reason. *)
EventsRight ==
  \A r \in Requests :
    /\ "stop" \in edges[r] => clientStop
    /\ req[r].ev = "aborted" => clientStop \/ r \in late

(* The inductive invariant of the HTTP client. *)
ClientInv ==
  /\ ClientTypeOK /\ PhasesRight /\ GatesRight /\ IdleRight /\ PoolsRight /\ ConnsRight
  /\ ContentRight /\ EventsRight /\ OutcomesTrue

-----------------------------------------------------------------------------
(* The bounds of a script and what its records are made of. *)
LEMMA UseKnown ==
  ASSUME ClientConstantsOK, clientUse \in ClientUses
  PROVE  /\ clientUse \in ClientUse /\ Len(clientUse.asks) \in Nat
         /\ \A r \in Requests : Origin(r) \in Origins /\ Origin(r) # Global
         /\ \A g \in Gates : Capacity(g) \in Nat \ {0}
         /\ Requests \subseteq Nat \ {0} /\ IsFiniteSet(Requests)
<1>1. clientUse \in ClientUse /\ clientUse.perOrigin > 0 /\ clientUse.active > 0
  BY DEF ClientConstantsOK
<1>2. clientUse.asks \in Seq(Ask) /\ clientUse.perOrigin \in Nat /\ clientUse.active \in Nat
  BY <1>1 DEF ClientUse
<1>3. Len(clientUse.asks) \in Nat
  BY <1>2
<1>4. \A r \in Requests : clientUse.asks[r] \in Ask
  BY <1>2 DEF Requests
<1>5. \A r \in Requests : Origin(r) \in Origins
  BY <1>4 DEF Origin, Ask
<1>6. IsFiniteSet(Requests)
  BY <1>3, FS_Interval DEF Requests
<1>7. \A g \in Gates : Capacity(g) \in Nat \ {0}
  BY <1>1, <1>2 DEF Capacity
<1>8. Global \notin Origins
  BY DEF ClientConstantsOK
<1>9. Requests \subseteq Nat \ {0}
  BY <1>3 DEF Requests
<1>10. QED
  BY <1>1, <1>3, <1>5, <1>6, <1>7, <1>8, <1>9

(* A nonempty set of connections has an oldest and a newest one. *)
LEMMA OldestIsThere ==
  ASSUME idle \in IdleType, NEW S \in SUBSET Requests, S # {}
  PROVE  Oldest(S) \in S
<1> DEFINE T == {idle.since[c] : c \in S}
           R == OpToRel(<, Nat)
<1>1. idle.since \in [Requests -> Nat]
  BY DEF IdleType
<1>2. T \subseteq Nat /\ T # {}
  BY <1>1
<1>3. IsWellFoundedOn(R, Nat)
  BY NatLessThanWellFounded
<1>4. PICK m \in T : \A y \in T : ~ (<<y, m>> \in R)
  <2> HIDE DEF T, R
  <2>1. QED
    BY <1>2, <1>3, WFMin
<1>5. \A y \in T : ~ (y < m)
  BY <1>2, <1>4 DEF OpToRel
<1>6. PICK c \in S : idle.since[c] = m
  OBVIOUS
<1>7. \A d \in S : idle.since[c] <= idle.since[d]
  BY <1>1, <1>5, <1>6
<1>8. QED
  BY <1>7 DEF Oldest

(* As for the oldest, counting back from now. *)
LEMMA NewestIsThere ==
  ASSUME idle \in IdleType, \A c \in Requests : idle.since[c] <= idle.now,
         NEW S \in SUBSET Requests, S # {}
  PROVE  Newest(S) \in S /\ \A d \in S : idle.since[d] <= idle.since[Newest(S)]
<1> DEFINE T == {idle.now - idle.since[c] : c \in S}
           R == OpToRel(<, Nat)
<1>1. idle.since \in [Requests -> Nat] /\ idle.now \in Nat
  BY DEF IdleType
<1>2. T \subseteq Nat /\ T # {}
  BY <1>1
<1>3. IsWellFoundedOn(R, Nat)
  BY NatLessThanWellFounded
<1>4. PICK m \in T : \A y \in T : ~ (<<y, m>> \in R)
  <2> HIDE DEF T, R
  <2>1. QED
    BY <1>2, <1>3, WFMin
<1>5. \A y \in T : ~ (y < m)
  BY <1>2, <1>4 DEF OpToRel
<1>6. PICK c \in S : idle.now - idle.since[c] = m
  OBVIOUS
<1>7. ASSUME NEW d \in S PROVE idle.since[d] <= idle.since[c]
  <2>1. ~ (idle.now - idle.since[d] < m)
    BY <1>5
  <2>2. QED
    BY <1>1, <1>6, <2>1
<1>8. QED
  BY <1>7 DEF Newest

(* The size of a finite set that loses a part. *)
LEMMA Lost ==
  ASSUME NEW S, NEW T \in SUBSET S, IsFiniteSet(S)
  PROVE  /\ Cardinality(S) \in Nat /\ Cardinality(S \ T) \in Nat /\ Cardinality(T) \in Nat
         /\ Cardinality(S \ T) = Cardinality(S) - Cardinality(T)
<1>1. IsFiniteSet(T) /\ IsFiniteSet(S \ T)
  BY FS_Subset
<1>2. Cardinality(S \ T) = Cardinality(S) - Cardinality(S \cap T)
  BY <1>1, FS_Difference
<1>3. S \cap T = T
  OBVIOUS
<1>4. QED
  BY <1>1, <1>2, <1>3, FS_CardinalityType

(* Who is taken out of a queue was in it, or it stays as it is. *)
LEMMA WithoutKnown ==
  ASSUME NEW S, NEW q \in Seq(S), NEW r,
         \A j, k \in DOMAIN q : q[j] = q[k] => j = k
  PROVE  /\ Without(q, r) \in Seq(S)
         /\ \A k \in DOMAIN Without(q, r) : Without(q, r)[k] # r /\ \E j \in DOMAIN q : q[j] = Without(q, r)[k]
         /\ \A j, k \in DOMAIN Without(q, r) : Without(q, r)[j] = Without(q, r)[k] => j = k
<1>1. CASE ~ \E k \in DOMAIN q : q[k] = r
  BY <1>1 DEF Without
<1>2. CASE \E k \in DOMAIN q : q[k] = r
  <2> DEFINE p == CHOOSE k \in DOMAIN q : q[k] = r
             w == RemoveAt(q, p)
  <2>1. p \in DOMAIN q /\ q[p] = r
    BY <1>2
  <2>2. Without(q, r) = w
    BY <1>2 DEF Without
  <2>3. Len(q) \in Nat /\ DOMAIN q = 1 .. Len(q) /\ \A k \in 1 .. Len(q) : q[k] \in S
    OBVIOUS
  <2>4. p \in 1 .. Len(q)
    BY <2>1, <2>3
  <2> HIDE DEF p
  <2> DEFINE u == SubSeq(q, 1, p - 1)
             v == SubSeq(q, p + 1, Len(q))
  <2>5. /\ u \in Seq(S) /\ Len(u) = p - 1
        /\ \A i \in 1 .. p - 1 : u[i] = q[i]
    <3>1. 1 \in Int /\ p - 1 \in Int /\ (\A i \in 1 .. p - 1 : q[i] \in S)
      BY <2>3, <2>4
    <3>2. /\ u \in Seq(S)
          /\ Len(u) = IF 1 <= p - 1 THEN (p - 1) - 1 + 1 ELSE 0
          /\ \A i \in 1 .. (p - 1) - 1 + 1 : u[i] = q[1 + i - 1]
      BY <3>1, SubSeqProperties
    <3>3. QED
      BY <2>3, <2>4, <3>2
  <2>6. /\ v \in Seq(S) /\ Len(v) = Len(q) - p
        /\ \A i \in 1 .. Len(q) - p : v[i] = q[p + i]
    <3>1. p + 1 \in Int /\ Len(q) \in Int /\ (\A i \in p + 1 .. Len(q) : q[i] \in S)
      BY <2>3, <2>4
    <3>2. /\ v \in Seq(S)
          /\ Len(v) = IF p + 1 <= Len(q) THEN Len(q) - (p + 1) + 1 ELSE 0
          /\ \A i \in 1 .. Len(q) - (p + 1) + 1 : v[i] = q[(p + 1) + i - 1]
      BY <3>1, SubSeqProperties
    <3>3. QED
      BY <2>3, <2>4, <3>2
  <2> HIDE DEF u, v
  <2>6a. w = u \o v
    BY DEF RemoveAt, u, v
  <2>6b. /\ u \o v \in Seq(S)
         /\ Len(u \o v) = Len(u) + Len(v)
         /\ \A i \in 1 .. Len(u) + Len(v) : (u \o v)[i] = IF i <= Len(u) THEN u[i] ELSE v[i - Len(u)]
    <3>1. u \in Seq(S) /\ v \in Seq(S)
      BY <2>5, <2>6
    <3>2. QED
      BY <3>1, ConcatProperties
  <2>7. w \in Seq(S) /\ Len(w) = Len(q) - 1
    BY <2>3, <2>4, <2>5, <2>6, <2>6a, <2>6b
  <2>8. ASSUME NEW k \in 1 .. Len(q) - 1
        PROVE  w[k] = IF k < p THEN q[k] ELSE q[k + 1]
    <3>1. w[k] = IF k <= p - 1 THEN u[k] ELSE v[k - (p - 1)]
      <4>1. Len(u) = p - 1 /\ k \in 1 .. Len(u) + Len(v)
        BY <2>3, <2>4, <2>5, <2>6, <2>8
      <4>2. QED
        BY <2>6a, <2>6b, <4>1
    <3>2. CASE k < p
      BY <2>3, <2>4, <2>5, <3>1, <3>2
    <3>3. CASE ~ (k < p)
      <4>1. k - (p - 1) \in 1 .. Len(q) - p /\ p + (k - (p - 1)) = k + 1
        BY <2>3, <2>4, <3>3
      <4>2. QED
        BY <2>4, <2>6, <3>1, <3>3, <4>1
    <3>4. QED
      BY <3>2, <3>3
  <2> HIDE DEF w
  <2>9. \A k \in 1 .. Len(q) - 1 : w[k] # r /\ \E j \in DOMAIN q : q[j] = w[k]
    <3>1. SUFFICES ASSUME NEW k \in 1 .. Len(q) - 1
                   PROVE  w[k] # r /\ \E j \in DOMAIN q : q[j] = w[k]
      OBVIOUS
    <3> DEFINE j == IF k < p THEN k ELSE k + 1
    <3>2. j \in DOMAIN q /\ j # p /\ w[k] = q[j]
      BY <2>3, <2>4, <2>8
    <3>3. QED
      BY <2>1, <3>2
  <2>10. \A j, k \in 1 .. Len(q) - 1 : w[j] = w[k] => j = k
    <3>1. SUFFICES ASSUME NEW j \in 1 .. Len(q) - 1, NEW k \in 1 .. Len(q) - 1, w[j] = w[k]
                   PROVE  j = k
      OBVIOUS
    <3> DEFINE jj == IF j < p THEN j ELSE j + 1
               kk == IF k < p THEN k ELSE k + 1
    <3>2. jj \in DOMAIN q /\ kk \in DOMAIN q /\ w[j] = q[jj] /\ w[k] = q[kk]
      BY <2>3, <2>4, <2>8
    <3>3. jj = kk
      BY <3>1, <3>2
    <3>4. QED
      BY <2>3, <2>4, <3>3
  <2>11. DOMAIN w = 1 .. Len(q) - 1
    BY <2>3, <2>7
  <2>12. QED
    BY <2>2, <2>7, <2>9, <2>10, <2>11
<1>3. QED
  BY <1>1, <1>2

-----------------------------------------------------------------------------
(* take_idle gives a connection of the pool, which is idle no more, and    *)
(* counts what it takes out.                                               *)
StoreRight(store) ==
  /\ store \in IdleType /\ store.count = Cardinality(store.kept) /\ store.count <= MaxIdle
  /\ \A c \in Requests : store.since[c] <= store.now

LEMMA TakenRight ==
  ASSUME ClientConstantsOK, clientUse \in ClientUses, idle \in IdleType, IdleRight, NEW o \in Origins
  PROVE  /\ StoreRight(Taken(o).store) /\ Taken(o).store.kept \subseteq idle.kept
         /\ \A x \in idle.kept \ Taken(o).store.kept : Origin(x) = o
         /\ Taken(o).conn # NoConn => Taken(o).conn \in idle.kept \ Taken(o).store.kept
<1> DEFINE newest == Newest(OfPool(o))
           found == OfPool(o) # {} /\ Fresh(newest)
           gone == IF found THEN {newest} ELSE OfPool(o)
           store == [idle EXCEPT !.kept = idle.kept \ gone, !.count = idle.count - Cardinality(gone)]
<1>1. OfPool(o) \subseteq idle.kept /\ idle.kept \subseteq Requests /\ IsFiniteSet(idle.kept)
  BY UseKnown, FS_Subset DEF OfPool, IdleType
<1>2. OfPool(o) # {} => newest \in OfPool(o)
  <2>1. OfPool(o) \in SUBSET Requests
    BY <1>1
  <2>2. \A c \in Requests : idle.since[c] <= idle.now
    BY DEF IdleRight
  <2>3. QED
    BY <2>1, <2>2, NewestIsThere
<1>3. Taken(o).store = store /\ Taken(o).conn = IF found THEN newest ELSE NoConn
  BY DEF Taken
<1> HIDE DEF newest
<1>4. gone \in SUBSET idle.kept /\ gone \subseteq OfPool(o)
  BY <1>1, <1>2
<1> HIDE DEF gone
<1>5. /\ Cardinality(idle.kept) \in Nat /\ Cardinality(idle.kept \ gone) \in Nat /\ Cardinality(gone) \in Nat
      /\ Cardinality(idle.kept \ gone) = Cardinality(idle.kept) - Cardinality(gone)
  BY <1>1, <1>4, Lost
<1>6. /\ store.kept = idle.kept \ gone /\ store.count = idle.count - Cardinality(gone)
      /\ store.since = idle.since /\ store.now = idle.now
  BY DEF IdleType
<1>7. idle.count = Cardinality(idle.kept) /\ idle.count <= MaxIdle /\ MaxIdle \in Nat
  BY DEF IdleRight, ClientConstantsOK
<1>8. store.count \in Nat /\ store.count <= MaxIdle /\ store.count = Cardinality(store.kept)
  BY <1>5, <1>6, <1>7
<1>9. store \in IdleType
  <2>1. idle.kept \ gone \in SUBSET Requests /\ idle.count - Cardinality(gone) \in Nat
    BY <1>1, <1>6, <1>8
  <2>2. QED
    BY <2>1 DEF IdleType
<1>10. StoreRight(store)
  BY <1>6, <1>8, <1>9 DEF StoreRight, IdleRight
<1>11. \A x \in idle.kept \ store.kept : Origin(x) = o
  BY <1>4, <1>6 DEF OfPool
<1>12. Taken(o).conn # NoConn => Taken(o).conn \in idle.kept \ store.kept
  BY <1>2, <1>3, <1>4, <1>6 DEF gone
<1> HIDE DEF store
<1>13. store.kept \subseteq idle.kept
  BY <1>6
<1>14. QED
  BY <1>3, <1>10, <1>11, <1>12, <1>13

(* release keeps the connection it is given, counts what it drops for it,  *)
(* and never keeps too many.                                               *)
LEMMA ReleasedRight ==
  ASSUME ClientConstantsOK, clientUse \in ClientUses, idle \in IdleType, IdleRight,
         NEW c \in Requests, c \notin idle.kept
  PROVE  /\ StoreRight(Released(c))
         /\ c \in Released(c).kept /\ Released(c).kept \subseteq idle.kept \cup {c}
<1> DEFINE pruned == IF idle.count < MaxIdle THEN idle.kept ELSE {d \in idle.kept : Fresh(d)}
           left == idle.count - Cardinality(idle.kept \ pruned)
           room == IF left < MaxIdle THEN pruned ELSE pruned \ {Oldest(pruned)}
           count == left - Cardinality(pruned \ room) + 1
           store == [idle EXCEPT !.kept = room \cup {c}, !.count = count,
                                 !.since[c] = idle.now + 1, !.now = idle.now + 1]
<1>1. Released(c) = store
  BY DEF Released
<1>2. idle.kept \subseteq Requests /\ IsFiniteSet(idle.kept)
  BY UseKnown, FS_Subset DEF IdleType
<1>3. idle.count = Cardinality(idle.kept) /\ idle.count <= MaxIdle /\ MaxIdle \in Nat \ {0} /\ idle.count \in Nat
  BY DEF IdleRight, ClientConstantsOK, IdleType
<1>4. pruned \in SUBSET idle.kept
  OBVIOUS
<1> HIDE DEF pruned
<1>5. IsFiniteSet(pruned) /\ pruned \in SUBSET Requests
  BY <1>2, <1>4, FS_Subset
<1>6. left = Cardinality(pruned) /\ left \in Nat /\ left <= MaxIdle
  <2>1. idle.kept \ (idle.kept \ pruned) = pruned /\ idle.kept \ pruned \in SUBSET idle.kept
    BY <1>4
  <2>2. /\ Cardinality(idle.kept \ pruned) \in Nat /\ Cardinality(pruned) \in Nat
        /\ Cardinality(pruned) = Cardinality(idle.kept) - Cardinality(idle.kept \ pruned)
    BY <1>2, <2>1, Lost
  <2>3. QED
    BY <1>3, <2>2
<1> HIDE DEF left
<1>7. room \in SUBSET pruned
  OBVIOUS
<1>8. left - Cardinality(pruned \ room) = Cardinality(room) /\ Cardinality(room) \in Nat /\ IsFiniteSet(room)
  <2>1. pruned \ (pruned \ room) = room /\ pruned \ room \in SUBSET pruned
    BY <1>7
  <2> HIDE DEF room
  <2>2. /\ Cardinality(pruned \ room) \in Nat /\ Cardinality(room) \in Nat
        /\ Cardinality(room) = Cardinality(pruned) - Cardinality(pruned \ room)
    BY <1>5, <2>1, Lost
  <2>3. IsFiniteSet(room)
    BY <1>5, <1>7, FS_Subset
  <2>4. QED
    BY <1>6, <2>2, <2>3
<1>9. Cardinality(room) < MaxIdle
  <2>1. CASE left < MaxIdle
    BY <1>6, <2>1
  <2>2. CASE ~ (left < MaxIdle)
    <3>1. left = MaxIdle /\ left > 0
      BY <1>3, <1>6, <2>2
    <3>2. pruned # {}
      <4>1. Cardinality(pruned) # 0
        BY <1>6, <3>1
      <4>2. QED
        BY <4>1, FS_EmptySet
    <3>3. Oldest(pruned) \in pruned
      BY <1>5, <3>2, OldestIsThere
    <3>4. Cardinality(pruned \ {Oldest(pruned)}) = Cardinality(pruned) - 1
      BY <1>5, <3>3, FS_RemoveElement
    <3>5. room = pruned \ {Oldest(pruned)}
      BY <2>2
    <3> HIDE DEF room
    <3>6. QED
      BY <1>6, <3>1, <3>4, <3>5
  <2>3. QED
    BY <2>1, <2>2
<1> HIDE DEF room
<1>10. c \notin room /\ room \cup {c} \in SUBSET Requests
  BY <1>2, <1>4, <1>7
<1>11. Cardinality(room \cup {c}) = Cardinality(room) + 1
  BY <1>8, <1>10, FS_AddElement
<1>12. count = Cardinality(room \cup {c}) /\ count \in Nat /\ count <= MaxIdle
  BY <1>3, <1>8, <1>9, <1>11
<1> HIDE DEF count
<1>13. idle.since \in [Requests -> Nat] /\ idle.now \in Nat
  BY DEF IdleType
<1>14. /\ store.kept = room \cup {c} /\ store.count = count /\ store.now = idle.now + 1
       /\ store.since = [idle.since EXCEPT ![c] = idle.now + 1]
  BY DEF IdleType
<1>15. store \in IdleType
  <2>1. [idle.since EXCEPT ![c] = idle.now + 1] \in [Requests -> Nat] /\ idle.now + 1 \in Nat
    BY <1>13
  <2>2. QED
    BY <1>10, <1>12, <2>1 DEF IdleType
<1> HIDE DEF store
<1>16. \A d \in Requests : store.since[d] <= store.now
  <2>1. \A d \in Requests : idle.since[d] <= idle.now
    BY DEF IdleRight
  <2>2. QED
    BY <1>13, <1>14, <2>1
<1>17. StoreRight(store)
  BY <1>12, <1>14, <1>15, <1>16 DEF StoreRight
<1>18. QED
  BY <1>1, <1>4, <1>7, <1>14, <1>17

-----------------------------------------------------------------------------
(* A request waits at one gate, and holds no permit of it. *)
LEMMA WaitsOnce ==
  ASSUME ClientConstantsOK, ClientInv, NEW x \in Requests, NEW g \in Gates, WaitsAt(x, g)
  PROVE  /\ g \notin req[x].holds /\ Active(x)
         /\ \A h \in Gates : WaitsAt(x, h) => h = g
<1>1. Origin(x) \in Origins /\ Origin(x) # Global
  BY UseKnown DEF ClientInv, ClientTypeOK
<1>2. PhaseRight(x)
  BY DEF ClientInv, PhasesRight
<1>3. QED
  BY <1>1, <1>2 DEF PhaseRight, WaitsAt, Active

(* Who stands in a queue, seen from the sequence. *)
LEMMA Queued ==
  ASSUME ClientConstantsOK, ClientInv, NEW g \in Gates
  PROVE  /\ gate[g].queue \in Seq(Requests) /\ gate[g].taken \in Nat
         /\ \A k \in DOMAIN gate[g].queue : gate[g].queue[k] \in Requests /\ WaitsAt(gate[g].queue[k], g)
         /\ gate[g].queue # <<>> => Head(gate[g].queue) \in Requests /\ WaitsAt(Head(gate[g].queue), g)
<1>1. gate[g].queue \in Seq(Requests) /\ gate[g].taken \in Nat
  BY DEF ClientInv, ClientTypeOK
<1>2. \A k \in DOMAIN gate[g].queue : gate[g].queue[k] \in Requests
  BY <1>1
<1>3. \A k \in DOMAIN gate[g].queue : WaitsAt(gate[g].queue[k], g)
  BY DEF ClientInv, GatesRight, GateRight
<1>4. gate[g].queue # <<>> => 1 \in DOMAIN gate[g].queue /\ Head(gate[g].queue) = gate[g].queue[1]
  BY <1>1
<1>5. QED
  BY <1>1, <1>2, <1>3, <1>4

(* A permit that is given back lets in at most who waits for it. *)
LetsIn(x, g, q) == [q EXCEPT !.ev = "ok", !.holds = req[x].holds \cup {g}]
LEMMA LetInKnown ==
  ASSUME ClientConstantsOK, ClientInv, NEW x \in Requests, NEW gs \in SUBSET Gates
  PROVE  \/ /\ LetIn(x, gs) = req[x]
            /\ \A g \in gs : gate[g].queue # <<>> => Head(gate[g].queue) # x
         \/ \E g \in gs : /\ gate[g].queue # <<>> /\ Head(gate[g].queue) = x /\ WaitsAt(x, g)
                          /\ LetIn(x, gs) = LetsIn(x, g, req[x])
<1> DEFINE won == {g \in gs : gate[g].queue # <<>> /\ Head(gate[g].queue) = x}
<1>1. CASE won = {}
  BY <1>1 DEF LetIn
<1>2. CASE won # {}
  <2>1. PICK g \in won : TRUE
    BY <1>2
  <2>2. \A h \in won : h \in Gates /\ WaitsAt(x, h)
    BY Queued
  <2>3. won = {g}
    BY <2>1, <2>2, WaitsOnce
  <2>4. LetIn(x, gs) = LetsIn(x, g, req[x])
    BY <1>2, <2>3 DEF LetIn, LetsIn
  <2>5. QED
    BY <2>1, <2>2, <2>4
<1>3. QED
  BY <1>1, <1>2

(* Closing connections leaves what they carry. *)
LEMMA ClosedSame ==
  ASSUME conns \in [Requests -> ConnType], NEW gone
  PROVE  /\ Closed(gone) \in [Requests -> ConnType]
         /\ \A c \in Requests : Closed(gone)[c].sent = conns[c].sent /\ Closed(gone)[c].back = conns[c].back
<1>1. \A c \in Requests : /\ [conns[c] EXCEPT !.open = FALSE] \in ConnType
                          /\ [conns[c] EXCEPT !.open = FALSE].sent = conns[c].sent
                          /\ [conns[c] EXCEPT !.open = FALSE].back = conns[c].back
  BY DEF ConnType
<1>2. QED
  BY <1>1 DEF Closed

(* What a request may turn to: a connection of its own or of its pool that *)
(* nobody else has, and idle connections that keep all others.             *)
Turns(r, c, store) ==
  /\ StoreRight(store) /\ store.kept \subseteq idle.kept \cup {c}
  /\ c = req[r].conn \/ req[r].conn = NoConn
  /\ c # NoConn => /\ c \in Requests /\ Origin(c) = Origin(r) /\ (c = r \/ Made(c))
                   /\ \A q \in Requests : Active(q) /\ q # r => req[q].conn # c
  /\ c \in store.kept => c # NoConn /\ Clean(c)

(* The frame of a request ends: what it takes for the invariant to hold on. *)
Ends(r, c, store, out) ==
  /\ ClientConstantsOK /\ ClientInv /\ Active(r) /\ req[r].ev \in {"ok", "aborted", "failed"}
  /\ Turns(r, c, store) /\ out \in Outcomes
  /\ out = "ok" => req[r].got.req = r /\ req[r].got.kind # "info"
  /\ out = "timeout" => r \in late
  /\ out = "cancelled" => clientStop
  /\ Unmoved /\ RequestEnds(r, [req[r] EXCEPT !.conn = c], store, out)

(* What is left of the requests then. *)
LEMMA EndsShape ==
  ASSUME NEW r \in Requests, NEW c, NEW store, NEW out, Ends(r, c, store, out)
  PROVE  /\ req'[r].at = "done" /\ req'[r].ev = "none" /\ req'[r].holds = {}
         /\ req'[r].conn = c /\ req'[r].got = req[r].got /\ req'[r].out = out
         /\ c \in Requests \cup {NoConn} /\ req[r].holds \in SUBSET Gates /\ req \in [Requests -> ReqType]
         /\ \A x \in Requests \ {r} : req'[x] = LetIn(x, req[r].holds)
         /\ req' \in [Requests -> ReqType] /\ UNCHANGED <<Requests, late, clientStop, clientUse>>
         /\ \A x \in Requests \ {r} :
              /\ req'[x].at = req[x].at /\ req'[x].conn = req[x].conn /\ req'[x].got = req[x].got
              /\ req'[x].out = req[x].out
              /\ req'[x].ev = req[x].ev \/ (req[x].at \in {"origin", "global"} /\ req'[x].ev = "ok")
<1>1. req \in [Requests -> ReqType] /\ ClientConstantsOK /\ ClientInv
  BY DEF Ends, ClientInv, ClientTypeOK
<1>2. c \in Requests \cup {NoConn} /\ out \in Outcomes
  BY DEF Ends, Turns
<1> DEFINE r0 == [req[r] EXCEPT !.conn = c]
<1>3. r0.holds = req[r].holds /\ req[r].holds \in SUBSET Gates /\ r0 \in ReqType
  BY <1>1, <1>2 DEF ReqType
<1>4. req' = [x \in Requests |->
               IF x = r THEN [r0 EXCEPT !.at = "done", !.ev = "none", !.holds = {}, !.out = out]
               ELSE LetIn(x, r0.holds)]
  BY DEF Ends, RequestEnds
<1>5. UNCHANGED <<Requests, late, clientStop, clientUse>>
  BY DEF Ends, Unmoved, Requests
<1>6. /\ req'[r].at = "done" /\ req'[r].ev = "none" /\ req'[r].holds = {}
      /\ req'[r].conn = c /\ req'[r].got = req[r].got /\ req'[r].out = out
  BY <1>1, <1>4 DEF ReqType
<1>7. \A x \in Requests \ {r} : req'[x] = LetIn(x, req[r].holds)
  BY <1>3, <1>4
<1>8. [r0 EXCEPT !.at = "done", !.ev = "none", !.holds = {}, !.out = out] \in ReqType
  BY <1>2, <1>3 DEF ReqType, Phases, Events
<1>9. ASSUME NEW x \in Requests, NEW g \in Gates
      PROVE  /\ LetsIn(x, g, req[x]) \in ReqType
             /\ LetsIn(x, g, req[x]).at = req[x].at /\ LetsIn(x, g, req[x]).conn = req[x].conn
             /\ LetsIn(x, g, req[x]).got = req[x].got /\ LetsIn(x, g, req[x]).out = req[x].out
             /\ LetsIn(x, g, req[x]).ev = "ok"
  <2>1. req[x] \in ReqType
    BY <1>1
  <2>2. QED
    BY <2>1 DEF LetsIn, ReqType, Events
<1>10. ASSUME NEW x \in Requests \ {r}
       PROVE  /\ req'[x] \in ReqType
              /\ req'[x].at = req[x].at /\ req'[x].conn = req[x].conn /\ req'[x].got = req[x].got
              /\ req'[x].out = req[x].out
              /\ req'[x].ev = req[x].ev \/ (req[x].at \in {"origin", "global"} /\ req'[x].ev = "ok")
  <2>1. CASE LetIn(x, req[r].holds) = req[x]
    BY <1>1, <1>7, <2>1
  <2>2. CASE LetIn(x, req[r].holds) # req[x]
    <3>1. PICK g \in req[r].holds : WaitsAt(x, g) /\ LetIn(x, req[r].holds) = LetsIn(x, g, req[x])
      BY <1>1, <1>3, <2>2, LetInKnown
    <3>2. req[x].at \in {"origin", "global"}
      BY <3>1 DEF WaitsAt
    <3>3. QED
      BY <1>3, <1>7, <1>9, <3>1, <3>2
  <2>3. QED
    BY <2>1, <2>2
<1>11. req' \in [Requests -> ReqType]
  BY <1>4, <1>8, <1>10
<1>12. QED
  BY <1>1, <1>2, <1>3, <1>5, <1>6, <1>7, <1>10, <1>11

(* The permits: given back, or gone to who waited longest. *)
LEMMA EndsPhases ==
  ASSUME NEW r \in Requests, NEW c, NEW store, NEW out, Ends(r, c, store, out)
  PROVE  PhasesRight'
<1>1. SUFFICES ASSUME NEW x \in Requests PROVE PhaseRight(x)'
  BY EndsShape DEF PhasesRight
<1>2. PhaseRight(x) /\ req \in [Requests -> ReqType] /\ ClientConstantsOK /\ ClientInv
  BY DEF Ends, ClientInv, PhasesRight, ClientTypeOK
<1>3. Origin(x)' = Origin(x)
  BY EndsShape DEF Origin
<1>4. CASE x = r
  <2>2. req'[r].at = "done" /\ req'[r].ev = "none" /\ req'[r].holds = {}
    BY EndsShape
  <2>3. QED
    BY <1>4, <2>2 DEF PhaseRight, Active
<1>5. CASE x # r /\ req'[x] = req[x]
  BY <1>2, <1>3, <1>5 DEF PhaseRight, Active
<1>6. CASE x # r /\ req'[x] # req[x]
  <2>1. PICK g \in req[r].holds : g \in Gates /\ WaitsAt(x, g) /\ req'[x] = LetsIn(x, g, req[x])
    <3>1. req'[x] = LetIn(x, req[r].holds) /\ req[r].holds \in SUBSET Gates
      BY <1>6, EndsShape
    <3>2. QED
      BY <1>2, <1>6, <3>1, LetInKnown
  <2>2. /\ req'[x].at = req[x].at /\ req'[x].conn = req[x].conn /\ req'[x].out = req[x].out
        /\ req'[x].ev = "ok" /\ req'[x].holds = req[x].holds \cup {g}
    BY <1>2, <2>1 DEF LetsIn, ReqType
  <2>3. QED
    BY <1>2, <1>3, <2>1, <2>2 DEF PhaseRight, Active, WaitsAt
<1>7. QED
  BY <1>4, <1>5, <1>6

LEMMA EndsGates ==
  ASSUME NEW r \in Requests, NEW c, NEW store, NEW out, Ends(r, c, store, out)
  PROVE  /\ gate' \in [Gates -> [taken : Nat, queue : Seq(Requests)]]
         /\ GatesRight'
<1>1. /\ req \in [Requests -> ReqType] /\ ClientConstantsOK /\ ClientInv /\ req[r].holds \in SUBSET Gates
      /\ clientUse \in ClientUses /\ gate \in [Gates -> [taken : Nat, queue : Seq(Requests)]]
  BY DEF Ends, ClientInv, ClientTypeOK, ReqType
<1> DEFINE H == req[r].holds
<1>2. gate' = GivenBack(H)
  <2>1. [req[r] EXCEPT !.conn = c].holds = H
    BY <1>1 DEF ReqType
  <2>2. QED
    BY <2>1 DEF Ends, RequestEnds
<1>3. req'[r].holds = {} /\ req'[r].at = "done"
  BY EndsShape
<1>4. \A x \in Requests \ {r} :
        \/ req'[x] = req[x] /\ \A g \in H : gate[g].queue # <<>> => Head(gate[g].queue) # x
        \/ \E g \in H : /\ gate[g].queue # <<>> /\ Head(gate[g].queue) = x /\ WaitsAt(x, g)
                        /\ req'[x] = LetsIn(x, g, req[x])
  <2>1. \A x \in Requests \ {r} : req'[x] = LetIn(x, H)
    BY EndsShape
  <2>2. QED
    BY <1>1, <2>1, LetInKnown
<1>5. ASSUME NEW x \in Requests \ {r}, NEW g \in Gates
      PROVE  /\ LetsIn(x, g, req[x]).holds = req[x].holds \cup {g} /\ LetsIn(x, g, req[x]).ev = "ok"
             /\ LetsIn(x, g, req[x]).at = req[x].at
  <2>1. req[x] \in ReqType
    BY <1>1
  <2>2. QED
    BY <2>1 DEF LetsIn, ReqType
<1>6. Requests' = Requests /\ Gates' = Gates /\ (\A g : Capacity(g)' = Capacity(g))
      /\ (\A x : Origin(x)' = Origin(x))
  BY EndsShape DEF Gates, Capacity, Origin
<1>7. \A g \in Gates : ~ WaitsAt(r, g)
  BY DEF Ends, WaitsAt
<1>8. IsFiniteSet(Requests)
  BY <1>1, UseKnown
<1>9. ASSUME NEW g \in Gates
      PROVE  gate'[g] \in [taken : Nat, queue : Seq(Requests)] /\ GateRight(g)'
  <2>1. /\ gate[g].queue \in Seq(Requests) /\ gate[g].taken \in Nat
        /\ \A k \in DOMAIN gate[g].queue : gate[g].queue[k] \in Requests /\ WaitsAt(gate[g].queue[k], g)
        /\ gate[g].queue # <<>> => Head(gate[g].queue) \in Requests /\ WaitsAt(Head(gate[g].queue), g)
    BY <1>1, Queued
  <2>2. GateRight(g)
    BY <1>1 DEF ClientInv, GatesRight
  <2>3. Holders(g) \in SUBSET Requests /\ IsFiniteSet(Holders(g))
    BY <1>8, FS_Subset DEF Holders
  <2>4. \A x \in Requests \ {r} :
           g \in req'[x].holds <=>
             \/ g \in req[x].holds
             \/ g \in H /\ gate[g].queue # <<>> /\ Head(gate[g].queue) = x
    <3>1. SUFFICES ASSUME NEW x \in Requests \ {r}
                   PROVE  g \in req'[x].holds <=>
                            \/ g \in req[x].holds
                            \/ g \in H /\ gate[g].queue # <<>> /\ Head(gate[g].queue) = x
      OBVIOUS
    <3>2. CASE req'[x] = req[x] /\ \A h \in H : gate[h].queue # <<>> => Head(gate[h].queue) # x
      BY <3>2
    <3>3. ASSUME NEW h \in H, gate[h].queue # <<>>, Head(gate[h].queue) = x, WaitsAt(x, h),
                 req'[x] = LetsIn(x, h, req[x])
          PROVE  g \in req'[x].holds <=>
                   \/ g \in req[x].holds
                   \/ g \in H /\ gate[g].queue # <<>> /\ Head(gate[g].queue) = x
      <4>1. req'[x].holds = req[x].holds \cup {h} /\ h \in Gates
        BY <1>1, <1>5, <3>3
      <4>2. gate[g].queue # <<>> /\ Head(gate[g].queue) = x => g = h
        BY <1>1, <2>1, <3>3, <4>1, WaitsOnce
      <4>3. QED
        BY <3>3, <4>1, <4>2
    <3>4. QED
      BY <1>4, <3>2, <3>3
  <2>5. ASSUME NEW x \in Requests \ {r}, WaitsAt(x, g),
               ~ (g \in H /\ gate[g].queue # <<>> /\ Head(gate[g].queue) = x)
        PROVE  WaitsAt(x, g)'
    <3>1. req'[x] = req[x]
      BY <1>1, <1>4, <2>5, WaitsOnce
    <3>2. QED
      BY <1>6, <2>5, <3>1 DEF WaitsAt
  <2>6. CASE g \notin H
    <3>1. gate'[g] = gate[g]
      BY <1>2, <2>6 DEF GivenBack
    <3>2. Holders(g)' = Holders(g)
      BY <1>3, <1>6, <2>4, <2>6 DEF Holders
    <3>3. \A k \in DOMAIN gate[g].queue : WaitsAt(gate[g].queue[k], g)'
      <4>1. SUFFICES ASSUME NEW k \in DOMAIN gate[g].queue PROVE WaitsAt(gate[g].queue[k], g)'
        OBVIOUS
      <4> DEFINE x == gate[g].queue[k]
      <4>2. x \in Requests \ {r} /\ WaitsAt(x, g)
        BY <1>7, <2>1
      <4>3. PICK y : y = x
        OBVIOUS
      <4>4. WaitsAt(y, g)'
        BY <2>5, <2>6, <4>2, <4>3
      <4>5. QED
        BY <3>1, <4>3, <4>4 DEF WaitsAt
    <3>4. QED
      BY <1>1, <1>6, <2>1, <2>2, <3>1, <3>2, <3>3 DEF GateRight
  <2>7. CASE g \in H /\ gate[g].queue = <<>>
    <3>1. gate'[g] = [gate[g] EXCEPT !.taken = gate[g].taken - 1]
      BY <1>2, <2>7 DEF GivenBack
    <3>2. Holders(g)' = Holders(g) \ {r} /\ r \in Holders(g)
      BY <1>3, <1>6, <2>4, <2>7 DEF Holders
    <3>3. Cardinality(Holders(g) \ {r}) = Cardinality(Holders(g)) - 1
      BY <2>3, <3>2, FS_RemoveElement
    <3>4. Cardinality(Holders(g) \ {r}) \in Nat /\ Cardinality(Holders(g)) \in Nat
      BY <2>3, FS_RemoveElement, FS_CardinalityType
    <3>5. gate'[g].taken = gate[g].taken - 1 /\ gate'[g].queue = <<>> /\ DOMAIN <<>> = {}
      BY <1>1, <2>7, <3>1
    <3>6. gate[g].taken = Cardinality(Holders(g)) /\ gate[g].taken <= Capacity(g) /\ Capacity(g) \in Nat
      BY <1>1, <2>2, UseKnown DEF GateRight
    <3>7. gate'[g].taken = Cardinality(Holders(g)') /\ gate'[g].taken <= Capacity(g) /\ gate'[g].taken \in Nat
      BY <3>2, <3>3, <3>4, <3>5, <3>6
    <3>8. gate'[g] \in [taken : Nat, queue : Seq(Requests)]
      BY <1>1, <3>1, <3>5, <3>7
    <3>9. QED
      BY <1>6, <3>5, <3>7, <3>8 DEF GateRight
  <2>8. CASE g \in H /\ gate[g].queue # <<>>
    <3>a. PICK h : h = Head(gate[g].queue)
      OBVIOUS
    <3>b. PICK tail : tail = Tail(gate[g].queue)
      OBVIOUS
    <3>1. gate'[g] = [gate[g] EXCEPT !.queue = tail]
      BY <1>2, <2>8, <3>b DEF GivenBack
    <3>2. h \in Requests /\ WaitsAt(h, g) /\ h # r /\ g \notin req[h].holds
      BY <1>1, <1>7, <2>1, <2>8, <3>a, WaitsOnce
    <3>3. Holders(g)' = (Holders(g) \ {r}) \cup {h} /\ r \in Holders(g)
      BY <1>3, <1>6, <2>4, <2>8, <3>2, <3>a DEF Holders
    <3>4. Cardinality(Holders(g) \ {r}) = Cardinality(Holders(g)) - 1 /\ IsFiniteSet(Holders(g) \ {r})
      BY <2>3, <3>3, FS_RemoveElement
    <3>5. h \notin Holders(g) \ {r}
      BY <3>2 DEF Holders
    <3>6. Cardinality((Holders(g) \ {r}) \cup {h}) = Cardinality(Holders(g) \ {r}) + 1
      BY <3>4, <3>5, FS_AddElement
    <3>7. Cardinality(Holders(g)) \in Nat
      BY <2>3, FS_CardinalityType
    <3>8. Cardinality(Holders(g)') = Cardinality(Holders(g))
      BY <3>3, <3>4, <3>6, <3>7
    <3>9. /\ tail \in Seq(Requests) /\ DOMAIN tail = 1 .. Len(gate[g].queue) - 1
          /\ \A k \in DOMAIN tail : k + 1 \in DOMAIN gate[g].queue /\ tail[k] = gate[g].queue[k + 1]
      BY <2>1, <2>8, <3>b
    <3>10. 1 \in DOMAIN gate[g].queue /\ h = gate[g].queue[1]
      BY <2>1, <2>8, <3>a
    <3>11. gate'[g].taken = gate[g].taken /\ gate'[g].queue = tail
      BY <1>1, <3>1
    <3>12. \A k \in DOMAIN tail : WaitsAt(tail[k], g)'
      <4>1. SUFFICES ASSUME NEW k \in DOMAIN tail PROVE WaitsAt(tail[k], g)'
        OBVIOUS
      <4>2. k + 1 # 1 /\ k + 1 \in DOMAIN gate[g].queue /\ tail[k] = gate[g].queue[k + 1]
        BY <2>1, <3>9
      <4>3. tail[k] # h
        BY <2>2, <3>10, <4>2 DEF GateRight
      <4>4. tail[k] \in Requests \ {r} /\ WaitsAt(tail[k], g)
        BY <1>7, <2>1, <4>2
      <4>5. QED
        BY <2>5, <3>a, <4>3, <4>4
    <3>13. \A j, k \in DOMAIN tail : tail[j] = tail[k] => j = k
      <4>1. SUFFICES ASSUME NEW j \in DOMAIN tail, NEW k \in DOMAIN tail, tail[j] = tail[k] PROVE j = k
        OBVIOUS
      <4>2. j + 1 = k + 1
        BY <2>2, <3>9, <4>1 DEF GateRight
      <4>3. QED
        BY <2>1, <3>9, <4>2
    <3>14. gate'[g] \in [taken : Nat, queue : Seq(Requests)]
      BY <1>1, <3>1, <3>9
    <3>15. gate[g].taken = Cardinality(Holders(g)) /\ gate[g].taken <= Capacity(g)
           /\ gate[g].taken = Capacity(g)
      BY <2>2, <2>8 DEF GateRight
    <3>16. gate'[g].taken = Cardinality(Holders(g)') /\ gate'[g].taken = Capacity(g)
      BY <3>8, <3>11, <3>15
    <3>17. \A k \in DOMAIN gate'[g].queue : WaitsAt(gate[g].queue[k], g)'
      BY <3>11, <3>12 DEF WaitsAt
    <3>18. \A j, k \in DOMAIN gate'[g].queue : gate'[g].queue[j] = gate'[g].queue[k] => j = k
      BY <3>11, <3>13
    <3>19. Capacity(g) \in Nat
      BY <1>1, UseKnown
    <3>20. QED
      BY <1>6, <3>14, <3>16, <3>17, <3>18, <3>19 DEF GateRight
  <2>9. QED
    BY <2>6, <2>7, <2>8
<1>10. GatesRight'
  BY <1>6, <1>9 DEF GatesRight
<1>11. gate' \in [Gates -> [taken : Nat, queue : Seq(Requests)]]
  <2>1. DOMAIN gate' = Gates /\ gate' = [g \in Gates |-> gate'[g]]
    BY <1>2 DEF GivenBack
  <2>2. QED
    BY <1>9, <2>1
<1>12. QED
  BY <1>10, <1>11

(* The pools: one user less, and erased when nothing keeps them. *)
LEMMA EndsPools ==
  ASSUME NEW r \in Requests, NEW c, NEW store, NEW out, Ends(r, c, store, out)
  PROVE  pools' \in [Origins -> Nat \cup {NoPool}] /\ PoolsRight'
<1>1. /\ pools \in [Origins -> Nat \cup {NoPool}] /\ PoolsRight /\ ClientConstantsOK
      /\ clientUse \in ClientUses /\ Active(r) /\ Turns(r, c, store)
      /\ idle' = store /\ pools' = Swept([pools EXCEPT ![Origin(r)] = @ - 1], store.kept)
  BY DEF Ends, RequestEnds, ClientInv, ClientTypeOK
<1>2. IsFiniteSet(Requests) /\ Origin(r) \in Origins
  BY <1>1, UseKnown
<1>3. Requests' = Requests /\ (\A x : Origin(x)' = Origin(x))
  BY EndsShape DEF Origin
<1>4. (\A x \in Requests \ {r} : Active(x)' <=> Active(x)) /\ ~ Active(r)'
  BY EndsShape DEF Active
<1>5. ASSUME NEW o \in Origins
      PROVE  /\ pools'[o] \in Nat \cup {NoPool}
             /\ pools'[o] = IF Users(o)' = {} /\ OfPool(o)' = {} THEN NoPool ELSE Cardinality(Users(o)')
  <2> DEFINE users == [pools EXCEPT ![Origin(r)] = pools[Origin(r)] - 1]
  <2>1. OfPool(o)' = {x \in store.kept : Origin(x) = o}
    BY <1>1, <1>3 DEF OfPool
  <2>2. pools'[o] = IF users[o] \in {0, NoPool} /\ OfPool(o)' = {} THEN NoPool ELSE users[o]
    BY <1>1, <2>1 DEF Swept
  <2>3. pools[o] = IF Users(o) = {} /\ OfPool(o) = {} THEN NoPool ELSE Cardinality(Users(o))
    BY <1>1 DEF PoolsRight
  <2>4. IsFiniteSet(Users(o)) /\ Cardinality(Users(o)) \in Nat /\ Cardinality({}) = 0
    BY <1>2, FS_Subset, FS_CardinalityType, FS_EmptySet DEF Users
  <2>5. CASE o = Origin(r)
    <3>1. r \in Users(o) /\ Users(o)' = Users(o) \ {r}
      BY <1>1, <1>3, <1>4, <2>5 DEF Users
    <3>2. IsFiniteSet(Users(o) \ {r}) /\ Cardinality(Users(o) \ {r}) = Cardinality(Users(o)) - 1
      BY <2>4, <3>1, FS_RemoveElement
    <3>3. Cardinality(Users(o) \ {r}) \in Nat /\ (Cardinality(Users(o) \ {r}) = 0 <=> Users(o) \ {r} = {})
      BY <3>2, FS_CardinalityType, FS_EmptySet
    <3>4. pools[o] = Cardinality(Users(o))
      BY <2>3, <3>1
    <3>5. users[o] = Cardinality(Users(o)')
      BY <1>1, <1>2, <2>5, <3>1, <3>2, <3>4
    <3>6. QED
      BY <2>2, <3>1, <3>3, <3>5 DEF NoPool
  <2>6. CASE o # Origin(r)
    <3>1. Users(o)' = Users(o)
      BY <1>3, <1>4, <2>6 DEF Users
    <3>2. users[o] = pools[o]
      BY <1>1, <2>6
    <3>3. OfPool(o)' \subseteq OfPool(o)
      BY <1>1, <2>1, <2>6 DEF OfPool, Turns
    <3>4. Cardinality(Users(o)) = 0 <=> Users(o) = {}
      BY <2>4, FS_EmptySet
    <3>5. QED
      BY <2>2, <2>3, <2>4, <3>1, <3>2, <3>3, <3>4 DEF NoPool
  <2>7. QED
    BY <2>5, <2>6
<1>6. pools' = [o \in Origins |-> pools'[o]]
  BY <1>1 DEF Swept
<1>7. pools' \in [Origins -> Nat \cup {NoPool}]
  BY <1>5, <1>6
<1>8. QED
  BY <1>5, <1>7 DEF PoolsRight

(* The connections: nobody else had the one that is given back. *)
LEMMA EndsConns ==
  ASSUME NEW r \in Requests, NEW c, NEW store, NEW out, Ends(r, c, store, out)
  PROVE  conns' \in [Requests -> ConnType] /\ ConnsRight' /\ ContentRight'
<1>1. /\ conns \in [Requests -> ConnType] /\ ConnsRight /\ ContentRight /\ Turns(r, c, store) /\ Active(r)
      /\ req \in [Requests -> ReqType] /\ ClientConstantsOK /\ clientUse \in ClientUses
      /\ idle' = store /\ idle \in IdleType /\ store \in IdleType
  BY DEF Ends, RequestEnds, ClientInv, ClientTypeOK, Turns, StoreRight
<1>2. conns' = Closed((idle.kept \cup {c}) \ store.kept)
  <2>1. [req[r] EXCEPT !.conn = c].conn = c
    BY <1>1 DEF ReqType
  <2>2. QED
    BY <2>1 DEF Ends, RequestEnds
<1>3. /\ conns' \in [Requests -> ConnType]
      /\ \A x \in Requests : conns'[x].sent = conns[x].sent /\ conns'[x].back = conns[x].back
  BY <1>1, <1>2, ClosedSame
<1>4. Requests' = Requests /\ (\A x : Origin(x)' = Origin(x)) /\ Requests \subseteq Nat \ {0}
  BY <1>1, UseKnown, EndsShape DEF Origin
<1>5. req'[r].at = "done" /\ req'[r].conn = c
  BY EndsShape
<1>6. \A x \in Requests \ {r} :
        /\ req'[x].at = req[x].at /\ req'[x].conn = req[x].conn /\ req'[x].got = req[x].got
        /\ req'[x].ev = req[x].ev \/ (req[x].at \in {"origin", "global"} /\ req'[x].ev = "ok")
  BY EndsShape
<1>7. store.kept \subseteq Requests /\ idle.kept \subseteq Requests
  BY <1>1 DEF IdleType
<1>8. \A x \in Requests : (Made(x) => Made(x)') /\ (Made(x)' => Made(x) \/ x = c)
  <2>1. req[r].conn = c \/ req[r].conn = NoConn
    BY <1>1 DEF Turns
  <2>2. \A x \in Requests \ {r} : Made(x)' <=> Made(x)
    BY <1>6 DEF Made
  <2>3. (Made(r) => Made(r)') /\ (Made(r)' => r = c)
    BY <1>4, <1>5, <2>1 DEF Made, NoConn
  <2>4. QED
    BY <2>2, <2>3
<1>9. c # NoConn => c \in Requests /\ Made(c)'
  <2>1. c # NoConn => c \in Requests /\ (c = r \/ Made(c))
    BY <1>1 DEF Turns
  <2>2. c = r => Made(c)'
    BY <1>5 DEF Made
  <2>3. QED
    BY <1>8, <2>1, <2>2
<1>10. ConnsRight'
  <2>1. \A x \in store.kept : Made(x)'
    <3>1. \A x \in idle.kept : Made(x)
      BY <1>1 DEF ConnsRight
    <3>2. c \in store.kept => c # NoConn
      BY <1>1 DEF Turns
    <3>3. store.kept \subseteq idle.kept \cup {c}
      BY <1>1 DEF Turns
    <3>4. QED
      BY <1>7, <1>8, <1>9, <3>1, <3>2, <3>3
  <2>2. ASSUME NEW x \in Requests, Active(x)', req'[x].conn # NoConn
        PROVE  /\ Made(req[x].conn)' /\ req'[x].conn = req[x].conn /\ req[x].conn \notin store.kept
               /\ Origin(req[x].conn) = Origin(x)
               /\ \A q \in Requests : Active(q)' /\ req'[q].conn = req'[x].conn => q = x
    <3>1. x # r /\ Active(x) /\ req'[x].conn = req[x].conn
      BY <1>5, <1>6, <2>2 DEF Active
    <3>2. /\ Made(req[x].conn) /\ req[x].conn \notin idle.kept /\ Origin(req[x].conn) = Origin(x)
          /\ \A q \in Requests : Active(q) /\ req[q].conn = req[x].conn => q = x
      BY <1>1, <2>2, <3>1 DEF ConnsRight
    <3>3. req[x].conn # c /\ req[x].conn \in Requests
      BY <1>1, <2>2, <3>1 DEF Turns, ReqType
    <3>4. req[x].conn \notin store.kept
      BY <1>1, <3>2, <3>3 DEF Turns
    <3>5. \A q \in Requests : Active(q)' /\ req'[q].conn = req'[x].conn => q = x
      BY <1>5, <1>6, <3>1, <3>2 DEF Active
    <3>6. PICK y : y = req[x].conn
      OBVIOUS
    <3>7. Made(y)'
      BY <1>8, <3>2, <3>3, <3>6
    <3>8. req'[y].conn = y
      BY <3>7 DEF Made
    <3>9. Made(req[x].conn)'
      BY <3>1, <3>6, <3>8 DEF Made
    <3>10. QED
      BY <3>1, <3>2, <3>4, <3>5, <3>9
  <2>3. QED
    BY <1>1, <1>4, <2>1, <2>2 DEF ConnsRight, Made
<1>11. ContentRight'
  <2>1. \A x \in Requests : x \in store.kept \/ ~ Made(x)' => Clean(x)'
    <3>1. \A x \in Requests : x \in idle.kept \/ ~ Made(x) => Clean(x)
      BY <1>1 DEF ContentRight
    <3>2. \A x \in Requests : Clean(x) => Clean(x)'
      BY <1>3 DEF Clean
    <3>3. store.kept \subseteq idle.kept \cup {c} /\ (c \in store.kept => Clean(c))
      BY <1>1 DEF Turns
    <3>4. QED
      BY <1>8, <3>1, <3>2, <3>3
  <2>2. ASSUME NEW x \in Requests
        PROVE  /\ req'[x].at \in {"connect", "tls"} \/ Writing(x)' \/ Final(x)' => Clean(req[x].conn)'
               /\ Asked(x)' => Owed(req[x].conn, x)'
               /\ req'[x].at = "read" /\ req'[x].ev = "ok" => req'[x].got.req = x
               /\ req'[x].at \in {"connect", "tls", "write", "read"} => req'[x].conn = req[x].conn
    <3>1. CASE x = r
      BY <1>5, <3>1 DEF Writing, Final, Asked
    <3>2. CASE x # r /\ req[x].at \notin {"connect", "tls", "write", "read"}
      BY <1>6, <3>2 DEF Writing, Final, Asked
    <3>3. CASE x # r /\ req[x].at \in {"connect", "tls", "write", "read"}
      <4>1. /\ req'[x].at = req[x].at /\ req'[x].conn = req[x].conn /\ req'[x].got = req[x].got
            /\ req'[x].ev = req[x].ev
        BY <1>6, <3>3
      <4>2. req[x].conn \in Requests
        <5>1. PhaseRight(x)
          BY DEF Ends, ClientInv, PhasesRight
        <5>2. QED
          BY <1>1, <1>4, <3>3, <5>1 DEF PhaseRight, ReqType, NoConn
      <4>3. PICK y \in Requests : y = req[x].conn
        BY <4>2
      <4>4. conns'[y].sent = conns[y].sent /\ conns'[y].back = conns[y].back
        BY <1>3
      <4>5. /\ req[x].at \in {"connect", "tls"} \/ Writing(x) \/ Final(x) => Clean(y)
            /\ Asked(x) => Owed(y, x)
            /\ req[x].at = "read" /\ req[x].ev = "ok" => req[x].got.req = x
        BY <1>1, <4>3 DEF ContentRight
      <4>6. (Clean(y) => Clean(y)') /\ (Owed(y, x) => Owed(y, x)')
        BY <4>4 DEF Clean, Owed
      <4>7. (Writing(x)' <=> Writing(x)) /\ (Final(x)' <=> Final(x)) /\ (Asked(x)' <=> Asked(x))
        BY <4>1 DEF Writing, Final, Asked
      <4>8. (Clean(req[x].conn)' <=> Clean(y)') /\ (Owed(req[x].conn, x)' <=> Owed(y, x)')
        BY <4>1, <4>3 DEF Clean, Owed
      <4>9. QED
        BY <4>1, <4>5, <4>6, <4>7, <4>8
    <3>4. QED
      BY <3>1, <3>2, <3>3
  <2>3. QED
    BY <1>1, <1>4, <2>1, <2>2 DEF ContentRight, Clean, Owed
<1>12. QED
  BY <1>3, <1>4, <1>10, <1>11

(* The end of a request keeps the invariant. *)
LEMMA EndsKeeps ==
  ASSUME NEW r \in Requests, NEW c, NEW store, NEW out, Ends(r, c, store, out)
  PROVE  ClientInv'
<1>1. /\ ClientInv /\ ClientConstantsOK /\ idle' = store /\ StoreRight(store)
      /\ edges' = [edges EXCEPT ![r] = {}]
  BY DEF Ends, RequestEnds, Turns
<1>2. /\ req' \in [Requests -> ReqType] /\ UNCHANGED <<Requests, late, clientStop, clientUse>>
      /\ \A x \in Requests \ {r} : /\ req'[x].out = req[x].out /\ req'[x].got = req[x].got
                                   /\ req'[x].ev = req[x].ev \/ req'[x].ev = "ok"
      /\ req'[r].out = out /\ req'[r].got = req[r].got /\ req'[r].ev = "none"
  BY EndsShape
<1>3. Gates' = Gates /\ ReqType' = ReqType /\ IdleType' = IdleType /\ ConnType' = ConnType
  BY <1>2 DEF Gates, ReqType, IdleType, ConnType, Response, NoConn, NoResponse
<1>4. edges' \in [Requests -> SUBSET {"deadline", "stop"}]
  BY <1>1 DEF ClientInv, ClientTypeOK
<1>5. idle' \in IdleType /\ IdleRight'
  BY <1>1, <1>2 DEF StoreRight, IdleRight
<1>6. ClientTypeOK'
  <2>1. gate' \in [Gates -> [taken : Nat, queue : Seq(Requests)]]
    BY EndsGates
  <2>2. pools' \in [Origins -> Nat \cup {NoPool}] /\ conns' \in [Requests -> ConnType]
    BY EndsPools, EndsConns
  <2>3. clientUse \in ClientUses /\ late \subseteq Requests /\ clientStop \in BOOLEAN
    BY <1>1 DEF ClientInv, ClientTypeOK
  <2>4. QED
    BY <1>2, <1>3, <1>4, <1>5, <2>1, <2>2, <2>3 DEF ClientTypeOK, NoPool
<1>7. EventsRight'
  <2>1. EventsRight /\ edges \in [Requests -> SUBSET {"deadline", "stop"}]
    BY <1>1 DEF ClientInv, ClientTypeOK
  <2>2. QED
    BY <1>1, <1>2, <2>1 DEF EventsRight
<1>8. OutcomesTrue'
  <2>1. /\ OutcomesTrue /\ (out = "ok" => req[r].got.req = r /\ req[r].got.kind # "info")
        /\ (out = "timeout" => r \in late) /\ (out = "cancelled" => clientStop)
    BY DEF Ends, ClientInv
  <2>2. QED
    BY <1>2, <2>1 DEF OutcomesTrue
<1>9. QED
  BY <1>5, <1>6, <1>7, <1>8, EndsPhases, EndsGates, EndsPools, EndsConns DEF ClientInv

-----------------------------------------------------------------------------
(* A request moves, its gate and its pool told apart: what it takes for    *)
(* the invariant to hold on.                                               *)
Moves(r, q0) ==
  /\ ClientConstantsOK /\ ClientInv /\ q0 \in ReqType /\ req' = [req EXCEPT ![r] = q0]
  /\ late \subseteq late' /\ late' \subseteq Requests /\ UNCHANGED <<clientStop, clientUse>>
  /\ gate' \in [Gates -> [taken : Nat, queue : Seq(Requests)]] /\ GatesRight'
  /\ pools' \in [Origins -> Nat \cup {NoPool}] /\ PoolsRight'
  /\ StoreRight(idle') /\ idle'.kept \subseteq idle.kept
  /\ edges' \in [Requests -> SUBSET {"deadline", "stop"}] /\ EventsRight'
  /\ conns' \in [Requests -> ConnType]
  /\ \A x \in Requests \ {q0.conn} : conns'[x].sent = conns[x].sent /\ conns'[x].back = conns[x].back
  /\ q0.conn = req[r].conn \/ req[r].conn = NoConn
  /\ q0.conn # NoConn =>
       /\ Origin(q0.conn) = Origin(r) /\ (q0.conn = r \/ Made(q0.conn)) /\ q0.conn \notin idle'.kept
       /\ \A q \in Requests : Active(q) /\ q # r => req[q].conn # q0.conn
  /\ PhaseRight(r)'
  /\ q0.at \in {"connect", "tls"} \/ Writing(r)' \/ Final(r)' => Clean(q0.conn)'
  /\ Asked(r)' => Owed(q0.conn, r)'
  /\ q0.at = "read" /\ q0.ev = "ok" => q0.got.req = r
  /\ q0.out = "ok" => q0.got.req = r /\ q0.got.kind # "info"
  /\ q0.out = "timeout" => r \in late
  /\ q0.out = "cancelled" => clientStop

(* Such a move keeps the invariant. *)
LEMMA MovesKeeps ==
  ASSUME NEW r \in Requests, NEW q0, Moves(r, q0)
  PROVE  ClientInv'
<1>1. /\ ClientConstantsOK /\ ClientInv /\ q0 \in ReqType /\ req' = [req EXCEPT ![r] = q0]
      /\ late \subseteq late' /\ late' \subseteq Requests /\ UNCHANGED <<clientStop, clientUse>>
      /\ req \in [Requests -> ReqType] /\ clientUse \in ClientUses
  BY DEF Moves, ClientInv, ClientTypeOK
<1>2. Requests' = Requests /\ (\A x : Origin(x)' = Origin(x)) /\ Requests \subseteq Nat \ {0}
  BY <1>1, UseKnown DEF Requests, Origin
<1>3. Gates' = Gates /\ ReqType' = ReqType /\ IdleType' = IdleType /\ ConnType' = ConnType
  BY <1>2 DEF Gates, ReqType, IdleType, ConnType, Response, NoConn, NoResponse
<1>4. req' \in [Requests -> ReqType] /\ req'[r] = q0 /\ (\A x \in Requests \ {r} : req'[x] = req[x])
  BY <1>1
<1>5. idle' \in IdleType /\ IdleRight' /\ idle'.kept \subseteq idle.kept
  BY <1>2 DEF Moves, StoreRight, IdleRight
<1>6. ClientTypeOK'
  <2>1. /\ gate' \in [Gates -> [taken : Nat, queue : Seq(Requests)]] /\ pools' \in [Origins -> Nat \cup {NoPool}]
        /\ conns' \in [Requests -> ConnType] /\ edges' \in [Requests -> SUBSET {"deadline", "stop"}]
    BY DEF Moves
  <2>2. clientStop \in BOOLEAN
    BY <1>1 DEF ClientInv, ClientTypeOK
  <2>3. QED
    BY <1>1, <1>2, <1>3, <1>4, <1>5, <2>1, <2>2 DEF ClientTypeOK, NoPool
<1>7. PhasesRight'
  <2>1. ASSUME NEW x \in Requests \ {r} PROVE PhaseRight(x)'
    <3>1. PhaseRight(x)
      BY <1>1 DEF ClientInv, PhasesRight
    <3>2. QED
      BY <1>2, <1>4, <3>1 DEF PhaseRight, Active
  <2>2. QED
    BY <1>2, <2>1 DEF Moves, PhasesRight
<1>8. OutcomesTrue'
  <2>1. /\ OutcomesTrue /\ (q0.out = "ok" => q0.got.req = r /\ q0.got.kind # "info")
        /\ (q0.out = "timeout" => r \in late) /\ (q0.out = "cancelled" => clientStop)
    BY DEF Moves, ClientInv
  <2>2. QED
    BY <1>1, <1>2, <1>4, <2>1 DEF OutcomesTrue
<1>9. PICK c \in Requests \cup {NoConn} : c = q0.conn
  BY <1>1 DEF ReqType
<1>10. /\ c = req[r].conn \/ req[r].conn = NoConn
       /\ c # NoConn =>
            /\ Origin(c) = Origin(r) /\ (c = r \/ Made(c)) /\ c \notin idle'.kept
            /\ \A q \in Requests : Active(q) /\ q # r => req[q].conn # c
       /\ \A x \in Requests \ {c} : conns'[x].sent = conns[x].sent /\ conns'[x].back = conns[x].back
       /\ q0.at \in {"connect", "tls"} \/ Writing(r)' \/ Final(r)' => Clean(c)'
       /\ Asked(r)' => Owed(c, r)'
       /\ q0.at = "read" /\ q0.ev = "ok" => q0.got.req = r
  BY <1>9 DEF Moves, Clean, Owed
<1>11. \A x \in Requests : (Made(x) => Made(x)') /\ (Made(x)' => Made(x) \/ x = c)
  BY <1>2, <1>4, <1>9, <1>10 DEF Made, NoConn
<1>12. c # NoConn => c \in Requests /\ Made(c)'
  BY <1>4, <1>9, <1>10, <1>11 DEF Made
<1>13. ConnsRight /\ ContentRight /\ idle \in IdleType /\ idle.kept \subseteq Requests
  BY <1>1 DEF ClientInv, ClientTypeOK, IdleType
<1>14. ConnsRight'
  <2>1. \A x \in idle'.kept : Made(x)'
    BY <1>5, <1>11, <1>13 DEF ConnsRight
  <2>2. ASSUME NEW x \in Requests, Active(x)', req'[x].conn # NoConn,
               NEW y \in Requests, y = req'[x].conn
        PROVE  /\ Made(y)' /\ y \notin idle'.kept /\ Origin(y) = Origin(x)
               /\ \A q \in Requests : Active(q)' /\ req'[q].conn = y => q = x
    <3>1. CASE x = r
      <4>1. y = c
        BY <1>4, <1>9, <2>2, <3>1
      <4>2. QED
        BY <1>4, <1>10, <1>12, <2>2, <3>1, <4>1 DEF Active
    <3>2. CASE x # r
      <4>1. Active(x) /\ y = req[x].conn /\ y # NoConn
        BY <1>4, <2>2, <3>2 DEF Active
      <4>2. /\ Made(y) /\ y \notin idle.kept /\ Origin(y) = Origin(x)
            /\ \A q \in Requests : Active(q) /\ req[q].conn = y => q = x
        BY <1>13, <4>1 DEF ConnsRight
      <4>3. y # c
        BY <1>10, <3>2, <4>1
      <4>4. \A q \in Requests : Active(q)' /\ req'[q].conn = y => q = x
        BY <1>4, <1>9, <4>2, <4>3 DEF Active
      <4>5. QED
        BY <1>5, <1>11, <4>2, <4>4
    <3>3. QED
      BY <3>1, <3>2
  <2>3. ASSUME NEW x \in Requests, Active(x)', req'[x].conn # NoConn
        PROVE  /\ Made(req[x].conn)' /\ req'[x].conn \notin idle'.kept /\ Origin(req'[x].conn) = Origin(x)
               /\ \A q \in Requests : Active(q)' /\ req'[q].conn = req'[x].conn => q = x
    <3>1. PICK y \in Requests : y = req'[x].conn
      BY <1>4, <2>3 DEF ReqType
    <3>2. /\ Made(y)' /\ y \notin idle'.kept /\ Origin(y) = Origin(x)
          /\ \A q \in Requests : Active(q)' /\ req'[q].conn = y => q = x
      BY <2>2, <2>3, <3>1
    <3>3. Made(req[x].conn)'
      BY <3>1, <3>2 DEF Made
    <3>4. QED
      BY <3>1, <3>2, <3>3
  <2>4. QED
    BY <1>2, <2>1, <2>3 DEF ConnsRight, Origin
<1>15. ContentRight'
  <2>1. \A x \in Requests : x \in idle'.kept \/ ~ Made(x)' => Clean(x)'
    <3>1. \A x \in Requests \ {c} : Clean(x) => Clean(x)'
      BY <1>10 DEF Clean
    <3>2. \A x \in Requests : x \in idle'.kept \/ ~ Made(x)' => x # c
      BY <1>2, <1>10, <1>12 DEF NoConn
    <3>3. QED
      BY <1>5, <1>11, <1>13, <3>1, <3>2 DEF ContentRight
  <2>2. ASSUME NEW x \in Requests
        PROVE  /\ req'[x].at \in {"connect", "tls"} \/ Writing(x)' \/ Final(x)' => Clean(req[x].conn)'
               /\ Asked(x)' => Owed(req[x].conn, x)'
               /\ req'[x].at = "read" /\ req'[x].ev = "ok" => req'[x].got.req = x
    <3>1. CASE x = r
      <4>1. req'[x] = q0 /\ req'[x].conn = c
        BY <1>4, <1>9, <3>1
      <4>2. (Clean(req[x].conn)' <=> Clean(c)') /\ (Owed(req[x].conn, x)' <=> Owed(c, x)')
        BY <4>1 DEF Clean, Owed
      <4>3. QED
        BY <1>10, <3>1, <4>1, <4>2
    <3>2. CASE x # r
      <4>1. req'[x] = req[x]
        BY <1>4, <3>2
      <4>2. (Writing(x)' <=> Writing(x)) /\ (Final(x)' <=> Final(x)) /\ (Asked(x)' <=> Asked(x))
        BY <4>1 DEF Writing, Final, Asked
      <4>3. CASE req[x].at \notin {"connect", "tls", "write", "read"}
        BY <4>1, <4>3 DEF Writing, Final, Asked
      <4>4. CASE req[x].at \in {"connect", "tls", "write", "read"}
        <5>1. PhaseRight(x) /\ Active(x)
          BY <1>1, <4>4 DEF ClientInv, PhasesRight, Active
        <5>2. req[x].conn \in Requests
          BY <1>1, <1>2, <4>4, <5>1 DEF PhaseRight, ReqType, NoConn
        <5>3. PICK y \in Requests : y = req[x].conn
          BY <5>2
        <5>4. y # c
          BY <1>2, <1>10, <3>2, <5>1, <5>3 DEF NoConn
        <5>5. conns'[y].sent = conns[y].sent /\ conns'[y].back = conns[y].back
          BY <1>10, <5>4
        <5>6. (Clean(y) => Clean(y)') /\ (Owed(y, x) => Owed(y, x)')
          BY <5>5 DEF Clean, Owed
        <5>7. (Clean(req[x].conn)' <=> Clean(y)') /\ (Owed(req[x].conn, x)' <=> Owed(y, x)')
          BY <4>1, <5>3 DEF Clean, Owed
        <5>8. /\ req[x].at \in {"connect", "tls"} \/ Writing(x) \/ Final(x) => Clean(y)
              /\ Asked(x) => Owed(y, x)
              /\ req[x].at = "read" /\ req[x].ev = "ok" => req[x].got.req = x
          BY <1>13, <5>3 DEF ContentRight
        <5>9. QED
          BY <4>1, <4>2, <5>6, <5>7, <5>8
      <4>5. QED
        BY <4>3, <4>4
    <3>3. QED
      BY <3>1, <3>2
  <2>3. QED
    BY <1>2, <2>1, <2>2 DEF ContentRight, Clean, Owed
<1>16. QED
  BY <1>5, <1>6, <1>7, <1>8, <1>14, <1>15 DEF ClientInv, Moves

-----------------------------------------------------------------------------
(* Gates and pools that a step leaves alone. *)
LEMMA GatesFrame ==
  ASSUME ClientInv, gate' = gate, clientUse' = clientUse,
         \A x \in Requests : req'[x].holds = req[x].holds,
         \A x \in Requests, g \in Gates : WaitsAt(x, g) => WaitsAt(x, g)'
  PROVE  gate' \in [Gates -> [taken : Nat, queue : Seq(Requests)]] /\ GatesRight'
<1>1. gate \in [Gates -> [taken : Nat, queue : Seq(Requests)]] /\ GatesRight
  BY DEF ClientInv, ClientTypeOK
<1>2. Requests' = Requests /\ Gates' = Gates /\ (\A g : Capacity(g)' = Capacity(g))
  BY DEF Requests, Gates, Capacity
<1>3. ASSUME NEW g \in Gates PROVE GateRight(g)'
  <2>1. GateRight(g)
    BY <1>1 DEF GatesRight
  <2>2. Holders(g)' = Holders(g)
    BY <1>2 DEF Holders
  <2>3. \A k \in DOMAIN gate[g].queue : WaitsAt(gate[g].queue[k], g)'
    <3>1. SUFFICES ASSUME NEW k \in DOMAIN gate[g].queue PROVE WaitsAt(gate[g].queue[k], g)'
      OBVIOUS
    <3>2. PICK x \in Requests : x = gate[g].queue[k]
      BY <1>1
    <3>3. WaitsAt(x, g)
      BY <2>1, <3>2 DEF GateRight
    <3>4. WaitsAt(x, g)'
      BY <3>3
    <3>5. QED
      BY <3>2, <3>4 DEF WaitsAt
  <2>4. QED
    BY <1>2, <2>1, <2>2, <2>3 DEF GateRight
<1>4. QED
  BY <1>1, <1>2, <1>3 DEF GatesRight

LEMMA PoolsFrame ==
  ASSUME ClientInv, pools' = pools, clientUse' = clientUse,
         \A x \in Requests : Active(x)' <=> Active(x),
         NEW r \in Requests, Active(r), idle'.kept \subseteq idle.kept,
         \A x \in idle.kept \ idle'.kept : Origin(x) = Origin(r)
  PROVE  pools' \in [Origins -> Nat \cup {NoPool}] /\ PoolsRight'
<1>1. pools \in [Origins -> Nat \cup {NoPool}] /\ PoolsRight
  BY DEF ClientInv, ClientTypeOK
<1>2. Requests' = Requests /\ (\A x : Origin(x)' = Origin(x))
  BY DEF Requests, Origin
<1>3. ASSUME NEW o \in Origins
      PROVE  pools'[o] = IF Users(o)' = {} /\ OfPool(o)' = {} THEN NoPool ELSE Cardinality(Users(o)')
  <2>1. Users(o)' = Users(o)
    BY <1>2 DEF Users
  <2>2. OfPool(o)' = {x \in idle'.kept : Origin(x) = o}
    BY <1>2 DEF OfPool
  <2>3. CASE o = Origin(r)
    <3>1. Users(o) # {}
      BY <2>3 DEF Users
    <3>2. QED
      BY <1>1, <2>1, <3>1 DEF PoolsRight
  <2>4. CASE o # Origin(r)
    <3>1. OfPool(o)' = OfPool(o)
      BY <2>2, <2>4 DEF OfPool
    <3>2. QED
      BY <1>1, <2>1, <3>1 DEF PoolsRight
  <2>5. QED
    BY <2>3, <2>4
<1>4. QED
  BY <1>1, <1>3 DEF PoolsRight

(* async_send: a free permit is taken, or the request waits in line. *)
LEMMA TakesGates ==
  ASSUME ClientConstantsOK, ClientInv, NEW r \in Requests, NEW g \in Gates,
         \A h \in Gates : ~ WaitsAt(r, h), g \notin req[r].holds,
         NEW r0 \in ReqType, r0.holds = req[r].holds,
         (r0.at = "origin" /\ g = Origin(r)) \/ (r0.at = "global" /\ g = Global),
         clientUse' = clientUse, Takes(r, g, r0)
  PROVE  /\ gate' \in [Gates -> [taken : Nat, queue : Seq(Requests)]] /\ GatesRight'
         /\ \E q0 \in ReqType :
              /\ req' = [req EXCEPT ![r] = q0]
              /\ q0.at = r0.at /\ q0.conn = r0.conn /\ q0.got = r0.got /\ q0.out = r0.out
              /\ \/ q0.ev = "ok" /\ q0.holds = req[r].holds \cup {g}
                 \/ q0.ev = "pending" /\ q0.holds = req[r].holds
<1>1. /\ req \in [Requests -> ReqType] /\ clientUse \in ClientUses
      /\ gate \in [Gates -> [taken : Nat, queue : Seq(Requests)]] /\ GatesRight
  BY DEF ClientInv, ClientTypeOK
<1>2. Requests' = Requests /\ Gates' = Gates /\ (\A h : Capacity(h)' = Capacity(h))
      /\ (\A x : Origin(x)' = Origin(x))
  BY DEF Requests, Gates, Capacity, Origin
<1>3. IsFiniteSet(Holders(g)) /\ Cardinality(Holders(g)) \in Nat /\ Capacity(g) \in Nat
  BY <1>1, UseKnown, FS_Subset, FS_CardinalityType DEF Holders
<1>4. GateRight(g) /\ gate[g].queue \in Seq(Requests) /\ gate[g].taken \in Nat
  BY <1>1 DEF GatesRight
<1>5. ASSUME NEW q0 \in ReqType, req' = [req EXCEPT ![r] = q0], NEW h \in Gates,
             gate'[h] = gate[h], h \in q0.holds <=> h \in req[r].holds
      PROVE  GateRight(h)'
  <2>1. GateRight(h) /\ req'[r] = q0
    BY <1>1, <1>5 DEF GatesRight
  <2>2. Holders(h)' = Holders(h)
    BY <1>1, <1>2, <1>5, <2>1 DEF Holders
  <2>3. \A k \in DOMAIN gate[h].queue : WaitsAt(gate[h].queue[k], h)'
    <3>1. SUFFICES ASSUME NEW k \in DOMAIN gate[h].queue PROVE WaitsAt(gate[h].queue[k], h)'
      OBVIOUS
    <3>2. PICK x \in Requests : x = gate[h].queue[k]
      BY <1>1
    <3>3. WaitsAt(x, h) /\ x # r
      BY <2>1, <3>2 DEF GateRight
    <3>4. req'[x] = req[x]
      BY <1>5, <3>3
    <3>5. WaitsAt(x, h)'
      BY <1>2, <3>3, <3>4 DEF WaitsAt
    <3>6. QED
      BY <1>5, <3>2, <3>5 DEF WaitsAt
  <2>4. QED
    BY <1>2, <1>5, <2>1, <2>2, <2>3 DEF GateRight
<1>6. CASE gate[g].taken < Capacity(g)
  <2> DEFINE q0 == [r0 EXCEPT !.ev = "ok", !.holds = r0.holds \cup {g}]
  <2>1. gate' = [gate EXCEPT ![g].taken = gate[g].taken + 1] /\ req' = [req EXCEPT ![r] = q0]
    BY <1>6 DEF Takes
  <2>2. /\ q0 \in ReqType /\ q0.ev = "ok" /\ q0.holds = req[r].holds \cup {g}
        /\ q0.at = r0.at /\ q0.conn = r0.conn /\ q0.got = r0.got /\ q0.out = r0.out
    BY DEF ReqType, Events
  <2> HIDE DEF q0
  <2>3. gate' \in [Gates -> [taken : Nat, queue : Seq(Requests)]]
    BY <1>1, <2>1
  <2>4. ASSUME NEW h \in Gates \ {g} PROVE GateRight(h)'
    <3>1. gate'[h] = gate[h] /\ (h \in q0.holds <=> h \in req[r].holds)
      BY <1>1, <2>1, <2>2
    <3>2. QED
      BY <1>5, <2>1, <2>2, <3>1
  <2>5. GateRight(g)'
    <3>1. gate'[g].taken = gate[g].taken + 1 /\ gate'[g].queue = gate[g].queue
      BY <1>1, <2>1
    <3>2. gate[g].queue = <<>>
      BY <1>4, <1>6 DEF GateRight
    <3>3. Holders(g)' = Holders(g) \cup {r} /\ r \notin Holders(g)
      BY <1>1, <1>2, <2>1, <2>2 DEF Holders
    <3>4. Cardinality(Holders(g) \cup {r}) = Cardinality(Holders(g)) + 1
      BY <1>3, <3>3, FS_AddElement
    <3>5. gate[g].taken = Cardinality(Holders(g))
      BY <1>4 DEF GateRight
    <3>6. gate'[g].taken = Cardinality(Holders(g)') /\ gate'[g].taken <= Capacity(g)
      BY <1>3, <1>6, <3>1, <3>3, <3>4, <3>5
    <3>7. gate'[g].queue = <<>> /\ DOMAIN gate'[g].queue = {}
      BY <3>1, <3>2
    <3>8. QED
      BY <1>2, <3>6, <3>7 DEF GateRight
  <2>6. GatesRight'
    BY <1>2, <2>4, <2>5 DEF GatesRight
  <2>7. QED
    BY <2>1, <2>2, <2>3, <2>6
<1>7. CASE ~ (gate[g].taken < Capacity(g))
  <2> DEFINE q0 == [r0 EXCEPT !.ev = "pending"]
  <2>1. gate' = [gate EXCEPT ![g].queue = Append(gate[g].queue, r)] /\ req' = [req EXCEPT ![r] = q0]
    BY <1>7 DEF Takes
  <2>2. /\ q0 \in ReqType /\ q0.ev = "pending" /\ q0.holds = req[r].holds
        /\ q0.at = r0.at /\ q0.conn = r0.conn /\ q0.got = r0.got /\ q0.out = r0.out
    BY DEF ReqType, Events
  <2> HIDE DEF q0
  <2>3. gate' \in [Gates -> [taken : Nat, queue : Seq(Requests)]]
    <3>1. PICK line \in Seq(Requests) : line = Append(gate[g].queue, r)
      <4>1. Append(gate[g].queue, r) \in Seq(Requests)
        BY <1>4, AppendProperties
      <4>2. QED
        BY <4>1
    <3>2. [gate[g] EXCEPT !.queue = line] \in [taken : Nat, queue : Seq(Requests)]
      BY <1>1
    <3>3. gate' = [gate EXCEPT ![g] = [gate[g] EXCEPT !.queue = line]]
      BY <2>1, <3>1
    <3>4. QED
      BY <1>1, <3>2, <3>3
  <2>4. ASSUME NEW h \in Gates \ {g} PROVE GateRight(h)'
    <3>1. gate'[h] = gate[h] /\ (h \in q0.holds <=> h \in req[r].holds)
      BY <1>1, <2>1, <2>2
    <3>2. QED
      BY <1>5, <2>1, <2>2, <3>1
  <2>5. GateRight(g)'
    <3>a. PICK line : line = Append(gate[g].queue, r)
      OBVIOUS
    <3>1. gate'[g].taken = gate[g].taken /\ gate'[g].queue = line
      BY <1>1, <2>1, <3>a
    <3>2. /\ DOMAIN line = 1 .. Len(gate[g].queue) + 1 /\ line[Len(gate[g].queue) + 1] = r
          /\ \A k \in 1 .. Len(gate[g].queue) : line[k] = gate[g].queue[k]
      BY <1>4, <3>a
    <3>3. Len(gate[g].queue) \in Nat /\ DOMAIN gate[g].queue = 1 .. Len(gate[g].queue)
      BY <1>4
    <3>4. \A k \in 1 .. Len(gate[g].queue) : WaitsAt(line[k], g) /\ line[k] \in Requests \ {r}
      BY <1>4, <3>2, <3>3 DEF GateRight
    <3>5. req'[r] = q0 /\ \A x \in Requests \ {r} : req'[x] = req[x]
      BY <1>1, <2>1
    <3>6. ASSUME NEW k \in DOMAIN line PROVE WaitsAt(line[k], g)'
      <4>1. CASE k = Len(gate[g].queue) + 1
        BY <1>2, <2>2, <3>2, <3>5, <4>1 DEF WaitsAt
      <4>2. CASE k # Len(gate[g].queue) + 1
        <5>1. k \in 1 .. Len(gate[g].queue)
          BY <3>2, <3>3, <4>2
        <5>2. WaitsAt(line[k], g) /\ req'[line[k]] = req[line[k]]
          BY <3>4, <3>5, <5>1
        <5>3. QED
          BY <1>2, <5>2 DEF WaitsAt
      <4>3. QED
        BY <4>1, <4>2
    <3>7. \A j, k \in DOMAIN line : line[j] = line[k] => j = k
      <4>1. SUFFICES ASSUME NEW j \in DOMAIN line, NEW k \in DOMAIN line, line[j] = line[k], j # k
                     PROVE  FALSE
        OBVIOUS
      <4>2. CASE j \in 1 .. Len(gate[g].queue) /\ k \in 1 .. Len(gate[g].queue)
        BY <1>4, <3>2, <3>3, <4>1, <4>2 DEF GateRight
      <4>3. CASE j = Len(gate[g].queue) + 1
        <5>1. k \in 1 .. Len(gate[g].queue)
          BY <3>2, <3>3, <4>1, <4>3
        <5>2. QED
          BY <3>2, <3>4, <4>1, <4>3, <5>1
      <4>4. CASE k = Len(gate[g].queue) + 1
        <5>1. j \in 1 .. Len(gate[g].queue)
          BY <3>2, <3>3, <4>1, <4>4
        <5>2. QED
          BY <3>2, <3>4, <4>1, <4>4, <5>1
      <4>5. QED
        BY <3>2, <3>3, <4>2, <4>3, <4>4
    <3>8. Holders(g)' = Holders(g)
      BY <1>1, <1>2, <2>2, <3>5 DEF Holders
    <3>9. gate[g].taken = Cardinality(Holders(g)) /\ gate[g].taken = Capacity(g)
      BY <1>3, <1>4, <1>7 DEF GateRight
    <3>10. gate'[g].taken = Cardinality(Holders(g)') /\ gate'[g].taken = Capacity(g)
      BY <3>1, <3>8, <3>9
    <3>11. \A k \in DOMAIN gate'[g].queue : WaitsAt(gate[g].queue[k], g)'
      BY <3>1, <3>6 DEF WaitsAt
    <3>12. \A j, k \in DOMAIN gate'[g].queue : gate'[g].queue[j] = gate'[g].queue[k] => j = k
      BY <3>1, <3>7
    <3>13. QED
      BY <1>2, <1>3, <3>10, <3>11, <3>12 DEF GateRight
  <2>6. GatesRight'
    BY <1>2, <2>4, <2>5 DEF GatesRight
  <2>7. QED
    BY <2>1, <2>2, <2>3, <2>6
<1>8. QED
  BY <1>6, <1>7

-----------------------------------------------------------------------------
(* A request may go on with what it has. *)
LEMMA KeepsOwn ==
  ASSUME ClientConstantsOK, ClientInv, NEW r \in Requests, Active(r)
  PROVE  /\ Turns(r, req[r].conn, idle) /\ req[r].conn \notin idle.kept
         /\ [req[r] EXCEPT !.conn = req[r].conn] = req[r]
<1>1. /\ req \in [Requests -> ReqType] /\ idle \in IdleType /\ IdleRight /\ ConnsRight
      /\ clientUse \in ClientUses
  BY DEF ClientInv, ClientTypeOK
<1>2. Requests \subseteq Nat \ {0} /\ idle.kept \subseteq Requests
  BY <1>1, UseKnown DEF IdleType
<1>3. req[r].conn # NoConn =>
        /\ req[r].conn \in Requests /\ Origin(req[r].conn) = Origin(r) /\ Made(req[r].conn)
        /\ req[r].conn \notin idle.kept
        /\ \A q \in Requests : Active(q) /\ q # r => req[q].conn # req[r].conn
  BY <1>1 DEF ConnsRight, ReqType
<1>4. req[r].conn \notin idle.kept
  BY <1>2, <1>3 DEF NoConn
<1>5. StoreRight(idle)
  BY <1>1 DEF StoreRight, IdleRight
<1>6. [req[r] EXCEPT !.conn = req[r].conn] = req[r]
  BY <1>1 DEF ReqType
<1>7. QED
  BY <1>3, <1>4, <1>5, <1>6 DEF Turns

(* The next operation of a request begins: what it takes for the invariant *)
(* to hold on.                                                             *)
Goes(r, phase, c, store) ==
  /\ ClientConstantsOK /\ ClientInv /\ Active(r) /\ req[r].ev = "ok" /\ Turns(r, c, store) /\ Unmoved
  /\ store.kept \subseteq idle.kept /\ c \notin store.kept
  /\ \A x \in idle.kept \ store.kept : Origin(x) = Origin(r)
  /\ \/ phase = "global" /\ req[r].at = "origin" /\ c = NoConn
     \/ phase = "resolve" /\ req[r].at = "global" /\ c = NoConn
     \/ phase = "connect" /\ req[r].at = "resolve" /\ c = r /\ Clean(c)
     \/ phase = "tls" /\ req[r].at = "connect" /\ c = r /\ Clean(c)
     \/ phase = "write" /\ req[r].at \in {"global", "connect", "tls"} /\ c # NoConn /\ Clean(c)
     \/ phase = "read" /\ req[r].at \in {"write", "read"} /\ c # NoConn /\ Owed(c, r)
  /\ PhaseBegins(r, phase, [req[r] EXCEPT !.conn = c], store)

(* It does, whether the operation begins or a stop ends the request. *)
LEMMA GoesKeeps ==
  ASSUME NEW r \in Requests, NEW phase, NEW c, NEW store, Goes(r, phase, c, store)
  PROVE  ClientInv'
<1>1. /\ ClientConstantsOK /\ ClientInv /\ req \in [Requests -> ReqType] /\ Turns(r, c, store) /\ Unmoved
      /\ Active(r) /\ req[r].ev = "ok" /\ store.kept \subseteq idle.kept /\ c \notin store.kept
      /\ \A x \in idle.kept \ store.kept : Origin(x) = Origin(r)
      /\ clientUse \in ClientUses /\ conns \in [Requests -> ConnType] /\ PhaseRight(r)
      /\ edges \in [Requests -> SUBSET {"deadline", "stop"}] /\ EventsRight /\ late \subseteq Requests
      /\ StoreRight(store)
  BY DEF Goes, ClientInv, ClientTypeOK, PhasesRight, Turns
<1> DEFINE r0 == [req[r] EXCEPT !.conn = c]
<1>2. \/ phase = "global" /\ req[r].at = "origin" /\ c = NoConn
      \/ phase = "resolve" /\ req[r].at = "global" /\ c = NoConn
      \/ phase = "connect" /\ req[r].at = "resolve" /\ c = r /\ Clean(c)
      \/ phase = "tls" /\ req[r].at = "connect" /\ c = r /\ Clean(c)
      \/ phase = "write" /\ req[r].at \in {"global", "connect", "tls"} /\ c # NoConn /\ Clean(c)
      \/ phase = "read" /\ req[r].at \in {"write", "read"} /\ c # NoConn /\ Owed(c, r)
  BY DEF Goes
<1>3. CASE Stopped(r)
  <2>1. RequestEnds(r, r0, store, Reason(r))
    BY <1>3 DEF Goes, PhaseBegins
  <2>2. /\ Reason(r) \in {"cancelled", "timeout"} /\ (Reason(r) = "timeout" => r \in late)
        /\ (Reason(r) = "cancelled" => clientStop)
    BY <1>3 DEF Reason, Stopped
  <2>3. Ends(r, c, store, Reason(r))
    BY <1>1, <2>1, <2>2 DEF Ends, Outcomes
  <2>4. QED
    BY <2>3, EndsKeeps
<1>4. CASE ~ Stopped(r)
  <2>1. /\ idle' = store /\ conns' = Closed(idle.kept \ (store.kept \cup {r0.conn}))
        /\ UNCHANGED <<edges, pools, late, clientStop, clientUse>>
        /\ IF phase \in {"origin", "global"}
           THEN Takes(r, IF phase = "global" THEN Global ELSE Origin(r), [r0 EXCEPT !.at = phase])
           ELSE /\ req' = [req EXCEPT ![r] = [r0 EXCEPT !.at = phase, !.ev = "pending"]]
                /\ gate' = gate
    BY <1>1, <1>4 DEF Goes, PhaseBegins, Unmoved
  <2>2. /\ conns' \in [Requests -> ConnType]
        /\ \A x \in Requests : conns'[x].sent = conns[x].sent /\ conns'[x].back = conns[x].back
    BY <1>1, <2>1, ClosedSame
  <2>3. Requests' = Requests /\ (\A x : Origin(x)' = Origin(x)) /\ Requests \subseteq Nat \ {0}
        /\ Origin(r) \in Origins /\ Origin(r) # Global
    BY <1>1, <2>1, UseKnown DEF Requests, Origin
  <2>4. c \in Requests \cup {NoConn}
    BY <1>1 DEF Turns
  <2>5. r0 \in ReqType /\ r0.holds = req[r].holds /\ r0.conn = c /\ r0.out = "none"
    BY <1>1, <2>4 DEF ReqType, PhaseRight
  <2>6. \A h \in Gates : ~ WaitsAt(r, h)
    BY <1>1 DEF WaitsAt
  <2>7. \E q0 \in ReqType :
          /\ req' = [req EXCEPT ![r] = q0] /\ q0.at = phase /\ q0.conn = c /\ q0.out = "none"
          /\ \/ q0.ev = "ok" /\ phase = "global" /\ q0.holds = req[r].holds \cup {Global}
             \/ q0.ev = "pending" /\ q0.holds = req[r].holds
          /\ gate' \in [Gates -> [taken : Nat, queue : Seq(Requests)]] /\ GatesRight'
    <3>1. CASE phase = "global"
      <4> DEFINE r1 == [r0 EXCEPT !.at = "global"]
      <4>1. Takes(r, Global, r1)
        BY <2>1, <3>1
      <4>2. /\ r1 \in ReqType /\ r1.holds = req[r].holds /\ r1.at = "global"
            /\ r1.conn = c /\ r1.out = "none"
        BY <2>5 DEF ReqType, Phases
      <4>3. Global \in Gates /\ Global \notin req[r].holds
        BY <1>1, <1>2, <2>3, <3>1 DEF Gates, PhaseRight
      <4> HIDE DEF r1
      <4>4. clientUse' = clientUse
        BY <2>1
      <4>5. /\ gate' \in [Gates -> [taken : Nat, queue : Seq(Requests)]] /\ GatesRight'
            /\ \E q0 \in ReqType :
                 /\ req' = [req EXCEPT ![r] = q0]
                 /\ q0.at = r1.at /\ q0.conn = r1.conn /\ q0.got = r1.got /\ q0.out = r1.out
                 /\ \/ q0.ev = "ok" /\ q0.holds = req[r].holds \cup {Global}
                    \/ q0.ev = "pending" /\ q0.holds = req[r].holds
        BY <1>1, <2>6, <4>1, <4>2, <4>3, <4>4, TakesGates
      <4>6. QED
        BY <3>1, <4>2, <4>5
    <3>2. CASE phase # "global"
      <4> DEFINE q0 == [r0 EXCEPT !.at = phase, !.ev = "pending"]
      <4>1. req' = [req EXCEPT ![r] = q0] /\ gate' = gate
        BY <1>2, <2>1, <3>2
      <4>2. phase \in Phases
        BY <1>2 DEF Phases
      <4>3. /\ q0 \in ReqType /\ q0.at = phase /\ q0.conn = c /\ q0.out = "none" /\ q0.ev = "pending"
            /\ q0.holds = req[r].holds
        BY <2>5, <4>2 DEF ReqType, Events
      <4> HIDE DEF q0
      <4>4. req'[r] = q0 /\ \A x \in Requests \ {r} : req'[x] = req[x]
        BY <1>1, <4>1
      <4>5. \A x \in Requests : req'[x].holds = req[x].holds
        BY <4>3, <4>4
      <4>6. \A x \in Requests, g \in Gates : WaitsAt(x, g) => WaitsAt(x, g)'
        BY <2>3, <2>6, <4>4 DEF WaitsAt
      <4>7. gate' \in [Gates -> [taken : Nat, queue : Seq(Requests)]] /\ GatesRight'
        BY <1>1, <2>1, <4>1, <4>5, <4>6, GatesFrame
      <4>8. QED
        BY <4>1, <4>3, <4>7
    <3>3. QED
      BY <3>1, <3>2
  <2>8. PICK q0 \in ReqType :
          /\ req' = [req EXCEPT ![r] = q0] /\ q0.at = phase /\ q0.conn = c /\ q0.out = "none"
          /\ \/ q0.ev = "ok" /\ phase = "global" /\ q0.holds = req[r].holds \cup {Global}
             \/ q0.ev = "pending" /\ q0.holds = req[r].holds
          /\ gate' \in [Gates -> [taken : Nat, queue : Seq(Requests)]] /\ GatesRight'
    BY <2>7
  <2>9. req'[r] = q0 /\ \A x \in Requests \ {r} : req'[x] = req[x]
    BY <1>1, <2>8
  <2>10. PhaseRight(r)'
    BY <1>1, <1>2, <2>3, <2>8, <2>9 DEF PhaseRight, Active, NoConn
  <2>11. pools' \in [Origins -> Nat \cup {NoPool}] /\ PoolsRight'
    <3>1. \A x \in Requests : Active(x)' <=> Active(x)
      BY <1>1, <1>2, <2>8, <2>9 DEF Active
    <3>2. idle'.kept \subseteq idle.kept /\ \A x \in idle.kept \ idle'.kept : Origin(x) = Origin(r)
      BY <1>1, <2>1
    <3>3. QED
      BY <1>1, <2>1, <3>1, <3>2, PoolsFrame
  <2>12. EventsRight'
    BY <1>1, <2>1, <2>3, <2>8, <2>9 DEF EventsRight
  <2>13. /\ q0.at \in {"connect", "tls"} \/ Writing(r)' \/ Final(r)' => Clean(c)'
         /\ Asked(r)' => Owed(c, r)'
    <3>1. ~ Final(r)' /\ (Writing(r)' => phase = "write") /\ (Asked(r)' => phase = "read")
      BY <2>8, <2>9 DEF Final, Writing, Asked
    <3>2. c \in Requests => (Clean(c) => Clean(c)') /\ (Owed(c, r) => Owed(c, r)')
      BY <2>2 DEF Clean, Owed
    <3>3. QED
      BY <1>2, <2>4, <2>8, <3>1, <3>2
  <2>14. Moves(r, q0)
    <3>1. late' = late /\ UNCHANGED <<clientStop, clientUse>>
      BY <2>1
    <3>2. StoreRight(idle') /\ idle'.kept \subseteq idle.kept /\ c \notin idle'.kept
      BY <1>1, <2>1
    <3>3. edges' \in [Requests -> SUBSET {"deadline", "stop"}]
      BY <1>1, <2>1
    <3>4. c = req[r].conn \/ req[r].conn = NoConn
      BY <1>1 DEF Turns
    <3>5. c # NoConn => /\ Origin(c) = Origin(r) /\ (c = r \/ Made(c))
                        /\ \A q \in Requests : Active(q) /\ q # r => req[q].conn # c
      BY <1>1 DEF Turns
    <3>6. PICK d : d = q0.conn
      OBVIOUS
    <3>7. d = c
      BY <2>8, <3>6
    <3>8. q0.ev # "ok" \/ q0.at = "global"
      BY <2>8
    <3>9. (Clean(q0.conn)' <=> Clean(c)') /\ (Owed(q0.conn, r)' <=> Owed(c, r)')
      BY <3>6, <3>7 DEF Clean, Owed
    <3>10. QED
      BY <1>1, <2>2, <2>8, <2>10, <2>11, <2>12, <2>13, <3>1, <3>2, <3>3, <3>4, <3>5, <3>6, <3>7, <3>8,
         <3>9 DEF Moves
  <2>15. QED
    BY <2>14, MovesKeeps
<1>5. QED
  BY <1>3, <1>4

-----------------------------------------------------------------------------
(* The resumptions of a request. *)
Known(r) ==
  /\ ClientConstantsOK /\ ClientInv
  /\ req \in [Requests -> ReqType] /\ idle \in IdleType /\ IdleRight /\ clientUse \in ClientUses
  /\ Requests \subseteq Nat \ {0} /\ Origin(r) \in Origins /\ PhaseRight(r) /\ ContentRight /\ ConnsRight

(* So it is for every request. *)
LEMMA KnownHolds ==
  ASSUME ClientConstantsOK, ClientInv, NEW r \in Requests
  PROVE  Known(r)
<1>1. /\ req \in [Requests -> ReqType] /\ idle \in IdleType /\ IdleRight /\ clientUse \in ClientUses
      /\ PhaseRight(r) /\ ContentRight /\ ConnsRight
  BY DEF ClientInv, ClientTypeOK, PhasesRight
<1>2. QED
  BY <1>1, UseKnown DEF Known

(* One lemma for each way a request goes on: its operation failed; it has  *)
(* the permit of its origin; it has both; the name is resolved; a response *)
(* was read.                                                               *)
LEMMA FailedKeeps ==
  ASSUME NEW r \in Requests, Known(r), OperationFailed(r)
  PROVE  ClientInv'
<1> DEFINE out == IF req[r].ev = "aborted" THEN Reason(r) ELSE "failed"
<1>1. /\ ClientConstantsOK /\ ClientInv /\ Active(r) /\ req[r].ev \in {"aborted", "failed"} /\ Unmoved
      /\ RequestEnds(r, req[r], idle, out)
  BY DEF Known, OperationFailed
<1>2. /\ out \in {"failed", "cancelled", "timeout"} /\ (out = "timeout" => r \in late)
      /\ (out = "cancelled" => clientStop)
  <2>1. req[r].ev = "aborted" => clientStop \/ r \in late
    BY <1>1 DEF ClientInv, EventsRight
  <2>2. QED
    BY <2>1 DEF Reason
<1> HIDE DEF out
<1>3. Turns(r, req[r].conn, idle) /\ [req[r] EXCEPT !.conn = req[r].conn] = req[r]
  BY <1>1, KeepsOwn
<1>4. Ends(r, req[r].conn, idle, out)
  BY <1>1, <1>2, <1>3 DEF Ends, Outcomes
<1>5. QED
  BY <1>4, EndsKeeps

LEMMA OriginKeeps ==
  ASSUME NEW r \in Requests, Known(r), HasOrigin(r)
  PROVE  ClientInv'
<1>1. /\ ClientConstantsOK /\ ClientInv /\ req[r].at = "origin" /\ req[r].ev = "ok" /\ Unmoved
      /\ PhaseBegins(r, "global", req[r], idle) /\ Active(r) /\ req[r].conn = NoConn
  BY DEF Known, HasOrigin, PhaseDone, Active, PhaseRight
<1>2. /\ Turns(r, req[r].conn, idle) /\ [req[r] EXCEPT !.conn = req[r].conn] = req[r]
      /\ req[r].conn \notin idle.kept
  BY <1>1, KeepsOwn
<1>3. Goes(r, "global", req[r].conn, idle)
  BY <1>1, <1>2 DEF Goes
<1>4. QED
  BY <1>3, GoesKeeps

LEMMA GlobalKeeps ==
  ASSUME NEW r \in Requests, Known(r), HasGlobal(r)
  PROVE  ClientInv'
<1>1. /\ ClientConstantsOK /\ ClientInv /\ req[r].at = "global" /\ req[r].ev = "ok" /\ Unmoved
      /\ Active(r) /\ req[r].conn = NoConn
      /\ idle \in IdleType /\ IdleRight /\ clientUse \in ClientUses /\ Origin(r) \in Origins
  BY DEF Known, HasGlobal, PhaseDone, Active, PhaseRight
<1>2. PICK c : c = Taken(Origin(r)).conn
  OBVIOUS
<1>3. PICK store : store = Taken(Origin(r)).store
  OBVIOUS
<1>4. /\ StoreRight(store) /\ store.kept \subseteq idle.kept
      /\ \A x \in idle.kept \ store.kept : Origin(x) = Origin(r)
      /\ c # NoConn => c \in idle.kept \ store.kept
  BY <1>1, <1>2, <1>3, TakenRight
<1>5. \/ c = NoConn /\ RequestEnds(r, req[r], store, "failed")
      \/ PhaseBegins(r, IF c = NoConn THEN "resolve" ELSE "write", [req[r] EXCEPT !.conn = c], store)
  BY <1>2, <1>3 DEF HasGlobal
<1>6. 0 \notin Requests /\ store.kept \subseteq Requests /\ idle.kept \subseteq Requests
  BY <1>1, <1>4 DEF Known, IdleType
<1>7. c # NoConn =>
        /\ c \in Requests /\ Origin(c) = Origin(r) /\ Made(c) /\ Clean(c)
        /\ \A q \in Requests : Active(q) /\ q # r => req[q].conn # c
  BY <1>4, <1>6 DEF Known, ConnsRight, ContentRight
<1>8. c \notin store.kept
  BY <1>4, <1>6 DEF NoConn
<1>9. Turns(r, c, store)
  BY <1>1, <1>4, <1>7, <1>8 DEF Turns
<1>10. CASE c = NoConn /\ RequestEnds(r, req[r], store, "failed")
  <2>1. [req[r] EXCEPT !.conn = c] = req[r]
    BY <1>1, <1>10, KeepsOwn
  <2>2. Ends(r, c, store, "failed")
    BY <1>1, <1>9, <1>10, <2>1 DEF Ends, Outcomes
  <2>3. QED
    BY <2>2, EndsKeeps
<1>11. CASE PhaseBegins(r, IF c = NoConn THEN "resolve" ELSE "write", [req[r] EXCEPT !.conn = c], store)
  <2>1. CASE c = NoConn
    <3>1. Goes(r, "resolve", c, store)
      BY <1>1, <1>4, <1>8, <1>9, <1>11, <2>1 DEF Goes
    <3>2. QED
      BY <3>1, GoesKeeps
  <2>2. CASE c # NoConn
    <3>1. Goes(r, "write", c, store)
      BY <1>1, <1>4, <1>7, <1>8, <1>9, <1>11, <2>2 DEF Goes
    <3>2. QED
      BY <3>1, GoesKeeps
  <2>3. QED
    BY <2>1, <2>2
<1>12. QED
  BY <1>5, <1>10, <1>11

LEMMA ResolvedKeeps ==
  ASSUME NEW r \in Requests, Known(r), IsResolved(r)
  PROVE  ClientInv'
<1>1. /\ ClientConstantsOK /\ ClientInv /\ req[r].at = "resolve" /\ req[r].ev = "ok" /\ Unmoved
      /\ Active(r) /\ req[r].conn = NoConn /\ PhaseBegins(r, "connect", [req[r] EXCEPT !.conn = r], idle)
  BY DEF Known, IsResolved, PhaseDone, Active, PhaseRight
<1>2. ~ Made(r) /\ r # NoConn
  BY <1>1 DEF Made, NoConn, Known
<1>3. Clean(r) /\ r \notin idle.kept /\ \A q \in Requests : Active(q) => req[q].conn # r
  BY <1>2 DEF Known, ContentRight, ConnsRight
<1>4. StoreRight(idle)
  BY DEF Known, StoreRight, IdleRight
<1>5. Turns(r, r, idle)
  BY <1>1, <1>3, <1>4 DEF Turns
<1>6. Goes(r, "connect", r, idle)
  BY <1>1, <1>3, <1>5 DEF Goes
<1>7. QED
  BY <1>6, GoesKeeps

(* A request goes on with the connection it has. *)
LEMMA OwnGoes ==
  ASSUME NEW r \in Requests, Known(r), NEW phase, Active(r), req[r].ev = "ok", Unmoved,
         \/ phase = "tls" /\ req[r].at = "connect"
         \/ phase = "write" /\ req[r].at \in {"connect", "tls"}
         \/ phase = "read" /\ (req[r].at = "write" \/ (req[r].at = "read" /\ req[r].got.kind = "info")),
         PhaseBegins(r, phase, req[r], idle)
  PROVE  ClientInv'
<1>1. ClientConstantsOK /\ ClientInv /\ PhaseRight(r) /\ ContentRight
  BY DEF Known
<1>2. /\ Turns(r, req[r].conn, idle) /\ [req[r] EXCEPT !.conn = req[r].conn] = req[r]
      /\ req[r].conn \notin idle.kept
  BY <1>1, KeepsOwn
<1>3. req[r].conn # NoConn /\ (req[r].at \in {"connect", "tls"} => req[r].conn = r)
  BY <1>1 DEF PhaseRight, NoConn, Known
<1>4. CASE req[r].at \in {"connect", "tls"}
  <2>1. Clean(req[r].conn)
    BY <1>1, <1>4 DEF ContentRight
  <2>2. Goes(r, phase, req[r].conn, idle)
    BY <1>1, <1>2, <1>3, <1>4, <2>1 DEF Goes
  <2>3. QED
    BY <2>2, GoesKeeps
<1>5. CASE phase = "read"
  <2>1. Asked(r)
    BY <1>5 DEF Asked, Writing, Final
  <2>2. Owed(req[r].conn, r)
    BY <1>1, <2>1 DEF ContentRight
  <2>3. Goes(r, phase, req[r].conn, idle)
    BY <1>1, <1>2, <1>3, <1>5, <2>2 DEF Goes
  <2>4. QED
    BY <2>3, GoesKeeps
<1>6. QED
  BY <1>4, <1>5

LEMMA ReadKeeps ==
  ASSUME NEW r \in Requests, Known(r), IsRead(r)
  PROVE  ClientInv'
<1>1. /\ ClientConstantsOK /\ ClientInv /\ req[r].at = "read" /\ req[r].ev = "ok" /\ Unmoved
      /\ Active(r) /\ req[r].conn # NoConn /\ req[r].got.req = r
      /\ idle \in IdleType /\ IdleRight /\ clientUse \in ClientUses
  BY DEF Known, IsRead, PhaseDone, Active, PhaseRight, ContentRight
<1>2. /\ Turns(r, req[r].conn, idle) /\ [req[r] EXCEPT !.conn = req[r].conn] = req[r]
      /\ req[r].conn \notin idle.kept
  BY <1>1, KeepsOwn
<1>3. CASE req[r].got.kind = "info" /\ PhaseBegins(r, "read", req[r], idle)
  BY <1>1, <1>3, OwnGoes
<1>4. CASE req[r].got.kind = "big" /\ RequestEnds(r, req[r], idle, "failed")
  <2>1. Ends(r, req[r].conn, idle, "failed")
    BY <1>1, <1>2, <1>4 DEF Ends, Outcomes
  <2>2. QED
    BY <2>1, EndsKeeps
<1>5. CASE req[r].got.kind = "close" /\ RequestEnds(r, req[r], idle, "ok")
  <2>1. Ends(r, req[r].conn, idle, "ok")
    BY <1>1, <1>2, <1>5 DEF Ends, Outcomes
  <2>2. QED
    BY <2>1, EndsKeeps
<1>6. CASE req[r].got.kind = "keep" /\ RequestEnds(r, req[r], Released(req[r].conn), "ok")
  <2>1. req[r].conn \in Requests
    BY <1>1 DEF Known, ReqType
  <2>2. PICK store : store = Released(req[r].conn)
    OBVIOUS
  <2>3. /\ StoreRight(store) /\ store.kept \subseteq idle.kept \cup {req[r].conn}
    BY <1>1, <1>2, <2>1, <2>2, ReleasedRight
  <2>4. Clean(req[r].conn)
    <3>1. Final(r)
      BY <1>1, <1>6 DEF Final
    <3>2. QED
      BY <3>1 DEF Known, ContentRight
  <2>5. Turns(r, req[r].conn, store)
    BY <1>1, <1>2, <2>3, <2>4 DEF Turns
  <2>6. Ends(r, req[r].conn, store, "ok")
    BY <1>1, <1>2, <1>6, <2>2, <2>5 DEF Ends, Outcomes
  <2>7. QED
    BY <2>6, EndsKeeps
<1>7. QED
  BY <1>3, <1>4, <1>5, <1>6 DEF IsRead

-----------------------------------------------------------------------------
(* Pools that a step leaves alone, its users and their idle connections too. *)
LEMMA PoolsStill ==
  ASSUME ClientInv, pools' = pools, clientUse' = clientUse, idle'.kept = idle.kept,
         \A x \in Requests : Active(x)' <=> Active(x)
  PROVE  pools' \in [Origins -> Nat \cup {NoPool}] /\ PoolsRight'
<1>1. pools \in [Origins -> Nat \cup {NoPool}] /\ PoolsRight
  BY DEF ClientInv, ClientTypeOK
<1>2. Requests' = Requests /\ (\A x : Origin(x)' = Origin(x))
  BY DEF Requests, Origin
<1>3. ASSUME NEW o \in Origins
      PROVE  pools'[o] = IF Users(o)' = {} /\ OfPool(o)' = {} THEN NoPool ELSE Cardinality(Users(o)')
  <2>1. Users(o)' = Users(o)
    BY <1>2 DEF Users
  <2>2. OfPool(o)' = OfPool(o)
    BY <1>2 DEF OfPool
  <2>3. QED
    BY <1>1, <2>1, <2>2 DEF PoolsRight
<1>4. QED
  BY <1>1, <1>3 DEF PoolsRight

(* Client::request: refused, or the first user or one more of its pool. *)
LEMMA CalledKeeps ==
  ASSUME NEW r \in Requests, Known(r), RequestCalled(r)
  PROVE  ClientInv'
<1>1. /\ ClientConstantsOK /\ ClientInv /\ req \in [Requests -> ReqType] /\ req[r].at = "free"
      /\ UNCHANGED <<late, idle, conns, clientStop, clientUse>>
      /\ gate \in [Gates -> [taken : Nat, queue : Seq(Requests)]] /\ StoreRight(idle) /\ late \subseteq Requests
      /\ edges \in [Requests -> SUBSET {"deadline", "stop"}] /\ EventsRight /\ conns \in [Requests -> ConnType]
      /\ clientUse \in ClientUses /\ pools \in [Origins -> Nat \cup {NoPool}]
  BY DEF Known, RequestCalled, ClientInv, ClientTypeOK, StoreRight, IdleRight
<1>2. ~ Active(r) /\ req[r].ev = "none" /\ req[r].holds = {} /\ req[r].conn = NoConn /\ req[r].out = "none"
  BY <1>1 DEF Known, PhaseRight, Active
<1>3. Requests' = Requests /\ (\A x : Origin(x)' = Origin(x)) /\ Origin(r) \in Gates /\ Origin(r) \in Origins
  BY <1>1 DEF Requests, Origin, Known, Gates
<1>4. \A h \in Gates : ~ WaitsAt(r, h)
  BY <1>1 DEF WaitsAt
<1>5. CASE OptionsRefused(r) \/ clientStop \/ UrlRefused(r)
  <2>a. PICK out : out = IF clientStop /\ ~ OptionsRefused(r) THEN "cancelled" ELSE "refused"
    OBVIOUS
  <2>b. PICK q0 : q0 = [req[r] EXCEPT !.at = "done", !.out = out]
    OBVIOUS
  <2>1. req' = [req EXCEPT ![r] = q0] /\ UNCHANGED <<edges, gate, pools>>
    BY <1>1, <1>5, <2>a, <2>b DEF RequestCalled
  <2>2. out \in {"cancelled", "refused"} /\ (out = "cancelled" => clientStop)
    BY <2>a
  <2>3. /\ q0 \in ReqType /\ q0.at = "done" /\ q0.ev = "none" /\ q0.holds = {} /\ q0.conn = NoConn
        /\ q0.out = out
    <3>1. req[r] \in ReqType
      BY <1>1
    <3>2. /\ q0 \in ReqType /\ q0.at = "done" /\ q0.ev = req[r].ev /\ q0.holds = req[r].holds
          /\ q0.conn = req[r].conn /\ q0.out = out
      BY <2>2, <2>b, <3>1 DEF ReqType, Phases, Outcomes
    <3>3. QED
      BY <1>2, <3>2
  <2>4. req'[r] = q0 /\ \A x \in Requests \ {r} : req'[x] = req[x]
    BY <1>1, <2>1
  <2>5. gate' \in [Gates -> [taken : Nat, queue : Seq(Requests)]] /\ GatesRight'
    <3>1. \A x \in Requests : req'[x].holds = req[x].holds
      BY <1>2, <2>3, <2>4
    <3>2. \A x \in Requests, g \in Gates : WaitsAt(x, g) => WaitsAt(x, g)'
      BY <1>3, <1>4, <2>4 DEF WaitsAt
    <3>3. QED
      BY <1>1, <2>1, <3>1, <3>2, GatesFrame
  <2>6. pools' \in [Origins -> Nat \cup {NoPool}] /\ PoolsRight'
    <3>1. \A x \in Requests : Active(x)' <=> Active(x)
      BY <1>2, <2>3, <2>4 DEF Active
    <3>2. QED
      BY <1>1, <2>1, <3>1, PoolsStill
  <2>7. EventsRight'
    BY <1>1, <1>3, <2>1, <2>3, <2>4 DEF EventsRight
  <2>8. PhaseRight(r)' /\ ~ Writing(r)' /\ ~ Final(r)' /\ ~ Asked(r)'
    BY <2>2, <2>3, <2>4 DEF PhaseRight, Active, Writing, Final, Asked
  <2>9. Moves(r, q0)
    BY <1>1, <1>2, <1>3, <2>1, <2>2, <2>3, <2>5, <2>6, <2>7, <2>8 DEF Moves, StoreRight, IdleType
  <2>10. QED
    BY <2>9, MovesKeeps
<1>6. CASE ~ (OptionsRefused(r) \/ clientStop \/ UrlRefused(r))
  <2> DEFINE r0 == [req[r] EXCEPT !.at = "origin"]
  <2>1. /\ pools' = [pools EXCEPT ![Origin(r)] = IF @ = NoPool THEN 1 ELSE @ + 1]
        /\ edges' = [edges EXCEPT ![r] = {"deadline"}] /\ Takes(r, Origin(r), r0)
    BY <1>6 DEF RequestCalled
  <2>2. /\ r0 \in ReqType /\ r0.holds = req[r].holds /\ r0.at = "origin" /\ r0.conn = NoConn /\ r0.out = "none"
    <3>1. req[r] \in ReqType
      BY <1>1
    <3>2. /\ r0 \in ReqType /\ r0.at = "origin" /\ r0.holds = req[r].holds
          /\ r0.conn = req[r].conn /\ r0.out = req[r].out
      BY <3>1 DEF ReqType, Phases
    <3>3. QED
      BY <1>2, <3>2
  <2> HIDE DEF r0
  <2>3. Origin(r) \notin req[r].holds
    BY <1>2
  <2>4. /\ gate' \in [Gates -> [taken : Nat, queue : Seq(Requests)]] /\ GatesRight'
        /\ \E q0 \in ReqType :
             /\ req' = [req EXCEPT ![r] = q0]
             /\ q0.at = r0.at /\ q0.conn = r0.conn /\ q0.got = r0.got /\ q0.out = r0.out
             /\ \/ q0.ev = "ok" /\ q0.holds = req[r].holds \cup {Origin(r)}
                \/ q0.ev = "pending" /\ q0.holds = req[r].holds
    <3>1. PICK g \in Gates : g = Origin(r)
      BY <1>1, <1>3
    <3>2. clientUse' = clientUse /\ ClientConstantsOK /\ ClientInv /\ g \notin req[r].holds
      BY <1>1, <1>3, <2>3, <3>1
    <3>3. Takes(r, g, r0) /\ r0 \in ReqType /\ r0.holds = req[r].holds
      BY <2>1, <2>2, <3>1
    <3>4. (r0.at = "origin" /\ g = Origin(r)) \/ (r0.at = "global" /\ g = Global)
      BY <2>2, <3>1
    <3>5. /\ gate' \in [Gates -> [taken : Nat, queue : Seq(Requests)]] /\ GatesRight'
          /\ \E q0 \in ReqType :
               /\ req' = [req EXCEPT ![r] = q0]
               /\ q0.at = r0.at /\ q0.conn = r0.conn /\ q0.got = r0.got /\ q0.out = r0.out
               /\ \/ q0.ev = "ok" /\ q0.holds = req[r].holds \cup {g}
                  \/ q0.ev = "pending" /\ q0.holds = req[r].holds
      BY <1>4, <3>2, <3>3, <3>4, TakesGates
    <3>6. QED
      BY <3>1, <3>5
  <2>5. PICK q0 \in ReqType :
          /\ req' = [req EXCEPT ![r] = q0] /\ q0.at = "origin" /\ q0.conn = NoConn /\ q0.out = "none"
          /\ \/ q0.ev = "ok" /\ q0.holds = {Origin(r)}
             \/ q0.ev = "pending" /\ q0.holds = {}
    BY <1>2, <2>2, <2>4
  <2>6. req'[r] = q0 /\ \A x \in Requests \ {r} : req'[x] = req[x]
    BY <1>1, <2>5
  <2>7. PhaseRight(r)' /\ ~ Writing(r)' /\ ~ Final(r)' /\ ~ Asked(r)'
    BY <1>3, <2>5, <2>6 DEF PhaseRight, Active, Writing, Final, Asked
  <2>8. EventsRight' /\ edges' \in [Requests -> SUBSET {"deadline", "stop"}]
    BY <1>1, <1>3, <2>1, <2>5, <2>6 DEF EventsRight
  <2>9. ASSUME NEW o \in Origins
        PROVE  /\ pools'[o] \in Nat \cup {NoPool}
               /\ pools'[o] = IF Users(o)' = {} /\ OfPool(o)' = {} THEN NoPool ELSE Cardinality(Users(o)')
    <3>1. OfPool(o)' = OfPool(o)
      BY <1>1, <1>3 DEF OfPool
    <3>2. pools[o] = IF Users(o) = {} /\ OfPool(o) = {} THEN NoPool ELSE Cardinality(Users(o))
      BY <1>1 DEF ClientInv, PoolsRight
    <3>3. CASE o = Origin(r)
      <4>1. Users(o)' = Users(o) \cup {r} /\ r \notin Users(o)
        BY <1>2, <1>3, <2>5, <2>6, <3>3 DEF Users, Active
      <4>2. IsFiniteSet(Users(o))
        BY <1>1, UseKnown, FS_Subset DEF Users
      <4>3. /\ Cardinality(Users(o) \cup {r}) = Cardinality(Users(o)) + 1
            /\ Cardinality(Users(o)) \in Nat /\ (Users(o) = {} => Cardinality(Users(o)) = 0)
        BY <4>1, <4>2, FS_AddElement, FS_CardinalityType, FS_EmptySet
      <4>4. pools'[o] = IF pools[o] = NoPool THEN 1 ELSE pools[o] + 1
        BY <1>1, <2>1, <3>3
      <4>5. pools'[o] = Cardinality(Users(o)) + 1
        BY <3>2, <4>3, <4>4 DEF NoPool
      <4>6. QED
        BY <4>1, <4>3, <4>5
    <3>4. CASE o # Origin(r)
      <4>1. Users(o)' = Users(o)
        BY <1>3, <2>6, <3>4 DEF Users, Active
      <4>2. pools'[o] = pools[o] /\ pools[o] \in Nat \cup {NoPool}
        BY <1>1, <2>1, <3>4
      <4>3. QED
        BY <3>1, <3>2, <4>1, <4>2
    <3>5. QED
      BY <3>3, <3>4
  <2>10. pools' \in [Origins -> Nat \cup {NoPool}] /\ PoolsRight'
    <3>1. pools' = [o \in Origins |-> pools'[o]]
      BY <1>1, <2>1
    <3>2. QED
      BY <2>9, <3>1 DEF PoolsRight
  <2>11. Moves(r, q0)
    BY <1>1, <1>2, <2>4, <2>5, <2>7, <2>8, <2>10 DEF Moves, StoreRight, IdleType
  <2>12. QED
    BY <2>11, MovesKeeps
<1>7. QED
  BY <1>5, <1>6

-----------------------------------------------------------------------------
(* Steps that move no request. *)
LEMMA RestKeeps ==
  ASSUME ClientConstantsOK, ClientInv, UNCHANGED <<req, gate, pools, clientUse>>,
         late \subseteq late', late' \subseteq Requests, clientStop' \in BOOLEAN, clientStop => clientStop',
         edges' \in [Requests -> SUBSET {"deadline", "stop"}],
         \A r \in Requests : "stop" \in edges'[r] => clientStop',
         idle' \in IdleType, idle'.kept = idle.kept, idle'.count = idle.count,
         idle'.since = idle.since, idle'.now = idle.now,
         conns' \in [Requests -> ConnType],
         \A c \in Requests : Clean(c) => Clean(c)',
         \A c \in Requests, r \in Requests : Owed(c, r) => Owed(c, r)'
  PROVE  ClientInv'
<1>1. /\ ClientTypeOK /\ PhasesRight /\ GatesRight /\ IdleRight /\ PoolsRight /\ ConnsRight
      /\ ContentRight /\ EventsRight /\ OutcomesTrue /\ req \in [Requests -> ReqType]
  BY DEF ClientInv, ClientTypeOK
<1>2. Requests' = Requests /\ (\A x : Origin(x)' = Origin(x)) /\ Requests \subseteq Nat \ {0}
  BY <1>1, UseKnown DEF Requests, Origin, ClientTypeOK
<1>3. Gates' = Gates /\ ReqType' = ReqType /\ IdleType' = IdleType /\ ConnType' = ConnType
  BY <1>2 DEF Gates, ReqType, IdleType, ConnType, Response, NoConn, NoResponse
<1>4. ClientTypeOK'
  BY <1>1, <1>2, <1>3 DEF ClientTypeOK, NoPool
<1>5. PhasesRight'
  BY <1>1, <1>2 DEF PhasesRight, PhaseRight, Active
<1>6. GatesRight'
  <2>1. /\ \A x \in Requests : req'[x].holds = req[x].holds
        /\ \A x \in Requests, g \in Gates : WaitsAt(x, g) => WaitsAt(x, g)'
    BY <1>2 DEF WaitsAt
  <2>2. QED
    BY <2>1, GatesFrame
<1>7. IdleRight'
  BY <1>1, <1>2 DEF IdleRight
<1>8. PoolsRight'
  <2>1. \A x \in Requests : Active(x)' <=> Active(x)
    BY DEF Active
  <2>2. QED
    BY <2>1, PoolsStill
<1>9. ConnsRight'
  BY <1>1, <1>2 DEF ConnsRight, Made, Active
<1>10. ContentRight'
  <2>1. \A x \in Requests : x \in idle'.kept \/ ~ Made(x)' => Clean(x)'
    BY <1>1 DEF ContentRight, Made
  <2>2. ASSUME NEW x \in Requests
        PROVE  /\ req'[x].at \in {"connect", "tls"} \/ Writing(x)' \/ Final(x)' => Clean(req[x].conn)'
               /\ Asked(x)' => Owed(req[x].conn, x)'
               /\ req'[x].at = "read" /\ req'[x].ev = "ok" => req'[x].got.req = x
    <3>1. (Writing(x)' <=> Writing(x)) /\ (Final(x)' <=> Final(x)) /\ (Asked(x)' <=> Asked(x))
      BY DEF Writing, Final, Asked
    <3>2. CASE req[x].at \notin {"connect", "tls", "write", "read"}
      BY <3>1, <3>2 DEF Writing, Final, Asked
    <3>3. CASE req[x].at \in {"connect", "tls", "write", "read"}
      <4>1. PhaseRight(x)
        BY <1>1 DEF PhasesRight
      <4>2. PICK y \in Requests : y = req[x].conn
        BY <1>1, <1>2, <3>3, <4>1 DEF PhaseRight, ReqType, NoConn
      <4>3. (Clean(y) => Clean(y)') /\ (Owed(y, x) => Owed(y, x)')
        OBVIOUS
      <4>4. (Clean(req[x].conn)' <=> Clean(y)') /\ (Owed(req[x].conn, x)' <=> Owed(y, x)')
        BY <4>2 DEF Clean, Owed
      <4>5. /\ req[x].at \in {"connect", "tls"} \/ Writing(x) \/ Final(x) => Clean(y)
            /\ Asked(x) => Owed(y, x)
            /\ req[x].at = "read" /\ req[x].ev = "ok" => req[x].got.req = x
        BY <1>1, <4>2 DEF ContentRight
      <4>6. QED
        BY <3>1, <4>3, <4>4, <4>5
    <3>4. QED
      BY <3>2, <3>3
  <2>3. QED
    BY <1>2, <2>1, <2>2 DEF ContentRight, Clean, Owed
<1>11. EventsRight' /\ OutcomesTrue'
  BY <1>1, <1>2 DEF EventsRight, OutcomesTrue
<1>12. QED
  BY <1>4, <1>5, <1>6, <1>7, <1>8, <1>9, <1>10, <1>11 DEF ClientInv

(* Connections that stay as they are, for the steps that touch none. *)
LEMMA ConnsStill ==
  ASSUME \A c \in Requests : conns'[c].sent = conns[c].sent /\ conns'[c].back = conns[c].back
  PROVE  /\ \A c \in Requests : Clean(c) => Clean(c)'
         /\ \A c \in Requests, r \in Requests : Owed(c, r) => Owed(c, r)'
  BY DEF Clean, Owed

(* A server that answers an older request leaves nothing between. *)
LEMMA AnswersKeeps ==
  ASSUME ClientConstantsOK, ClientInv, NEW c \in Requests, ServerAnswers(c)
  PROVE  ClientInv'
<1>1. /\ UNCHANGED <<req, edges, late, gate, pools, idle, clientStop, clientUse>>
      /\ conns \in [Requests -> ConnType] /\ idle \in IdleType /\ clientUse \in ClientUses
      /\ edges \in [Requests -> SUBSET {"deadline", "stop"}] /\ EventsRight /\ late \subseteq Requests
      /\ clientStop \in BOOLEAN /\ conns[c].sent # <<>>
  BY DEF ServerAnswers, ClientInv, ClientTypeOK
<1>2. PICK kind \in clientUse.answers :
        conns' = [conns EXCEPT ![c].back = Append(@, [req |-> Head(conns[c].sent), kind |-> kind]),
                               ![c].sent = IF kind = "info" THEN @ ELSE Tail(@),
                               ![c].told = kind = "info", ![c].open = kind # "close"]
  BY DEF ServerAnswers
<1>3. kind \in ResponseKinds
  BY <1>1, UseKnown DEF ClientUse
<1>4. conns[c].sent \in Seq(Requests) /\ conns[c].back \in Seq(Response)
  BY <1>1 DEF ConnType
<1>5. PICK answer \in Response : answer.req = Head(conns[c].sent) /\ answer.kind = kind
                                 /\ answer = [req |-> Head(conns[c].sent), kind |-> kind]
  <2>1. Head(conns[c].sent) \in Requests
    BY <1>1, <1>4
  <2>2. [req |-> Head(conns[c].sent), kind |-> kind] \in Response
    BY <1>3, <2>1 DEF Response
  <2>3. QED
    BY <2>2
<1>6. PICK back \in Seq(Response) : back = Append(conns[c].back, answer)
  BY <1>4, AppendProperties
<1>7. PICK sent \in Seq(Requests) : sent = IF kind = "info" THEN conns[c].sent ELSE Tail(conns[c].sent)
  <2>1. Tail(conns[c].sent) \in Seq(Requests)
    BY <1>1, <1>4
  <2>2. QED
    BY <1>4, <2>1
<1>8. conns' = [conns EXCEPT ![c] = [conns[c] EXCEPT !.back = back, !.sent = sent, !.told = (kind = "info"),
                                                     !.open = (kind # "close")]]
  BY <1>1, <1>2, <1>5, <1>6, <1>7
<1>9. [conns[c] EXCEPT !.back = back, !.sent = sent, !.told = (kind = "info"), !.open = (kind # "close")]
        \in ConnType
  <2>1. (kind = "info") \in BOOLEAN /\ (kind # "close") \in BOOLEAN
    OBVIOUS
  <2>2. QED
    BY <1>1, <2>1 DEF ConnType
<1>10. conns' \in [Requests -> ConnType]
  BY <1>1, <1>8, <1>9
<1>11. /\ conns'[c].sent = sent /\ conns'[c].back = back
       /\ \A d \in Requests \ {c} : conns'[d] = conns[d]
  BY <1>1, <1>8 DEF ConnType
<1>12. \A d \in Requests : Clean(d) => Clean(d)'
  BY <1>1, <1>11 DEF Clean
<1>13. ASSUME NEW d \in Requests, NEW r \in Requests, Owed(d, r) PROVE Owed(d, r)'
  <2>1. CASE d # c
    BY <1>11, <1>13, <2>1 DEF Owed
  <2>2. CASE d = c
    <3>1. /\ conns[c].sent = <<r>> /\ \A k \in DOMAIN conns[c].back : conns[c].back[k].kind = "info"
          /\ \A k \in DOMAIN conns[c].back : conns[c].back[k].req = r
      BY <1>1, <1>13, <2>2 DEF Owed
    <3>2. Head(conns[c].sent) = r /\ Tail(conns[c].sent) = <<>>
      BY <3>1
    <3>3. PICK n \in Nat : n = Len(conns[c].back)
      BY <1>4
    <3>4. /\ DOMAIN back = 1 .. n + 1 /\ Len(back) = n + 1 /\ back[n + 1] = answer
          /\ \A k \in 1 .. n : k \in DOMAIN conns[c].back /\ back[k] = conns[c].back[k]
      BY <1>4, <1>6, <3>3
    <3>5. \A k \in 1 .. n + 1 : back[k].req = r
      BY <1>5, <3>1, <3>2, <3>4
    <3>6. CASE kind = "info"
      <4>1. sent = <<r>>
        BY <1>7, <3>1, <3>6
      <4>2. \A k \in 1 .. n + 1 : back[k].kind = "info"
        BY <1>5, <3>1, <3>4, <3>6
      <4>3. QED
        BY <1>11, <2>2, <3>4, <3>5, <4>1, <4>2 DEF Owed
    <3>7. CASE kind # "info"
      <4>1. sent = <<>> /\ back # <<>>
        BY <1>7, <3>2, <3>4, <3>7
      <4>2. \A k \in 1 .. n + 1 : back[k].kind = "info" <=> k < n + 1
        <5>1. \A k \in 1 .. n : back[k].kind = "info"
          BY <3>1, <3>4
        <5>2. back[n + 1].kind # "info"
          BY <1>5, <3>4, <3>7
        <5>3. \A k \in 1 .. n + 1 : k \in 1 .. n \/ k = n + 1
          BY <3>3
        <5>4. (\A k \in 1 .. n : k < n + 1) /\ ~ (n + 1 < n + 1)
          BY <3>3
        <5>5. QED
          BY <5>1, <5>2, <5>3, <5>4
      <4>3. QED
        BY <1>11, <2>2, <3>4, <3>5, <4>1, <4>2 DEF Owed
    <3>8. QED
      BY <3>6, <3>7
  <2>3. QED
    BY <2>1, <2>2
<1>14. \A r \in Requests : "stop" \in edges'[r] => clientStop'
  BY <1>1 DEF EventsRight
<1>15. late \subseteq late' /\ late' \subseteq Requests /\ clientStop' \in BOOLEAN /\ (clientStop => clientStop')
       /\ edges' \in [Requests -> SUBSET {"deadline", "stop"}]
       /\ idle' \in IdleType /\ idle'.kept = idle.kept /\ idle'.count = idle.count
       /\ idle'.since = idle.since /\ idle'.now = idle.now
  BY <1>1
<1>16. QED
  BY <1>1, <1>10, <1>12, <1>13, <1>14, <1>15, RestKeeps

(* A server hangs up, a connection ages, a deadline passes, the runtime    *)
(* stops: nothing of it reaches a request yet.                             *)
LEMMA QuietKeeps ==
  ASSUME ClientConstantsOK, ClientInv,
         \/ \E c \in Requests : ServerHangsUp(c)
         \/ \E r \in Requests : DeadlinePasses(r)
         \/ GoesStale \/ ClientStops \/ UNCHANGED clientVars
  PROVE  ClientInv'
<1>1. /\ conns \in [Requests -> ConnType] /\ idle \in IdleType /\ clientUse \in ClientUses
      /\ edges \in [Requests -> SUBSET {"deadline", "stop"}] /\ EventsRight /\ late \subseteq Requests
      /\ clientStop \in BOOLEAN
  BY DEF ClientInv, ClientTypeOK
<1>2. UNCHANGED <<req, gate, pools, clientUse>>
  BY DEF ServerHangsUp, DeadlinePasses, GoesStale, ClientStops, clientVars
<1>3. late \subseteq late' /\ late' \subseteq Requests
  BY <1>1 DEF ServerHangsUp, DeadlinePasses, GoesStale, ClientStops, clientVars
<1>4. clientStop' \in BOOLEAN /\ (clientStop => clientStop')
  BY <1>1 DEF ServerHangsUp, DeadlinePasses, GoesStale, ClientStops, clientVars
<1>5. /\ edges' \in [Requests -> SUBSET {"deadline", "stop"}]
      /\ \A r \in Requests : "stop" \in edges'[r] => clientStop'
  <2>1. CASE ClientStops
    <3>1. clientStop' = TRUE /\ edges' = [r \in Requests |-> IF Active(r) THEN edges[r] \cup {"stop"} ELSE edges[r]]
      BY <2>1 DEF ClientStops
    <3>2. QED
      BY <1>1, <3>1
  <2>2. CASE ~ ClientStops
    <3>1. edges' = edges /\ clientStop' = clientStop
      BY <2>2 DEF ServerHangsUp, DeadlinePasses, GoesStale, clientVars
    <3>2. QED
      BY <1>1, <3>1 DEF EventsRight
  <2>3. QED
    BY <2>1, <2>2
<1>6. /\ idle' \in IdleType /\ idle'.kept = idle.kept /\ idle'.count = idle.count
      /\ idle'.since = idle.since /\ idle'.now = idle.now
  <2>1. CASE GoesStale
    <3> DEFINE fresh == {c \in idle.kept : Fresh(c)}
    <3>1. fresh # {} /\ idle' = [idle EXCEPT !.past = idle.since[Oldest(fresh)]]
      BY <2>1 DEF GoesStale
    <3>2. fresh \in SUBSET Requests
      BY <1>1 DEF IdleType
    <3> HIDE DEF fresh
    <3>3. Oldest(fresh) \in Requests
      BY <1>1, <3>1, <3>2, OldestIsThere
    <3>4. idle.since[Oldest(fresh)] \in Nat
      BY <1>1, <3>3 DEF IdleType
    <3>5. QED
      BY <1>1, <3>1, <3>4 DEF IdleType
  <2>2. CASE ~ GoesStale
    <3>1. idle' = idle
      BY <2>2 DEF ServerHangsUp, DeadlinePasses, ClientStops, clientVars
    <3>2. QED
      BY <1>1, <3>1
  <2>3. QED
    BY <2>1, <2>2
<1>7. /\ conns' \in [Requests -> ConnType]
      /\ \A c \in Requests : conns'[c].sent = conns[c].sent /\ conns'[c].back = conns[c].back
  <2>1. ASSUME NEW c \in Requests, ServerHangsUp(c)
        PROVE  /\ conns' \in [Requests -> ConnType]
               /\ \A d \in Requests : conns'[d].sent = conns[d].sent /\ conns'[d].back = conns[d].back
    <3>1. conns' = [conns EXCEPT ![c].open = FALSE]
      BY <2>1 DEF ServerHangsUp
    <3>2. QED
      BY <1>1, <3>1 DEF ConnType
  <2>2. CASE ~ \E c \in Requests : ServerHangsUp(c)
    <3>1. conns' = conns
      BY <2>2 DEF DeadlinePasses, GoesStale, ClientStops, clientVars
    <3>2. QED
      BY <1>1, <3>1
  <2>3. QED
    BY <2>1, <2>2
<1>8. /\ \A c \in Requests : Clean(c) => Clean(c)'
      /\ \A c \in Requests, r \in Requests : Owed(c, r) => Owed(c, r)'
  BY <1>7, ConnsStill
<1>9. QED
  BY <1>2, <1>3, <1>4, <1>5, <1>6, <1>7, <1>8, RestKeeps

-----------------------------------------------------------------------------
(* An operation ends: what it takes for the invariant to hold on.          *)
Completes(r, q0) ==
  /\ Known(r) /\ q0 \in ReqType /\ req' = [req EXCEPT ![r] = q0]
  /\ req[r].ev = "pending" /\ q0.ev \in {"ok", "failed"} /\ req[r].at \in {"resolve", "connect", "tls", "write", "read"}
  /\ q0.at = req[r].at /\ q0.holds = req[r].holds /\ q0.conn = req[r].conn /\ q0.out = req[r].out
  /\ UNCHANGED <<edges, late, gate, pools, idle, clientStop, clientUse>>
  /\ conns' \in [Requests -> ConnType]
  /\ \A x \in Requests \ {q0.conn} : conns'[x].sent = conns[x].sent /\ conns'[x].back = conns[x].back
  /\ q0.at \in {"connect", "tls"} \/ Writing(r)' \/ Final(r)' => Clean(q0.conn)'
  /\ Asked(r)' => Owed(q0.conn, r)'
  /\ q0.at = "read" /\ q0.ev = "ok" => q0.got.req = r

(* Such an end of an operation keeps the invariant. *)
LEMMA CompletesKeeps ==
  ASSUME NEW r \in Requests, NEW q0, Completes(r, q0)
  PROVE  ClientInv'
<1>1. /\ ClientConstantsOK /\ ClientInv /\ q0 \in ReqType /\ req' = [req EXCEPT ![r] = q0]
      /\ req \in [Requests -> ReqType] /\ PhaseRight(r)
      /\ req[r].ev = "pending" /\ q0.ev \in {"ok", "failed"}
      /\ req[r].at \in {"resolve", "connect", "tls", "write", "read"}
      /\ q0.at = req[r].at /\ q0.holds = req[r].holds /\ q0.conn = req[r].conn /\ q0.out = req[r].out
      /\ UNCHANGED <<edges, late, gate, pools, idle, clientStop, clientUse>>
  BY DEF Completes, Known
<1>2. Active(r) /\ q0.out = "none"
  BY <1>1 DEF Active, PhaseRight
<1>3. req'[r] = q0 /\ \A x \in Requests \ {r} : req'[x] = req[x]
  BY <1>1
<1>4. (\A x : Origin(x)' = Origin(x)) /\ Requests' = Requests
  BY <1>1 DEF Origin, Requests
<1>5. gate' \in [Gates -> [taken : Nat, queue : Seq(Requests)]] /\ GatesRight'
  <2>1. \A x \in Requests : req'[x].holds = req[x].holds
    BY <1>1, <1>3
  <2>2. \A x \in Requests, g \in Gates : WaitsAt(x, g) => WaitsAt(x, g)'
    BY <1>1, <1>3, <1>4 DEF WaitsAt
  <2>3. QED
    BY <1>1, <2>1, <2>2, GatesFrame
<1>6. pools' \in [Origins -> Nat \cup {NoPool}] /\ PoolsRight'
  <2>1. \A x \in Requests : Active(x)' <=> Active(x)
    BY <1>1, <1>3 DEF Active
  <2>2. QED
    BY <1>1, <2>1, PoolsStill
<1>7. EventsRight' /\ edges' \in [Requests -> SUBSET {"deadline", "stop"}] /\ late' \subseteq Requests
  BY <1>1, <1>3, <1>4 DEF ClientInv, ClientTypeOK, EventsRight
<1>8. PhaseRight(r)'
  BY <1>1, <1>3, <1>4 DEF PhaseRight, Active
<1>9. Turns(r, req[r].conn, idle) /\ req[r].conn \notin idle.kept
  BY <1>1, <1>2, KeepsOwn
<1>10. /\ StoreRight(idle') /\ idle'.kept \subseteq idle.kept
       /\ q0.conn # NoConn =>
            /\ Origin(q0.conn) = Origin(r) /\ (q0.conn = r \/ Made(q0.conn)) /\ q0.conn \notin idle'.kept
            /\ \A q \in Requests : Active(q) /\ q # r => req[q].conn # q0.conn
  BY <1>1, <1>9 DEF Turns
<1>11. Moves(r, q0)
  BY <1>1, <1>2, <1>5, <1>6, <1>7, <1>8, <1>10 DEF Moves, Completes
<1>12. QED
  BY <1>11, MovesKeeps

(* Between two parts of a message nothing moves. *)
LEMMA PartKeeps ==
  ASSUME NEW r \in Requests, Known(r), NEW q0 \in ReqType, req' = [req EXCEPT ![r] = q0],
         req[r].ev \in {"pending", "between"}, q0.ev \in {"pending", "between"},
         req[r].ev = "pending" => req[r].at \in {"write", "read"},
         q0.at = req[r].at, q0.holds = req[r].holds, q0.conn = req[r].conn, q0.out = req[r].out,
         edges' \in [Requests -> SUBSET {"deadline", "stop"}], \A x \in Requests : edges'[x] \subseteq edges[x],
         UNCHANGED <<late, gate, pools, idle, conns, clientStop, clientUse>>
  PROVE  ClientInv'
<1>1. /\ ClientConstantsOK /\ ClientInv /\ req \in [Requests -> ReqType] /\ PhaseRight(r) /\ ContentRight
      /\ late \subseteq Requests /\ conns \in [Requests -> ConnType] /\ EventsRight
  BY DEF Known, ClientInv, ClientTypeOK
<1>2. Active(r) /\ q0.out = "none"
  BY <1>1 DEF Active, PhaseRight
<1>3. req'[r] = q0 /\ \A x \in Requests \ {r} : req'[x] = req[x]
  BY <1>1
<1>4. (\A x : Origin(x)' = Origin(x)) /\ Requests' = Requests
  BY DEF Origin, Requests
<1>5. gate' \in [Gates -> [taken : Nat, queue : Seq(Requests)]] /\ GatesRight'
  <2>1. \A x \in Requests : req'[x].holds = req[x].holds
    BY <1>1, <1>3
  <2>2. \A x \in Requests, g \in Gates : WaitsAt(x, g) => WaitsAt(x, g)'
    BY <1>1, <1>3, <1>4 DEF WaitsAt
  <2>3. QED
    BY <1>1, <2>1, <2>2, GatesFrame
<1>6. pools' \in [Origins -> Nat \cup {NoPool}] /\ PoolsRight'
  <2>1. \A x \in Requests : Active(x)' <=> Active(x)
    BY <1>1, <1>3 DEF Active
  <2>2. QED
    BY <1>1, <2>1, PoolsStill
<1>7. EventsRight'
  BY <1>1, <1>3, <1>4 DEF EventsRight
<1>8. PhaseRight(r)'
  BY <1>1, <1>2, <1>3, <1>4 DEF PhaseRight, Active
<1>9. /\ StoreRight(idle') /\ idle'.kept \subseteq idle.kept
      /\ q0.conn # NoConn =>
           /\ Origin(q0.conn) = Origin(r) /\ (q0.conn = r \/ Made(q0.conn)) /\ q0.conn \notin idle'.kept
           /\ \A q \in Requests : Active(q) /\ q # r => req[q].conn # q0.conn
  <2>1. Turns(r, req[r].conn, idle) /\ req[r].conn \notin idle.kept
    BY <1>1, <1>2, KeepsOwn
  <2>2. QED
    BY <2>1 DEF Turns
<1>10. /\ q0.at \in {"connect", "tls"} \/ Writing(r)' \/ Final(r)' => Clean(q0.conn)'
       /\ Asked(r)' => Owed(q0.conn, r)'
  <2>1. ~ Final(r)' /\ (Writing(r)' => Writing(r)) /\ (Asked(r)' => Asked(r))
    BY <1>3 DEF Writing, Final, Asked
  <2>2. /\ q0.at \in {"connect", "tls"} \/ Writing(r) => Clean(q0.conn)
        /\ Asked(r) => Owed(q0.conn, r)
    BY <1>1 DEF ContentRight
  <2>3. (Clean(q0.conn) => Clean(q0.conn)') /\ (Owed(q0.conn, r) => Owed(q0.conn, r)')
    BY DEF Clean, Owed
  <2>4. QED
    BY <2>1, <2>2, <2>3
<1>11. Moves(r, q0)
  BY <1>1, <1>2, <1>5, <1>6, <1>7, <1>8, <1>9, <1>10 DEF Moves
<1>12. QED
  BY <1>11, MovesKeeps

LEMMA PartsKeep ==
  ASSUME NEW r \in Requests, Known(r), PartCompletes(r) \/ PartResumes(r)
  PROVE  ClientInv'
<1>1. /\ req \in [Requests -> ReqType] /\ edges \in [Requests -> SUBSET {"deadline", "stop"}]
      /\ UNCHANGED <<edges, late, gate, pools, idle, conns, clientStop, clientUse>>
  BY DEF Known, ClientInv, ClientTypeOK, PartCompletes, PartResumes
<1>2. PICK ev \in {"pending", "between"} :
        /\ req' = [req EXCEPT ![r].ev = ev] /\ req[r].ev \in {"pending", "between"}
        /\ req[r].ev = "pending" => req[r].at \in {"write", "read"}
  BY DEF PartCompletes, PartResumes
<1>3. PICK q0 : q0 = [req[r] EXCEPT !.ev = ev]
  OBVIOUS
<1>4. req' = [req EXCEPT ![r] = q0]
  BY <1>1, <1>2, <1>3
<1>5. /\ q0 \in ReqType /\ q0.ev = ev /\ q0.at = req[r].at /\ q0.holds = req[r].holds
      /\ q0.conn = req[r].conn /\ q0.out = req[r].out
  <2>1. req[r] \in ReqType
    BY <1>1
  <2>2. QED
    BY <1>3, <2>1 DEF ReqType, Events
<1>6. QED
  BY <1>1, <1>2, <1>4, <1>5, PartKeeps

(* All of them. *)
LEMMA ResumesKeeps ==
  ASSUME NEW r \in Requests, Known(r), RequestResumes(r)
  PROVE  ClientInv'
<1>1. CASE IsConnected(r)
  <2>1. PICK phase : phase = IF Origin(r) \in clientUse.tls THEN "tls" ELSE "write"
    OBVIOUS
  <2>2. /\ req[r].at = "connect" /\ req[r].ev = "ok" /\ Unmoved /\ Active(r)
        /\ PhaseBegins(r, phase, req[r], idle) /\ phase \in {"tls", "write"}
    BY <1>1, <2>1 DEF IsConnected, PhaseDone, Active
  <2>3. QED
    BY <2>2, OwnGoes
<1>2. CASE IsSecured(r)
  BY <1>2, OwnGoes DEF IsSecured, PhaseDone, Active
<1>3. CASE IsWritten(r)
  BY <1>3, OwnGoes DEF IsWritten, PhaseDone, Active
<1>4. CASE PartResumes(r)
  BY <1>4, PartsKeep
<1>5. QED
  BY <1>1, <1>2, <1>3, <1>4, FailedKeeps, OriginKeeps, GlobalKeeps, ResolvedKeeps, ReadKeeps DEF RequestResumes

(* A lookup, a connect, a handshake: nothing is sent yet. *)
LEMMA OperationKeeps ==
  ASSUME NEW r \in Requests, Known(r), OperationCompletes(r)
  PROVE  ClientInv'
<1>1. /\ ClientConstantsOK /\ ClientInv /\ req \in [Requests -> ReqType] /\ conns \in [Requests -> ConnType]
      /\ req[r].at \in {"resolve", "connect", "tls"} /\ req[r].ev = "pending" /\ ContentRight
      /\ UNCHANGED <<edges, late, gate, pools, idle, clientStop, clientUse>>
  BY DEF Known, OperationCompletes, ClientInv, ClientTypeOK
<1>2. PICK ev \in {"ok", "failed"} : req' = [req EXCEPT ![r].ev = ev]
  BY DEF OperationCompletes
<1>a. PICK q0 : q0 = [req[r] EXCEPT !.ev = ev]
  OBVIOUS
<1>3. req' = [req EXCEPT ![r] = q0]
  BY <1>1, <1>2, <1>a
<1>4. /\ q0 \in ReqType /\ q0.ev = ev /\ q0.at = req[r].at /\ q0.holds = req[r].holds
      /\ q0.conn = req[r].conn /\ q0.out = req[r].out
  <2>1. req[r] \in ReqType
    BY <1>1
  <2>2. QED
    BY <1>a, <2>1 DEF ReqType, Events
<1>5. req'[r] = q0
  BY <1>1, <1>3
<1>6. conns' = conns \/ conns' = [conns EXCEPT ![r].open = TRUE]
  BY DEF OperationCompletes
<1>7. /\ conns' \in [Requests -> ConnType]
      /\ \A c \in Requests : conns'[c].sent = conns[c].sent /\ conns'[c].back = conns[c].back
  <2>1. CASE conns' = conns
    BY <1>1, <2>1
  <2>2. CASE conns' = [conns EXCEPT ![r].open = TRUE]
    BY <1>1, <2>2 DEF ConnType
  <2>3. QED
    BY <1>6, <2>1, <2>2
<1>8. ~ Writing(r)' /\ ~ Final(r)' /\ ~ Asked(r)'
  BY <1>1, <1>4, <1>5 DEF Writing, Final, Asked
<1>9. q0.at \in {"connect", "tls"} => Clean(q0.conn)'
  <2>1. SUFFICES ASSUME q0.at \in {"connect", "tls"} PROVE Clean(q0.conn)'
    OBVIOUS
  <2>2. req[r].conn = r
    BY <1>4, <2>1 DEF Known, PhaseRight
  <2>3. Clean(req[r].conn)
    BY <1>1, <1>4, <2>1 DEF ContentRight
  <2>4. Clean(r)'
    BY <1>7, <2>2, <2>3 DEF Clean
  <2>5. PICK d : d = q0.conn
    OBVIOUS
  <2>6. d = r
    BY <1>4, <2>2, <2>5
  <2>7. QED
    BY <2>4, <2>5, <2>6 DEF Clean
<1>10. Completes(r, q0)
  BY <1>1, <1>3, <1>4, <1>7, <1>8, <1>9 DEF Completes
<1>11. QED
  BY <1>10, CompletesKeeps

(* What is written on a clean connection is all that is owed there. *)
LEMMA WriteKeeps ==
  ASSUME NEW r \in Requests, Known(r), WriteCompletes(r)
  PROVE  ClientInv'
<1>1. /\ ClientConstantsOK /\ ClientInv /\ req \in [Requests -> ReqType] /\ conns \in [Requests -> ConnType]
      /\ req[r].at = "write" /\ req[r].ev = "pending" /\ ContentRight
      /\ UNCHANGED <<edges, late, gate, pools, idle, clientStop, clientUse>>
  BY DEF Known, WriteCompletes, ClientInv, ClientTypeOK
<1>2. PICK c \in Requests : c = req[r].conn
  BY <1>1 DEF Known, PhaseRight, ReqType, NoConn
<1>3. conns[c].sent = <<>> /\ conns[c].back = <<>>
  BY <1>1, <1>2 DEF ContentRight, Writing, Clean
<1>4. PICK ev \in {"ok", "failed"} :
        /\ req' = [req EXCEPT ![r].ev = ev]
        /\ \/ ev = "ok" /\ conns' = [conns EXCEPT ![c].sent = Append(@, r)]
           \/ ev = "failed" /\ conns' = conns
  BY <1>2 DEF WriteCompletes
<1>a. PICK q0 : q0 = [req[r] EXCEPT !.ev = ev]
  OBVIOUS
<1>5. req' = [req EXCEPT ![r] = q0]
  BY <1>1, <1>4, <1>a
<1>6. /\ q0 \in ReqType /\ q0.ev = ev /\ q0.at = req[r].at /\ q0.holds = req[r].holds
      /\ q0.conn = req[r].conn /\ q0.out = req[r].out
  <2>1. req[r] \in ReqType
    BY <1>1
  <2>2. QED
    BY <1>a, <2>1 DEF ReqType, Events
<1>7. req'[r] = q0
  BY <1>1, <1>5
<1>8. /\ conns' \in [Requests -> ConnType] /\ conns'[c].back = <<>>
      /\ conns'[c].sent = IF ev = "ok" THEN <<r>> ELSE <<>>
      /\ \A x \in Requests \ {c} : conns'[x] = conns[x]
  <2>1. CASE ev = "ok"
    <3>1. Append(conns[c].sent, r) = <<r>> /\ <<r>> \in Seq(Requests)
      BY <1>3
    <3>2. conns' = [conns EXCEPT ![c] = [conns[c] EXCEPT !.sent = <<r>>]]
      BY <1>1, <1>4, <2>1, <3>1
    <3>3. [conns[c] EXCEPT !.sent = <<r>>] \in ConnType
      BY <1>1, <3>1 DEF ConnType
    <3>4. [conns[c] EXCEPT !.sent = <<r>>].sent = <<r>> /\ [conns[c] EXCEPT !.sent = <<r>>].back = <<>>
      BY <1>1, <1>3 DEF ConnType
    <3>5. QED
      BY <1>1, <2>1, <3>2, <3>3, <3>4
  <2>2. CASE ev = "failed"
    BY <1>1, <1>3, <1>4, <2>2
  <2>3. QED
    BY <2>1, <2>2
<1>9. ~ Final(r)' /\ (Writing(r)' => Clean(c)') /\ (Asked(r)' => Owed(c, r)')
  <2>1. ~ Final(r)' /\ (Writing(r)' => ev = "failed") /\ (Asked(r)' => ev = "ok")
    BY <1>1, <1>6, <1>7 DEF Writing, Final, Asked
  <2>2. ev = "failed" => Clean(c)'
    BY <1>8 DEF Clean
  <2>3. ev = "ok" => Owed(c, r)'
    <3>1. DOMAIN conns'[c].back = {}
      BY <1>8
    <3>2. QED
      BY <1>8, <3>1 DEF Owed
  <2>4. QED
    BY <2>1, <2>2, <2>3
<1>10. (Clean(q0.conn)' <=> Clean(c)') /\ (Owed(q0.conn, r)' <=> Owed(c, r)')
  <2>1. PICK d : d = q0.conn
    OBVIOUS
  <2>2. d = c
    BY <1>2, <1>6, <2>1
  <2>3. QED
    BY <2>1, <2>2 DEF Clean, Owed
<1>11. Completes(r, q0)
  BY <1>1, <1>2, <1>5, <1>6, <1>8, <1>9, <1>10 DEF Completes
<1>12. QED
  BY <1>11, CompletesKeeps

(* What comes back is for who asked; after the last of it the connection   *)
(* carries nothing.                                                        *)
LEMMA ReadCompletesKeeps ==
  ASSUME NEW r \in Requests, Known(r), ReadCompletes(r)
  PROVE  ClientInv'
<1>1. /\ ClientConstantsOK /\ ClientInv /\ req \in [Requests -> ReqType] /\ conns \in [Requests -> ConnType]
      /\ req[r].at = "read" /\ req[r].ev = "pending" /\ ContentRight
      /\ UNCHANGED <<edges, late, gate, pools, idle, clientStop, clientUse>>
  BY DEF Known, ReadCompletes, ClientInv, ClientTypeOK
<1>2. PICK c \in Requests : c = req[r].conn
  BY <1>1 DEF Known, PhaseRight, ReqType, NoConn
<1>3. Owed(c, r)
  BY <1>1, <1>2 DEF ContentRight, Asked, Writing, Final
<1>4. conns[c].back \in Seq(Response) /\ conns[c].sent \in Seq(Requests)
  BY <1>1 DEF ConnType
<1>5. CASE conns[c].back = <<>>
  <2>a. PICK q0 : q0 = [req[r] EXCEPT !.ev = "failed"]
    OBVIOUS
  <2>1. req' = [req EXCEPT ![r] = q0] /\ conns' = conns
    BY <1>1, <1>2, <1>5, <2>a DEF ReadCompletes
  <2>2. /\ q0 \in ReqType /\ q0.ev = "failed" /\ q0.at = req[r].at /\ q0.holds = req[r].holds
        /\ q0.conn = req[r].conn /\ q0.out = req[r].out
    <3>1. req[r] \in ReqType
      BY <1>1
    <3>2. QED
      BY <2>a, <3>1 DEF ReqType, Events
  <2>3. req'[r] = q0
    BY <1>1, <2>1
  <2>4. ~ Final(r)' /\ ~ Writing(r)'
    BY <1>1, <2>2, <2>3 DEF Writing, Final
  <2>5. Owed(q0.conn, r)'
    <3>1. PICK d : d = q0.conn
      OBVIOUS
    <3>2. d = c
      BY <1>2, <2>2, <3>1
    <3>3. Owed(c, r)'
      BY <1>3, <2>1 DEF Owed
    <3>4. QED
      BY <3>1, <3>2, <3>3 DEF Owed
  <2>6. Completes(r, q0)
    BY <1>1, <2>1, <2>2, <2>4, <2>5 DEF Completes
  <2>7. QED
    BY <2>6, CompletesKeeps
<1>6. CASE conns[c].back # <<>>
  <2>1. PICK answer \in Response : answer = Head(conns[c].back)
    BY <1>4, <1>6
  <2>2. PICK rest \in Seq(Response) : rest = Tail(conns[c].back)
    <3>1. Tail(conns[c].back) \in Seq(Response)
      BY <1>4, <1>6
    <3>2. QED
      BY <3>1
  <2>3. PICK n \in Nat : n = Len(conns[c].back)
    BY <1>4
  <2>4. /\ n > 0 /\ DOMAIN conns[c].back = 1 .. n /\ DOMAIN rest = 1 .. n - 1 /\ Len(rest) = n - 1
        /\ \A k \in 1 .. n - 1 : k + 1 \in 1 .. n /\ rest[k] = conns[c].back[k + 1]
        /\ 1 \in 1 .. n /\ answer = conns[c].back[1]
    BY <1>4, <1>6, <2>1, <2>2, <2>3
  <2>a. PICK q0 : q0 = [req[r] EXCEPT !.ev = "ok", !.got = answer]
    OBVIOUS
  <2>5. req' = [req EXCEPT ![r] = q0] /\ conns' = [conns EXCEPT ![c].back = rest]
    BY <1>1, <1>2, <1>6, <2>1, <2>2, <2>a DEF ReadCompletes
  <2>6. /\ q0 \in ReqType /\ q0.ev = "ok" /\ q0.at = req[r].at /\ q0.holds = req[r].holds
        /\ q0.conn = req[r].conn /\ q0.out = req[r].out /\ q0.got = answer
    <3>1. req[r] \in ReqType
      BY <1>1
    <3>2. QED
      BY <2>a, <3>1 DEF ReqType, Events
  <2>7. req'[r] = q0
    BY <1>1, <2>5
  <2>8. /\ conns' \in [Requests -> ConnType] /\ conns'[c].back = rest /\ conns'[c].sent = conns[c].sent
        /\ \A x \in Requests \ {c} : conns'[x] = conns[x]
    <3>1. [conns[c] EXCEPT !.back = rest] \in ConnType
      BY <1>1 DEF ConnType
    <3>2. [conns[c] EXCEPT !.back = rest].back = rest /\ [conns[c] EXCEPT !.back = rest].sent = conns[c].sent
      BY <1>1 DEF ConnType
    <3>3. conns' = [conns EXCEPT ![c] = [conns[c] EXCEPT !.back = rest]]
      BY <1>1, <2>5
    <3>4. QED
      BY <1>1, <3>1, <3>2, <3>3
  <2>9. answer.req = r /\ \A k \in 1 .. n - 1 : rest[k].req = r
    BY <1>3, <2>4 DEF Owed
  <2>11. ASSUME conns[c].sent = <<>>,
                \A k \in DOMAIN conns[c].back : conns[c].back[k].kind = "info" <=> k < Len(conns[c].back)
         PROVE  (answer.kind = "info" => Owed(c, r)') /\ (answer.kind # "info" => Clean(c)')
    <3>1. (answer.kind = "info" <=> 1 < n) /\ \A k \in 1 .. n - 1 : rest[k].kind = "info" <=> k < n - 1
      <4>1. answer.kind = "info" <=> 1 < n
        BY <2>3, <2>4, <2>11
      <4>2. \A k \in 1 .. n - 1 : rest[k].kind = "info" <=> k + 1 < n
        BY <2>3, <2>4, <2>11
      <4>3. \A k \in 1 .. n - 1 : k + 1 < n <=> k < n - 1
        BY <2>3
      <4>4. QED
        BY <4>1, <4>2, <4>3
    <3>2. answer.kind = "info" => Owed(c, r)'
      <4>1. SUFFICES ASSUME answer.kind = "info" PROVE Owed(c, r)'
        OBVIOUS
      <4>2. 1 < n
        BY <3>1, <4>1
      <4>3. rest # <<>>
        BY <2>3, <2>4, <4>2
      <4>4. QED
        BY <2>4, <2>8, <2>9, <2>11, <3>1, <4>3 DEF Owed
    <3>3. answer.kind # "info" => Clean(c)'
      <4>1. SUFFICES ASSUME answer.kind # "info" PROVE Clean(c)'
        OBVIOUS
      <4>2. ~ (1 < n)
        BY <3>1, <4>1
      <4>3. Len(rest) = 0
        <5>1. n = 1
          <6>1. n \in Nat /\ n > 0
            BY <2>4
          <6>2. QED
            BY <4>2, <6>1
        <5>2. QED
          BY <2>4, <5>1
      <4>4. rest = <<>>
        BY <4>3
      <4>5. QED
        BY <2>8, <2>11, <4>4 DEF Clean
    <3>4. QED
      BY <3>2, <3>3
  <2>12. (answer.kind = "info" => Owed(c, r)') /\ (answer.kind # "info" => Clean(c)')
    <3>1. \/ conns[c].sent = <<r>> /\ \A k \in DOMAIN conns[c].back : conns[c].back[k].kind = "info"
          \/ /\ conns[c].sent = <<>>
             /\ \A k \in DOMAIN conns[c].back : conns[c].back[k].kind = "info" <=> k < Len(conns[c].back)
      BY <1>3 DEF Owed
    <3>2. CASE conns[c].sent = <<r>> /\ \A k \in DOMAIN conns[c].back : conns[c].back[k].kind = "info"
      <4>1. answer.kind = "info" /\ Owed(c, r)'
        <5>1. answer.kind = "info" /\ \A k \in 1 .. n - 1 : rest[k].kind = "info"
          BY <2>4, <3>2
        <5>2. Owed(c, r)'
          BY <2>4, <2>8, <2>9, <3>2, <5>1 DEF Owed
        <5>3. QED
          BY <5>1, <5>2
      <4>2. QED
        BY <4>1
    <3>3. QED
      BY <2>11, <3>1, <3>2
  <2>13. ~ Writing(r)' /\ (Final(r)' => Clean(c)') /\ (Asked(r)' => Owed(c, r)')
    <3>1. ~ Writing(r)' /\ (Final(r)' => answer.kind # "info") /\ (Asked(r)' => answer.kind = "info")
      BY <1>1, <2>6, <2>7 DEF Writing, Final, Asked
    <3>2. QED
      BY <2>12, <3>1
  <2>14. (Clean(q0.conn)' <=> Clean(c)') /\ (Owed(q0.conn, r)' <=> Owed(c, r)')
    <3>1. PICK d : d = q0.conn
      OBVIOUS
    <3>2. d = c
      BY <1>2, <2>6, <3>1
    <3>3. QED
      BY <3>1, <3>2 DEF Clean, Owed
  <2>15. Completes(r, q0)
    BY <1>1, <1>2, <2>5, <2>6, <2>8, <2>9, <2>13, <2>14 DEF Completes
  <2>16. QED
    BY <2>15, CompletesKeeps
<1>7. QED
  BY <1>5, <1>6

-----------------------------------------------------------------------------
(* Who the signal ends leaves the line of its gate, and nobody else does.  *)
LEMMA AbortedGates ==
  ASSUME ClientInv, NEW r \in Requests, clientUse' = clientUse,
         \A x \in Requests \ {r} : req'[x] = req[x],
         req'[r].holds = req[r].holds,
         gate' = [g \in Gates |-> [gate[g] EXCEPT !.queue = Without(@, r)]]
  PROVE  gate' \in [Gates -> [taken : Nat, queue : Seq(Requests)]] /\ GatesRight'
<1>1. gate \in [Gates -> [taken : Nat, queue : Seq(Requests)]] /\ GatesRight
  BY DEF ClientInv, ClientTypeOK
<1>2. Requests' = Requests /\ Gates' = Gates /\ (\A g : Capacity(g)' = Capacity(g))
      /\ (\A x : Origin(x)' = Origin(x))
  BY DEF Requests, Gates, Capacity, Origin
<1>3. ASSUME NEW g \in Gates
      PROVE  gate'[g] \in [taken : Nat, queue : Seq(Requests)] /\ GateRight(g)'
  <2>1. GateRight(g) /\ gate[g].queue \in Seq(Requests) /\ gate[g].taken \in Nat
    BY <1>1 DEF GatesRight
  <2>2. \A j, k \in DOMAIN gate[g].queue : gate[g].queue[j] = gate[g].queue[k] => j = k
    BY <2>1 DEF GateRight
  <2>3. PICK line : line = Without(gate[g].queue, r)
    OBVIOUS
  <2>4. /\ line \in Seq(Requests)
        /\ \A k \in DOMAIN line : line[k] # r /\ \E j \in DOMAIN gate[g].queue : gate[g].queue[j] = line[k]
        /\ \A j, k \in DOMAIN line : line[j] = line[k] => j = k
    BY <2>1, <2>2, <2>3, WithoutKnown
  <2>5. gate'[g] = [gate[g] EXCEPT !.queue = line]
    BY <2>3
  <2>6. gate'[g].taken = gate[g].taken /\ gate'[g].queue = line
        /\ gate'[g] \in [taken : Nat, queue : Seq(Requests)]
    BY <1>1, <2>4, <2>5
  <2>7. Holders(g)' = Holders(g)
    BY <1>2 DEF Holders
  <2>8. line # <<>> => gate[g].queue # <<>>
    <3>1. SUFFICES ASSUME line # <<>> PROVE gate[g].queue # <<>>
      OBVIOUS
    <3>2. 1 \in DOMAIN line
      BY <2>4, <3>1
    <3>3. PICK j \in DOMAIN gate[g].queue : gate[g].queue[j] = line[1]
      BY <2>4, <3>2
    <3>4. QED
      BY <2>1, <3>3
  <2>9. ASSUME NEW k \in DOMAIN line PROVE WaitsAt(line[k], g)'
    <3>1. PICK j \in DOMAIN gate[g].queue : gate[g].queue[j] = line[k]
      BY <2>4
    <3>2. PICK x \in Requests \ {r} : x = line[k]
      BY <2>4
    <3>3. WaitsAt(x, g)
      BY <2>1, <3>1, <3>2 DEF GateRight
    <3>4. WaitsAt(x, g)'
      BY <1>2, <3>3 DEF WaitsAt
    <3>5. QED
      BY <3>2, <3>4
  <2>10. \A k \in DOMAIN gate'[g].queue : WaitsAt(gate[g].queue[k], g)'
    BY <2>6, <2>9 DEF WaitsAt
  <2>11. \A j, k \in DOMAIN gate'[g].queue : gate'[g].queue[j] = gate'[g].queue[k] => j = k
    BY <2>4, <2>6
  <2>12. /\ gate'[g].taken = Cardinality(Holders(g)') /\ gate'[g].taken <= Capacity(g)
         /\ gate'[g].queue # <<>> => gate'[g].taken = Capacity(g)
    BY <2>1, <2>6, <2>7, <2>8 DEF GateRight
  <2>13. QED
    BY <1>2, <2>6, <2>10, <2>11, <2>12 DEF GateRight
<1>4. QED
  BY <1>2, <1>3 DEF GatesRight

(* The deadline or the stop ends the operation in progress, or is lost. *)
LEMMA EmitsKeeps ==
  ASSUME NEW r \in Requests, Known(r), NEW e \in {"deadline", "stop"}, Emits(r, e)
  PROVE  ClientInv'
<1>1. /\ ClientConstantsOK /\ ClientInv /\ req \in [Requests -> ReqType] /\ conns \in [Requests -> ConnType]
      /\ PhaseRight(r) /\ ContentRight /\ EventsRight /\ idle \in IdleType /\ late \subseteq Requests
      /\ clientStop \in BOOLEAN /\ edges \in [Requests -> SUBSET {"deadline", "stop"}]
      /\ e \in edges[r] /\ (e = "deadline" => r \in late) /\ edges' = [edges EXCEPT ![r] = @ \ {e}]
      /\ UNCHANGED <<late, pools, idle, conns, clientStop, clientUse>>
  BY DEF Known, Emits, ClientInv, ClientTypeOK
<1>2. /\ edges' \in [Requests -> SUBSET {"deadline", "stop"}]
      /\ \A x \in Requests : edges'[x] \subseteq edges[x]
  BY <1>1
<1>3. clientStop \/ r \in late
  BY <1>1 DEF EventsRight
<1>4. /\ \A x \in Requests : Clean(x) => Clean(x)'
      /\ \A x \in Requests, q \in Requests : Owed(x, q) => Owed(x, q)'
  BY <1>1 DEF Clean, Owed
<1>5. CASE ~ (req[r].ev = "pending" /\ req[r].at # "resolve") /\ req[r].ev # "between"
  <2>1. UNCHANGED <<req, gate, pools, clientUse>>
    BY <1>1, <1>5 DEF Emits
  <2>2. \A x \in Requests : "stop" \in edges'[x] => clientStop'
    BY <1>1, <1>2 DEF EventsRight
  <2>3. /\ late \subseteq late' /\ late' \subseteq Requests /\ clientStop' \in BOOLEAN /\ (clientStop => clientStop')
        /\ idle' \in IdleType /\ idle'.kept = idle.kept /\ idle'.count = idle.count
        /\ idle'.since = idle.since /\ idle'.now = idle.now /\ conns' \in [Requests -> ConnType]
    BY <1>1
  <2>4. QED
    BY <1>1, <1>2, <1>4, <2>1, <2>2, <2>3, RestKeeps
<1>6. CASE req[r].ev = "pending" /\ req[r].at # "resolve"
  <2>a. PICK q0 : q0 = [req[r] EXCEPT !.ev = "aborted"]
    OBVIOUS
  <2>1. /\ req' = [req EXCEPT ![r] = q0]
        /\ gate' = [g \in Gates |-> [gate[g] EXCEPT !.queue = Without(@, r)]]
    BY <1>1, <1>6, <2>a DEF Emits
  <2>2. /\ q0 \in ReqType /\ q0.ev = "aborted" /\ q0.at = req[r].at /\ q0.holds = req[r].holds
        /\ q0.conn = req[r].conn /\ q0.out = req[r].out /\ q0.got = req[r].got
    <3>1. req[r] \in ReqType
      BY <1>1
    <3>2. QED
      BY <2>a, <3>1 DEF ReqType, Events
  <2>3. req'[r] = q0 /\ \A x \in Requests \ {r} : req'[x] = req[x]
    BY <1>1, <2>1
  <2>4. Active(r) /\ q0.out = "none"
    BY <1>1, <1>6, <2>2 DEF Active, PhaseRight
  <2>5. gate' \in [Gates -> [taken : Nat, queue : Seq(Requests)]] /\ GatesRight'
    <3>1. clientUse' = clientUse /\ req'[r].holds = req[r].holds
      BY <1>1, <2>2, <2>3
    <3>2. QED
      BY <1>1, <2>1, <2>3, <3>1, AbortedGates
  <2>6. pools' \in [Origins -> Nat \cup {NoPool}] /\ PoolsRight'
    <3>1. \A x \in Requests : Active(x)' <=> Active(x)
      BY <2>2, <2>3 DEF Active
    <3>2. QED
      BY <1>1, <3>1, PoolsStill
  <2>7. EventsRight'
    <3>1. Requests' = Requests
      BY <1>1 DEF Requests
    <3>2. QED
      BY <1>1, <1>2, <1>3, <2>2, <2>3, <3>1 DEF EventsRight
  <2>8. PhaseRight(r)'
    <3>1. Origin(r)' = Origin(r)
      BY <1>1 DEF Origin
    <3>2. QED
      BY <1>1, <1>6, <2>2, <2>3, <3>1 DEF PhaseRight, Active
  <2>9. Turns(r, req[r].conn, idle) /\ req[r].conn \notin idle.kept
    BY <1>1, <2>4, KeepsOwn
  <2>10. /\ StoreRight(idle') /\ idle'.kept \subseteq idle.kept
         /\ q0.conn # NoConn =>
              /\ Origin(q0.conn) = Origin(r) /\ (q0.conn = r \/ Made(q0.conn)) /\ q0.conn \notin idle'.kept
              /\ \A q \in Requests : Active(q) /\ q # r => req[q].conn # q0.conn
    BY <1>1, <2>2, <2>9 DEF Turns
  <2>11. /\ q0.at \in {"connect", "tls"} \/ Writing(r)' \/ Final(r)' => Clean(q0.conn)'
         /\ Asked(r)' => Owed(q0.conn, r)'
    <3>1. ~ Final(r)' /\ (Writing(r)' => Writing(r)) /\ (Asked(r)' => Asked(r))
      BY <1>6, <2>2, <2>3 DEF Writing, Final, Asked
    <3>2. /\ q0.at \in {"connect", "tls"} \/ Writing(r) => Clean(q0.conn)
          /\ Asked(r) => Owed(q0.conn, r)
      BY <1>1, <2>2 DEF ContentRight
    <3>3. (Clean(q0.conn) => Clean(q0.conn)') /\ (Owed(q0.conn, r) => Owed(q0.conn, r)')
      BY <1>1 DEF Clean, Owed
    <3>4. QED
      BY <3>1, <3>2, <3>3
  <2>12. \A x \in Requests \ {q0.conn} : conns'[x].sent = conns[x].sent /\ conns'[x].back = conns[x].back
    BY <1>1
  <2>13. late \subseteq late' /\ late' \subseteq Requests /\ conns' \in [Requests -> ConnType]
         /\ UNCHANGED <<clientStop, clientUse>>
    BY <1>1
  <2>14. Moves(r, q0)
    BY <1>1, <1>2, <2>1, <2>2, <2>4, <2>5, <2>6, <2>7, <2>8, <2>10, <2>11, <2>12, <2>13 DEF Moves
  <2>15. QED
    BY <2>14, MovesKeeps
<1>7. CASE req[r].ev = "between"
  <2>1. PICK q0 : q0 = [req[r] EXCEPT !.missed = req[r].at]
    OBVIOUS
  <2>2. req' = [req EXCEPT ![r] = q0] /\ gate' = gate
    BY <1>1, <1>7, <2>1 DEF Emits
  <2>3. /\ q0 \in ReqType /\ q0.ev = "between" /\ q0.at = req[r].at /\ q0.holds = req[r].holds
        /\ q0.conn = req[r].conn /\ q0.out = req[r].out
    <3>1. req[r] \in ReqType
      BY <1>1
    <3>2. QED
      BY <1>7, <2>1, <3>1 DEF ReqType
  <2>4. QED
    BY <1>1, <1>2, <1>7, <2>2, <2>3, PartKeeps
<1>8. QED
  BY <1>5, <1>6, <1>7

-----------------------------------------------------------------------------
(* Every step keeps the invariant of the client. *)
LEMMA ClientInvKeeps ==
  ASSUME ClientConstantsOK, ClientInv, [ClientNext]_clientVars
  PROVE  ClientInv'
<1>1. \A r \in Requests : Known(r)
  BY KnownHolds
<1>2. ASSUME NEW r \in Requests, RequestCalled(r) PROVE ClientInv'
  BY <1>1, <1>2, CalledKeeps
<1>3. ASSUME NEW r \in Requests, RequestResumes(r) PROVE ClientInv'
  BY <1>1, <1>3, ResumesKeeps
<1>4. ASSUME NEW r \in Requests, NEW e \in {"deadline", "stop"}, Emits(r, e) PROVE ClientInv'
  BY <1>1, <1>4, EmitsKeeps
<1>5. ASSUME NEW r \in Requests, OperationCompletes(r) PROVE ClientInv'
  BY <1>1, <1>5, OperationKeeps
<1>6. ASSUME NEW r \in Requests, WriteCompletes(r) PROVE ClientInv'
  BY <1>1, <1>6, WriteKeeps
<1>7. ASSUME NEW r \in Requests, ReadCompletes(r) PROVE ClientInv'
  BY <1>1, <1>7, ReadCompletesKeeps
<1>8. ASSUME NEW r \in Requests, ServerAnswers(r) PROVE ClientInv'
  BY <1>8, AnswersKeeps
<1>9. ASSUME \/ \E c \in Requests : ServerHangsUp(c)
             \/ \E r \in Requests : DeadlinePasses(r)
             \/ GoesStale \/ ClientStops \/ UNCHANGED clientVars
      PROVE  ClientInv'
  BY <1>9, QuietKeeps
<1>10. ASSUME NEW r \in Requests, PartCompletes(r) PROVE ClientInv'
  BY <1>1, <1>10, PartsKeep
<1>11. QED
  BY <1>2, <1>3, <1>4, <1>5, <1>6, <1>7, <1>8, <1>9, <1>10 DEF ClientNext

(* A client begins with all its permits and no pool. *)
LEMMA ClientInvStarts ==
  ASSUME ClientConstantsOK, ClientInit
  PROVE  ClientInv
<1>1. clientUse \in ClientUses
  BY DEF ClientInit
<1>2. /\ Requests \subseteq Nat \ {0} /\ IsFiniteSet(Requests)
      /\ \A r \in Requests : Origin(r) \in Origins /\ Origin(r) # Global
      /\ \A g \in Gates : Capacity(g) \in Nat \ {0}
  BY <1>1, UseKnown
<1>3. /\ \A r \in Requests :
           /\ req[r].at = "free" /\ req[r].ev = "none" /\ req[r].holds = {} /\ req[r].conn = NoConn
           /\ req[r].out = "none"
           /\ conns[r].sent = <<>> /\ conns[r].back = <<>> /\ edges[r] = {}
      /\ \A g \in Gates : gate[g].taken = 0 /\ gate[g].queue = <<>>
      /\ \A o \in Origins : pools[o] = NoPool
      /\ idle.kept = {} /\ idle.count = 0 /\ idle.now = 0 /\ \A r \in Requests : idle.since[r] = 0
      /\ late = {} /\ clientStop = FALSE
  BY DEF ClientInit
<1>4. ClientTypeOK
  <2>1. [at |-> "free", ev |-> "none", missed |-> "none", holds |-> {}, conn |-> NoConn,
         got |-> [req |-> 0, kind |-> "none"], out |-> "none"] \in ReqType
    BY DEF ReqType, Phases, Events, Outcomes, NoResponse
  <2>2. req \in [Requests -> ReqType]
    BY <2>1 DEF ClientInit
  <2>3. idle \in IdleType
    BY DEF ClientInit, IdleType
  <2>4. conns \in [Requests -> ConnType]
    <3>1. [sent |-> <<>>, back |-> <<>>, told |-> FALSE, open |-> FALSE] \in ConnType
      BY DEF ConnType
    <3>2. QED
      BY <3>1 DEF ClientInit
  <2>5. gate \in [Gates -> [taken : Nat, queue : Seq(Requests)]]
    <3>1. [taken |-> 0, queue |-> <<>>] \in [taken : Nat, queue : Seq(Requests)]
      OBVIOUS
    <3>2. QED
      BY <3>1 DEF ClientInit
  <2>6. /\ edges \in [Requests -> SUBSET {"deadline", "stop"}] /\ late \subseteq Requests
        /\ pools \in [Origins -> Nat \cup {NoPool}] /\ clientStop \in BOOLEAN
    BY DEF ClientInit
  <2>7. QED
    BY <1>1, <2>2, <2>3, <2>4, <2>5, <2>6 DEF ClientTypeOK
<1>5. \A r \in Requests : ~ Active(r) /\ ~ Made(r)
  BY <1>2, <1>3 DEF Active, Made, NoConn
<1>6. Cardinality({}) = 0
  BY FS_EmptySet
<1>7. PhasesRight
  BY <1>3, <1>5 DEF PhasesRight, PhaseRight
<1>8. GatesRight
  <2>1. ASSUME NEW g \in Gates PROVE GateRight(g)
    <3>1. Holders(g) = {} /\ DOMAIN gate[g].queue = {}
      BY <1>3 DEF Holders
    <3>2. QED
      BY <1>2, <1>3, <1>6, <3>1 DEF GateRight
  <2>2. QED
    BY <2>1 DEF GatesRight
<1>9. IdleRight
  BY <1>3, <1>6 DEF IdleRight, ClientConstantsOK
<1>10. PoolsRight
  <2>1. \A o \in Origins : Users(o) = {} /\ OfPool(o) = {}
    BY <1>3, <1>5 DEF Users, OfPool
  <2>2. QED
    BY <1>3, <2>1 DEF PoolsRight
<1>11. ConnsRight
  BY <1>3, <1>5 DEF ConnsRight
<1>12. ContentRight
  <2>1. \A c \in Requests : Clean(c)
    BY <1>3 DEF Clean
  <2>2. \A r \in Requests : ~ Writing(r) /\ ~ Final(r) /\ ~ Asked(r)
    BY <1>3 DEF Writing, Final, Asked
  <2>3. QED
    BY <1>3, <2>1, <2>2 DEF ContentRight
<1>13. EventsRight /\ OutcomesTrue
  BY <1>3 DEF EventsRight, OutcomesTrue
<1>14. QED
  BY <1>4, <1>7, <1>8, <1>9, <1>10, <1>11, <1>12, <1>13 DEF ClientInv

(* What the invariant says of permits, pools and connections. *)
LEMMA LimitsFollow ==
  ASSUME ClientConstantsOK, ClientInv
  PROVE  LimitsHold
<1>1. clientUse \in ClientUses /\ GatesRight /\ IdleRight /\ ConnsRight /\ PoolsRight
  BY DEF ClientInv, ClientTypeOK
<1>2. IsFiniteSet(Requests)
  BY <1>1, UseKnown
<1>3. ASSUME NEW g \in Gates
      PROVE  /\ gate[g].taken = Cardinality({r \in Requests : g \in req[r].holds})
             /\ gate[g].taken <= Capacity(g) /\ (gate[g].queue # <<>> => gate[g].taken = Capacity(g))
             /\ \A k \in DOMAIN gate[g].queue : req[gate[g].queue[k]].ev = "pending"
  BY <1>1 DEF GatesRight, GateRight, Holders, WaitsAt
<1>4. idle.count = Cardinality(idle.kept) /\ idle.count <= MaxIdle
  BY <1>1 DEF IdleRight
<1>5. ASSUME NEW r \in Requests, Active(r), req[r].conn # NoConn
      PROVE  /\ \A q \in Requests \ {r} : Active(q) => req[q].conn # req[r].conn
             /\ req[r].conn \notin idle.kept /\ Origin(req[r].conn) = Origin(r)
  BY <1>1, <1>5 DEF ConnsRight
<1>6. ASSUME NEW o \in Origins
      PROVE  LET users == Cardinality({r \in Requests : Active(r) /\ Origin(r) = o})
             IN  pools[o] = IF users = 0 /\ OfPool(o) = {} THEN NoPool ELSE users
  <2>1. pools[o] = IF Users(o) = {} /\ OfPool(o) = {} THEN NoPool ELSE Cardinality(Users(o))
    BY <1>1 DEF PoolsRight
  <2>2. IsFiniteSet(Users(o))
    BY <1>2, FS_Subset DEF Users
  <2>3. Cardinality(Users(o)) = 0 <=> Users(o) = {}
    BY <2>2, FS_EmptySet
  <2>4. pools[o] = IF Cardinality(Users(o)) = 0 /\ OfPool(o) = {} THEN NoPool ELSE Cardinality(Users(o))
    BY <2>1, <2>3
  <2>5. QED
    BY <2>4 DEF Users
<1>7. QED
  BY <1>3, <1>4, <1>5, <1>6 DEF LimitsHold

(* The invariant holds throughout. *)
LEMMA ClientInvHolds == ASSUME ClientConstantsOK PROVE ClientSpec => []ClientInv
<1>1. ASSUME ClientInit PROVE ClientInv
  BY <1>1, ClientInvStarts
<1>2. ASSUME ClientInv, [ClientNext]_clientVars PROVE ClientInv'
  BY <1>2, ClientInvKeeps
<1>3. QED
  BY <1>1, <1>2, PTL DEF ClientSpec

(* However requests, deadlines, stops and servers interleave, no permit of *)
(* the HTTP client is lost or given twice, no limit is passed, nobody      *)
(* waits at a gate that has room, a connection serves one request at a     *)
(* time and only its origin, and the count of idle connections and the     *)
(* users of every pool are exact.                                          *)
THEOREM ClientLimitsHold == ASSUME ClientConstantsOK PROVE ClientSpec => []LimitsHold
<1>1. ClientSpec => []ClientInv
  BY ClientInvHolds
<1>2. ASSUME ClientInv PROVE LimitsHold
  BY <1>2, LimitsFollow
<1>3. QED
  BY <1>1, <1>2, PTL

(* A request gets the answer to itself, also on a connection that served   *)
(* others before; "timeout" and "cancelled" are told only after the        *)
(* deadline and after a stop.                                              *)
THEOREM ClientOutcomesTrue == ASSUME ClientConstantsOK PROVE ClientSpec => []OutcomesTrue
<1>1. ClientSpec => []ClientInv
  BY ClientInvHolds
<1>2. ASSUME ClientInv PROVE OutcomesTrue
  BY <1>2 DEF ClientInv
<1>3. QED
  BY <1>1, <1>2, PTL
=============================================================================
