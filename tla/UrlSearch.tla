------------------------------ MODULE UrlSearch ------------------------------
(***************************************************************************)
(* URL and URLSearchParams (src/url, src/globals/url_binding.cpp and       *)
(* url_search_params_binding.cpp): the query is kept twice, as the text of *)
(* the URL and as the live list of pairs its searchParams are, and each    *)
(* writes to the other.  Iterators and forEach walk the list by an index   *)
(* while the script, or the callback itself, changes it; the URL may be    *)
(* collected while its searchParams, or an iterator, live on.              *)
(*                                                                         *)
(* Parsing and serializing belong to Ada: a text is the pairs it parses to. *)
(***************************************************************************)
EXTENDS Integers, Sequences, FiniteSets, SequencesExt

CONSTANTS
  Urls,     \* URL objects
  Names,    \* numbers, in the order sort takes
  Values,
  Walkers,  \* iterators
  MaxPairs, \* bound: pairs of a list
  MaxForEach  \* bound: forEach calls under way

NoUrl == "none"
ASSUME UrlConstantsOK == "own" \notin Urls /\ NoUrl \notin Urls /\ MaxPairs \in Nat

Bags == Urls \cup {"own"}  \* the live list of each URL; new URLSearchParams
Pair == [name : Names, value : Values]
Lists == UNION {[1 .. n -> Pair] : n \in 0 .. MaxPairs}

VARIABLES
  url,    \* none, held or gone, and the text of its query
  bag,    \* whether it was made, its pairs, Url* owner_
  walker, \* iterators: the list, the next index, and what they gave
  calls   \* the forEach calls, the innermost last

urlVars == <<url, bag, walker, calls>>

(* A walk: what it gave, until something but an append changes the list. *)
Walk(b) == [bag |-> b, index |-> 0, seen |-> <<>>, steady |-> TRUE, ended |-> FALSE]
NoWalk == Walk(NoUrl)

UrlInit ==
  /\ url = [u \in Urls |-> [life |-> "none", query |-> <<>>]]
  /\ bag = [b \in Bags |-> [made |-> FALSE, pairs |-> <<>>, owner |-> NoUrl]]
  /\ walker = [w \in Walkers |-> NoWalk] /\ calls = <<>>

-----------------------------------------------------------------------------
Disturbed(walk, b) == IF walk.bag = b THEN [walk EXCEPT !.steady = FALSE, !.seen = <<>>] ELSE walk
Disturbs(bs) ==
  /\ walker' = [w \in Walkers |-> IF walker[w].bag \in bs THEN Disturbed(walker[w], walker[w].bag) ELSE walker[w]]
  /\ calls' = [i \in DOMAIN calls |-> IF calls[i].bag \in bs THEN Disturbed(calls[i], calls[i].bag) ELSE calls[i]]

(* new URL(input) *)
NewUrl(u, t) ==
  /\ url[u].life = "none" /\ url' = [url EXCEPT ![u] = [life |-> "held", query |-> t]]
  /\ UNCHANGED <<bag, walker, calls>>

(* Url::search_params: the list is made from the text once, and attached. *)
SearchParams(u) ==
  /\ url[u].life = "held" /\ ~bag[u].made
  /\ bag' = [bag EXCEPT ![u] = [made |-> TRUE, pairs |-> url[u].query, owner |-> u]]
  /\ UNCHANGED <<url, walker, calls>>

(* Mutant: the live list is left as it was. *)
SetsTextOnly(u, t) ==
  /\ url[u].life = "held" /\ url' = [url EXCEPT ![u].query = t]
  /\ UNCHANGED <<bag, walker, calls>>

(* Url::set_search: the live list is read again, without an echo. *)
SetSearch(u, t) ==
  /\ url[u].life = "held" /\ url' = [url EXCEPT ![u].query = t]
  /\ IF bag[u].made THEN bag' = [bag EXCEPT ![u].pairs = t] /\ Disturbs({u})
     ELSE UNCHANGED <<bag, walker, calls>>

(* new URLSearchParams(init) *)
NewParams(t) ==
  /\ ~bag["own"].made
  /\ bag' = [bag EXCEPT !["own"] = [made |-> TRUE, pairs |-> t, owner |-> NoUrl]]
  /\ UNCHANGED <<url, walker, calls>>

(* Every mutation of a list is written to the URL that owns it (bound: a    *)
(* list of at most MaxPairs pairs).                                        *)
Becomes(b, pairs) ==
  /\ bag[b].made /\ pairs \in Lists
  /\ bag' = [bag EXCEPT ![b].pairs = pairs]
  /\ url' = IF bag[b].owner = NoUrl THEN url
            ELSE [url EXCEPT ![bag[b].owner].query = pairs]

AppendPair(b, p) == Becomes(b, Append(bag[b].pairs, p)) /\ UNCHANGED <<walker, calls>>

(* set: the first pair of that name has the value, the others go. *)
SetPair(b, p) ==
  LET old == bag[b].pairs
      Named(i) == old[i].name = p.name
      first == CHOOSE i \in DOMAIN old : Named(i) /\ \A j \in 1 .. i - 1 : ~Named(j)
      Kept(i) == ~Named(i) \/ i = first IN
  /\ IF \E i \in DOMAIN old : Named(i)
     THEN Becomes(b, [k \in DOMAIN SelectSeq([i \in DOMAIN old |-> i], Kept) |->
                       LET i == SelectSeq([n \in DOMAIN old |-> n], Kept)[k] IN IF i = first THEN p ELSE old[i]])
     ELSE Becomes(b, Append(old, p))
  /\ Disturbs({b})

(* delete(name), delete(name, value) *)
DeleteName(b, n) == Becomes(b, SelectSeq(bag[b].pairs, LAMBDA q : q.name # n)) /\ Disturbs({b})
DeletePair(b, p) == Becomes(b, SelectSeq(bag[b].pairs, LAMBDA q : q # p)) /\ Disturbs({b})

(* sort, by name and stable *)
Sort(b) ==
  LET old == bag[b].pairs
      Before(i, j) == old[i].name < old[j].name \/ (old[i].name = old[j].name /\ i < j) IN
  /\ Becomes(b, LET order == SetToSortSeq(DOMAIN old, Before) IN [k \in DOMAIN old |-> old[order[k]]])
  /\ Disturbs({b})

-----------------------------------------------------------------------------
(* entries, keys and values: an iterator shares the list. *)
Iterate(w, b) ==
  /\ bag[b].made /\ walker[w] = NoWalk /\ walker' = [walker EXCEPT ![w] = Walk(b)]
  /\ UNCHANGED <<url, bag, calls>>

(* Mutant: the last pair is taken for the end. *)
StepsShort(walk) ==
  LET pairs == bag[walk.bag].pairs IN
  IF walk.index + 1 >= Len(pairs) THEN [walk EXCEPT !.ended = TRUE]
  ELSE [walk EXCEPT !.index = @ + 1,
                    !.seen = IF walk.steady THEN Append(@, pairs[walk.index + 1]) ELSE @]

(* One step of a walk: the pair at its index, or its end. *)
Advanced(walk) ==
  LET pairs == bag[walk.bag].pairs IN
  IF walk.index >= Len(pairs) THEN [walk EXCEPT !.ended = TRUE]
  ELSE [walk EXCEPT !.index = @ + 1,
                    !.seen = IF walk.steady THEN Append(@, pairs[walk.index + 1]) ELSE @]

(* next: an iterator that has ended goes on when the list has grown. *)
IteratorNext(w) ==
  /\ walker[w].bag # NoUrl
  /\ walker' = [walker EXCEPT ![w] = Advanced([@ EXCEPT !.ended = FALSE])]
  /\ UNCHANGED <<url, bag, calls>>

(* forEach: the callback runs between two steps of the innermost call.  It *)
(* ends with the list, or by an exception of the callback.                 *)
ForEach(b) ==
  /\ bag[b].made /\ Len(calls) < MaxForEach /\ calls' = Append(calls, Walk(b))
  /\ UNCHANGED <<url, bag, walker>>
ForEachStep ==
  /\ calls # <<>> /\ ~Last(calls).ended
  /\ calls' = [calls EXCEPT ![Len(calls)] = Advanced(@)]
  /\ UNCHANGED <<url, bag, walker>>
ForEachEnds ==
  /\ calls # <<>> /\ Last(calls).ended /\ calls' = Front(calls)
  /\ UNCHANGED <<url, bag, walker>>
ForEachThrows ==
  /\ calls # <<>> /\ ~Last(calls).ended /\ Last(calls).index > 0 /\ calls' = Front(calls)
  /\ UNCHANGED <<url, bag, walker>>

(* ~Url, from the finalizer of a URL nobody holds. *)
CollectUrl(u) ==
  /\ url[u].life = "held" /\ url' = [url EXCEPT ![u] = [life |-> "gone", query |-> <<>>]]
  /\ bag' = [bag EXCEPT ![u].owner = NoUrl]
  /\ UNCHANGED <<walker, calls>>

(* Nothing comes between the end of forEach and its return. *)
Script ==
  \/ \E u \in Urls, t \in Lists : NewUrl(u, t) \/ SetSearch(u, t)
  \/ \E u \in Urls : SearchParams(u) \/ CollectUrl(u)
  \/ \E t \in Lists : NewParams(t)
  \/ \E b \in Bags, p \in Pair : AppendPair(b, p) \/ SetPair(b, p) \/ DeletePair(b, p)
  \/ \E b \in Bags, n \in Names : DeleteName(b, n)
  \/ \E b \in Bags : Sort(b) \/ ForEach(b) \/ \E w \in Walkers : Iterate(w, b)
  \/ \E w \in Walkers : IteratorNext(w)
  \/ ForEachStep \/ ForEachThrows
UrlNext == ForEachEnds \/ ((\A i \in DOMAIN calls : ~calls[i].ended) /\ Script)

UrlSpec == UrlInit /\ [][UrlNext]_urlVars

-----------------------------------------------------------------------------
(* The list and the text never disagree, whichever of the two was written, *)
(* and a list writes to no URL but a living one whose list it is           *)
(* (SearchParams::owner_).                                                 *)
Coherent ==
  \A b \in Bags : bag[b].owner # NoUrl =>
    /\ bag[b].owner = b /\ url[b].life = "held"
    /\ url[b].query = bag[b].pairs

(* A walk over a list that only grew gives every pair once and in order,   *)
(* the ones appended behind it included, and ends only with the list.      *)
Faithful(walk) ==
  walk.bag # NoUrl /\ walk.steady =>
    /\ IsPrefix(walk.seen, bag[walk.bag].pairs)
    /\ Len(walk.seen) = walk.index
Finished(walk, next) == ~walk.ended /\ next.ended /\ next.steady => walk.seen = bag[walk.bag].pairs
WalksWhole ==
  /\ [](/\ \A w \in Walkers : Faithful(walker[w])
        /\ \A i \in DOMAIN calls : Faithful(calls[i]))
  /\ [][/\ \A w \in Walkers : Finished(walker[w], walker'[w])
        /\ Len(calls') = Len(calls) => \A i \in DOMAIN calls : Finished(calls[i], calls'[i])]_urlVars
=============================================================================
