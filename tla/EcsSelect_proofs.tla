-------------------------- MODULE EcsSelect_proofs --------------------------
(***************************************************************************)
(* Proofs about EcsSelect for every set of addresses, every GeoIP database, *)
(* every header, default list and jail: the lists of IPs and of countries   *)
(* stay aligned through the loop that cuts entries out of both, no country  *)
(* is asked twice, and the cache key covers what is asked.  The three hold  *)
(* together with the type invariant: none of them needs to know how far a   *)
(* loop has come.  What the jail loop keeps, what slips past it, and that   *)
(* the client's own subnet stays first, does: a second invariant relates    *)
(* the loops' lists to the list of addresses they started from.  A third    *)
(* one says exactly which countries the jail loop cuts.                     *)
(***************************************************************************)
EXTENDS EcsSelect, SequenceTheorems, TLAPS

IInv == TypeOK /\ Aligned /\ OneQueryPerCountry /\ KeyCoversQuery

\* What cutting the k-th entry out of a sequence leaves.
LEMMA RemoveAtProperties ==
  ASSUME NEW S, NEW s \in Seq(S), NEW k \in 1..Len(s)
  PROVE  /\ RemoveAt(s, k) \in Seq(S)
         /\ Len(RemoveAt(s, k)) = Len(s) - 1
         /\ \A j \in 1..(Len(s) - 1) : RemoveAt(s, k)[j] = IF j < k THEN s[j] ELSE s[j + 1]
<1> DEFINE l == SubSeq(s, 1, k - 1)
           r == SubSeq(s, k + 1, Len(s))
<1>1. Len(s) \in Nat /\ k \in Nat /\ k - 1 \in 0..Len(s)
  BY LenProperties
<1>2. l \in Seq(S) /\ Len(l) = k - 1 /\ \A j \in 1..(k - 1) : l[j] = s[j]
  BY <1>1, SubSeqProperties
<1>3. r \in Seq(S) /\ Len(r) = Len(s) - k /\ \A j \in 1..(Len(s) - k) : r[j] = s[k + j]
  BY <1>1, SubSeqProperties
<1> HIDE DEF l, r
<1>4. /\ l \o r \in Seq(S)
      /\ Len(l \o r) = Len(s) - 1
      /\ \A j \in 1..(Len(s) - 1) :
           (l \o r)[j] = IF j <= k - 1 THEN l[j] ELSE r[j - (k - 1)]
  <2>1. Len(l) + Len(r) = Len(s) - 1
    BY <1>1, <1>2, <1>3
  <2>2. /\ l \o r \in Seq(S) /\ Len(l \o r) = Len(l) + Len(r)
        /\ \A j \in 1..(Len(l) + Len(r)) :
             (l \o r)[j] = IF j <= Len(l) THEN l[j] ELSE r[j - Len(l)]
    BY <1>2, <1>3, ConcatProperties
  <2> QED
    BY <1>2, <2>1, <2>2
<1>5. \A j \in 1..(Len(s) - 1) : (l \o r)[j] = IF j < k THEN s[j] ELSE s[j + 1]
  <2> SUFFICES ASSUME NEW j \in 1..(Len(s) - 1)
               PROVE  (l \o r)[j] = IF j < k THEN s[j] ELSE s[j + 1]
    OBVIOUS
  <2>0. j < k \/ j >= k
    BY <1>1
  <2>1. CASE j < k
    BY <1>1, <1>2, <1>4, <2>1
  <2>2. CASE j >= k
    <3>1. j - (k - 1) \in 1..(Len(s) - k) /\ k + (j - (k - 1)) = j + 1
      BY <1>1, <2>2
    <3> QED
      BY <1>1, <1>3, <1>4, <2>2, <3>1
  <2> QED BY <2>0, <2>1, <2>2
<1>6. RemoveAt(s, k) = l \o r
  BY DEF RemoveAt, l, r
<1> QED
  BY <1>4, <1>5, <1>6

\* Types of the parameters and of the records a query is read from.
LEMMA InputTypes ==
  ASSUME TypeOK, NEW k \in 1..Len(list)
  PROVE  list[k] \in Addr \cup {NoIP}
  BY ElementOfSeq DEF TypeOK

\* The initial state satisfies the invariant.
LEMMA InitIInv == Init => IInv
  BY AddrAssumption DEF Init, IInv, TypeOK, InputsOK, Aligned, OneQueryPerCountry, IsInjective,
     KeyCoversQuery, AddrAssumption

\* Appending the first IP of a country keeps the lists aligned, the countries
\* distinct and the key complete.
LEMMA ParseIInv ==
  ASSUME IInv, Parse
  PROVE  IInv'
<1> DEFINE a == list[i]
<1>1. i \in 1..Len(list) /\ a \in Addr \cup {NoIP}
  BY InputTypes, LenProperties DEF IInv, TypeOK, Parse
<1>2. CASE a = NoIP \/ Known(a)
  BY <1>2 DEF IInv, TypeOK, InputsOK, Aligned, OneQueryPerCountry, KeyCoversQuery, Parse, inputs
<1>3. CASE ~(a = NoIP \/ Known(a))
  <2>1. /\ a \in Addr /\ Country[a] \in Countries /\ Place(a) \in Countries \X States
        /\ ips' = Append(ips, a) /\ codes' = Append(codes, Country[a])
        /\ key' = Append(key, Place(a))
        /\ UNCHANGED <<query, config, pc, list>> /\ i' = i + 1
    BY <1>1, <1>3, AddrAssumption DEF Parse, Place, KeyPart, AddrAssumption, inputs
  <2>2. /\ Len(ips) \in Nat /\ Len(codes) \in Nat /\ Len(key) \in Nat
        /\ Len(ips) = Len(codes)
    BY LenProperties DEF IInv, TypeOK, Aligned
  <2>3. /\ ips' \in Seq(Addr) /\ Len(ips') = Len(ips) + 1
        /\ ips'[Len(ips) + 1] = a
        /\ \A k \in 1..Len(ips) : ips'[k] = ips[k]
    BY <2>1, AppendProperties DEF IInv, TypeOK
  <2>4. /\ codes' \in Seq(Countries) /\ Len(codes') = Len(codes) + 1
        /\ codes'[Len(codes) + 1] = Country[a]
        /\ \A k \in 1..Len(codes) : codes'[k] = codes[k]
    BY <2>1, AppendProperties DEF IInv, TypeOK
  <2>5. /\ key' \in Seq(Countries \X States) /\ Len(key') = Len(key) + 1
        /\ key'[Len(key) + 1] = Place(a)
        /\ \A k \in 1..Len(key) : key'[k] = key[k]
    BY <2>1, AppendProperties DEF IInv, TypeOK
  <2>6. TypeOK'
    BY <2>1, <2>3, <2>4, <2>5 DEF IInv, TypeOK, InputsOK
  <2>7. Aligned'
    BY <2>2, <2>3, <2>4 DEF IInv, Aligned
  <2>8. OneQueryPerCountry'
    <3>1. \A k \in 1..Len(codes) : codes[k] # Country[a]
      BY <1>3 DEF Known, Contains
    <3>2. DOMAIN codes = 1..Len(codes) /\ DOMAIN codes' = 1..(Len(codes) + 1)
      BY <2>2, <2>4, LenProperties DEF IInv, TypeOK
    <3> QED
      BY <2>2, <2>4, <3>1, <3>2 DEF IInv, OneQueryPerCountry, IsInjective
  <2>9. KeyCoversQuery'
    <3>1. \A b : Place(b)' = Place(b)
      BY DEF Place
    <3>2. ASSUME NEW k \in 1..Len(ips') PROVE \E j \in 1..Len(key') : key'[j] = Place(ips'[k])
      <4>1. CASE k = Len(ips) + 1
        BY <2>2, <2>3, <2>5, <4>1
      <4>2. CASE k \in 1..Len(ips)
        BY <2>2, <2>3, <2>5, <4>2 DEF IInv, KeyCoversQuery
      <4> QED BY <2>2, <2>3, <4>1, <4>2
    <3> QED
      BY <3>1, <3>2 DEF KeyCoversQuery
  <2> QED
    BY <2>6, <2>7, <2>8, <2>9 DEF IInv
<1> QED
  BY <1>2, <1>3

\* Cutting the same position out of both lists keeps them aligned.
LEMMA JailCutIInv ==
  ASSUME IInv, JailCut
  PROVE  IInv'
<1>1. /\ Len(codes) \in Nat /\ Len(ips) = Len(codes) /\ i \in 1..Len(codes)
      /\ ips' = RemoveAt(ips, i) /\ codes' = RemoveAt(codes, i)
      /\ UNCHANGED <<query, config, pc, list, key>> /\ i' = i + 1
  BY LenProperties DEF IInv, TypeOK, Aligned, JailCut, Cut, Unchecked, inputs
<1>2. /\ ips' \in Seq(Addr) /\ Len(ips') = Len(ips) - 1
      /\ \A j \in 1..(Len(ips) - 1) : ips'[j] = IF j < i THEN ips[j] ELSE ips[j + 1]
  <2>1. ips \in Seq(Addr) /\ i \in 1..Len(ips)
    BY <1>1 DEF IInv, TypeOK
  <2> QED
    BY <1>1, <2>1, RemoveAtProperties
<1>3. /\ codes' \in Seq(Countries) /\ Len(codes') = Len(codes) - 1
      /\ \A j \in 1..(Len(codes) - 1) : codes'[j] = IF j < i THEN codes[j] ELSE codes[j + 1]
  <2>1. codes \in Seq(Countries) /\ i \in 1..Len(codes)
    BY <1>1 DEF IInv, TypeOK
  <2> QED
    BY <1>1, <2>1, RemoveAtProperties
<1>4. TypeOK'
  BY <1>1, <1>2, <1>3 DEF IInv, TypeOK, InputsOK
<1>5. Aligned'
  <2>1. ASSUME NEW j \in 1..Len(ips') PROVE codes'[j] = Country[ips'[j]]
    <3>1. j \in 1..(Len(ips) - 1) /\ j \in 1..Len(ips) /\ j + 1 \in 1..Len(ips)
      BY <1>1, <1>2
    <3>2. codes[j] = Country[ips[j]] /\ codes[j + 1] = Country[ips[j + 1]]
      BY <3>1 DEF IInv, Aligned
    <3> QED
      BY <1>1, <1>2, <1>3, <3>1, <3>2
  <2>2. Len(ips') = Len(codes')
    BY <1>1, <1>2, <1>3
  <2> QED
    BY <2>1, <2>2 DEF Aligned
<1>6. OneQueryPerCountry'
  <2>1. DOMAIN codes = 1..Len(codes) /\ DOMAIN codes' = 1..(Len(codes) - 1)
    BY <1>3, LenProperties DEF IInv, TypeOK
  <2> QED
    BY <1>1, <1>3, <2>1 DEF IInv, OneQueryPerCountry, IsInjective
<1>7. KeyCoversQuery'
  <2>1. \A b : Place(b)' = Place(b)
    BY DEF Place
  <2>2. \A k \in 1..Len(ips') : \E j \in 1..Len(ips) : ips'[k] = ips[j]
    BY <1>1, <1>2
  <2> QED
    BY <1>1, <2>1, <2>2 DEF IInv, KeyCoversQuery
<1> QED
  BY <1>4, <1>5, <1>6, <1>7 DEF IInv

\* The steps that build the list of candidates keep it a list of addresses.
LEMMA ListIInv ==
  ASSUME IInv, Start \/ TakeHeader \/ HeaderEnds
  PROVE  IInv'
<1>1. UNCHANGED <<query, config, ips, codes, key>>
  BY DEF Start, TakeHeader, HeaderEnds, inputs
<1>2. list' \in Seq(Addr \cup {NoIP})
  <2>1. CASE Start
    <3>1. query.ecs \in Addr \cup {NoIP}
      BY DEF IInv, TypeOK, InputsOK
    <3>2. <<query.ecs>> \in Seq(Addr \cup {NoIP}) /\ <<>> \in Seq(Addr \cup {NoIP})
      BY <3>1
    <3> QED
      BY <2>1, <3>2 DEF Start, RequestECS
  <2>2. CASE TakeHeader
    BY <2>2, AddrAssumption, AppendProperties DEF TakeHeader, IInv, TypeOK, AddrAssumption
  <2>3. CASE HeaderEnds
    <3>1. WithClient(list) \in Seq(Addr \cup {NoIP})
      BY AddrAssumption, AppendProperties DEF WithClient, IInv, TypeOK, AddrAssumption
    <3>2. config.defaults \in Seq(Addr \cup {NoIP})
      <4>1. config.defaults \in Seq(Public) /\ Public \subseteq Addr \cup {NoIP}
        BY AddrAssumption DEF IInv, TypeOK, InputsOK, AddrAssumption
      <4> QED
        BY <4>1, SeqMonotonic
    <3> QED
      BY <2>3, <3>1, <3>2, ConcatProperties DEF HeaderEnds, WithDefaults
  <2> QED BY <2>1, <2>2, <2>3
<1>3. TypeOK'
  BY <1>1, <1>2 DEF IInv, TypeOK, InputsOK, Start, TakeHeader, HeaderEnds
<1>4. Aligned' /\ OneQueryPerCountry' /\ KeyCoversQuery'
  BY <1>1 DEF IInv, Aligned, OneQueryPerCountry, KeyCoversQuery, Place
<1> QED
  BY <1>3, <1>4 DEF IInv

\* The invariant is inductive.
LEMMA NextIInv == IInv /\ [Next]_vars => IInv'
<1> SUFFICES ASSUME IInv, [Next]_vars PROVE IInv'
  OBVIOUS
<1>1. ASSUME AnswerEmpty \/ ParseEnds \/ JailKeep \/ Dispatch \/ UNCHANGED vars PROVE IInv'
  <2>1. UNCHANGED <<query, config, list, ips, codes, key>>
    BY <1>1 DEF AnswerEmpty, ParseEnds, JailKeep, Dispatch, vars, inputs
  <2>2. TypeOK'
    BY <1>1, <2>1 DEF AnswerEmpty, ParseEnds, JailKeep, Dispatch, vars, IInv, TypeOK, InputsOK
  <2>3. Aligned' /\ OneQueryPerCountry' /\ KeyCoversQuery'
    BY <2>1 DEF IInv, Aligned, OneQueryPerCountry, KeyCoversQuery, Place
  <2> QED
    BY <2>2, <2>3 DEF IInv
<1> QED
  BY <1>1, ParseIInv, JailCutIInv, ListIInv DEF Next, Terminated

\* Type correctness for every address space and GeoIP database.
THEOREM TypeCorrect == Spec => []TypeOK
<1>1. IInv => TypeOK
  BY DEF IInv
<1> QED
  BY <1>1, InitIInv, NextIInv, PTL DEF Spec

\* An answer is always checked against the country of the IP it was asked
\* for: the in-place cuts of the jail loop never shift one list alone.
THEOREM AlignedTheorem == Spec => []Aligned
<1>1. IInv => Aligned
  BY DEF IInv
<1> QED
  BY <1>1, InitIInv, NextIInv, PTL DEF Spec

\* No lookup asks twice about a country.
THEOREM OneQueryPerCountryTheorem == Spec => []OneQueryPerCountry
<1>1. IInv => OneQueryPerCountry
  BY DEF IInv
<1> QED
  BY <1>1, InitIInv, NextIInv, PTL DEF Spec

\* The cache key names the place of every IP that is asked.
THEOREM KeyCoversQueryTheorem == Spec => []KeyCoversQuery
<1>1. IInv => KeyCoversQuery
  BY DEF IInv
<1> QED
  BY <1>1, InitIInv, NextIInv, PTL DEF Spec
-----------------------------------------------------------------------------
(* What the loops keep.  This invariant does know how far they have come.    *)

Own == query.ecs \in Public

\* The addresses taken are addresses of the first n of the list ...
Taken(n) == \A m \in 1..Len(ips) : \E j \in 1..n : list[j] = ips[m] /\ list[j] # NoIP

\* ... and each country of these that is not jailed keeps its first address.
Kept(n) ==
  \A k \in 1..n :
    (list[k] # NoIP /\ Country[list[k]] \notin config.jails) =>
      \E j \in 1..k : /\ list[j] # NoIP
                      /\ Country[list[j]] = Country[list[k]]
                      /\ Contains(ips, list[j])

OwnFirst == Len(ips) >= 1 /\ ips[1] = query.ecs

Cuts == Len(key) - Len(codes)

Shadowed(k) ==
  (key[k][1] \in config.jails /\ Contains(codes, key[k][1])) =>
    /\ k > 1
    /\ key[k - 1][1] \in config.jails
    /\ ~Contains(codes, key[k - 1][1])

ParseInv ==
  /\ i <= Len(list) + 1 /\ (i = 1 => codes = <<>>)
  /\ Len(key) = Len(codes) /\ \A j \in 1..Len(codes) : codes[j] = key[j][1]
  /\ Taken(i - 1) /\ Kept(i - 1)
  /\ Own /\ i > 1 => OwnFirst

\* The entries still to come are those of the key that lie as many places further
\* as entries were cut; those the loop went past are kept, cut, or shadowed.
JailInv ==
  /\ Len(codes) <= Len(key)
  /\ \A j \in i..Len(codes) : codes[j] = key[j + Cuts][1]
  /\ \A k \in 1..Len(key) : k < i + Cuts => Shadowed(k)

LInv ==
  /\ pc \in {"received", "header"} => ips = <<>> /\ codes = <<>> /\ key = <<>>
  /\ pc \in {"header", "parse"} /\ Own => Len(list) >= 1 /\ list[1] = query.ecs
  /\ pc = "parse" => ParseInv
  /\ pc \in {"jail", "single", "fanout"} =>
       Kept(Len(list)) /\ (Own /\ Country[query.ecs] \notin config.jails => OwnFirst)
  /\ pc = "jail" => JailInv
  /\ pc \in {"single", "fanout"} => \A k \in 1..Len(key) : Shadowed(k)

\* The handlers put the client's own subnet first.
LEMMA BuildLInv ==
  ASSUME IInv, LInv, Start \/ TakeHeader \/ HeaderEnds
  PROVE  LInv'
<1>1. /\ UNCHANGED <<query, config, ips, codes, key>>
      /\ pc \in {"received", "header"} /\ pc' \in {"header", "parse"}
      /\ pc' = "parse" => i' = 1
  BY DEF Start, TakeHeader, HeaderEnds, inputs
<1>2. ips = <<>> /\ codes = <<>> /\ key = <<>>
  BY <1>1 DEF LInv
<1>3. list \in Seq(Addr \cup {NoIP}) /\ Len(list) \in Nat
  BY LenProperties DEF IInv, TypeOK
<1>4. Own => Len(list') >= 1 /\ list'[1] = query.ecs
  <2> SUFFICES ASSUME Own PROVE Len(list') >= 1 /\ list'[1] = query.ecs
    OBVIOUS
  <2>1. CASE Start
    BY <2>1 DEF Start, RequestECS, Own
  <2>2. ASSUME pc = "header" PROVE Len(list) >= 1 /\ list[1] = query.ecs
    BY <2>2 DEF LInv
  <2>3. CASE TakeHeader
    BY <1>3, <2>2, <2>3, AddrAssumption, AppendProperties DEF TakeHeader, AddrAssumption
  <2>4. CASE HeaderEnds
    <3> DEFINE l == WithClient(list)
    <3>1. l \in Seq(Addr \cup {NoIP}) /\ Len(l) >= 1 /\ l[1] = query.ecs /\ Len(l) \in Nat
      BY <1>3, <2>2, <2>4, AddrAssumption, AppendProperties, LenProperties
      DEF HeaderEnds, WithClient, AddrAssumption
    <3>2. config.defaults \in Seq(Addr \cup {NoIP})
      <4>1. config.defaults \in Seq(Public) /\ Public \subseteq Addr \cup {NoIP}
        BY AddrAssumption DEF IInv, TypeOK, InputsOK, AddrAssumption
      <4> QED
        BY <4>1, SeqMonotonic
    <3>3. list' = l \o config.defaults
      BY <2>4 DEF HeaderEnds, WithDefaults
    <3> HIDE DEF l
    <3>4. Len(config.defaults) \in Nat
      BY <3>2, LenProperties
    <3> QED
      BY <3>1, <3>2, <3>3, <3>4, ConcatProperties
  <2> QED BY <2>1, <2>3, <2>4
<1>5. list' \in Seq(Addr \cup {NoIP}) /\ Len(list') \in Nat
  BY ListIInv, LenProperties DEF IInv, TypeOK
<1>6. pc' = "parse" => ParseInv'
  BY <1>1, <1>2, <1>5 DEF ParseInv, Taken, Kept, Own
<1> QED
  BY <1>1, <1>2, <1>4, <1>6 DEF LInv, Own

\* Taking an address, or skipping one of a country that has its address, keeps
\* what is known of those before.
LEMMA ParseLInv ==
  ASSUME IInv, LInv, Parse
  PROVE  LInv'
<1> DEFINE a == list[i]
<1>1. /\ i \in 1..Len(list) /\ a \in Addr \cup {NoIP} /\ Len(list) \in Nat
      /\ pc = "parse" /\ i' = i + 1
      /\ UNCHANGED <<query, config, pc, list>>
      /\ Len(ips) \in Nat /\ Len(codes) = Len(ips) /\ Len(key) = Len(codes)
      /\ ParseInv /\ IInv'
  BY InputTypes, LenProperties, ParseIInv DEF IInv, TypeOK, Aligned, Parse, inputs, LInv, ParseInv
<1>2. CASE a = NoIP \/ Known(a)
  <2>1. UNCHANGED <<ips, codes, key>>
    BY <1>2 DEF Parse
  <2>2. \A m \in 1..Len(ips) : \E j \in 1..i : list[j] = ips[m] /\ list[j] # NoIP
    <3>1. Taken(i - 1) /\ 1..(i - 1) \subseteq 1..i
      BY <1>1 DEF ParseInv
    <3> QED
      BY <3>1 DEF Taken
  <2>3. a # NoIP => \E j \in 1..i : /\ list[j] # NoIP /\ Country[list[j]] = Country[a]
                                   /\ Contains(ips, list[j])
    <3> SUFFICES ASSUME a # NoIP
                 PROVE  \E j \in 1..i : /\ list[j] # NoIP /\ Country[list[j]] = Country[a]
                                        /\ Contains(ips, list[j])
      OBVIOUS
    <3>1. PICK m \in 1..Len(codes) : codes[m] = Country[a]
      BY <1>2 DEF Known, Contains
    <3>2. Country[ips[m]] = Country[a] /\ m \in 1..Len(ips)
      BY <1>1, <3>1 DEF IInv, Aligned
    <3>3. PICK j \in 1..i : list[j] = ips[m] /\ list[j] # NoIP
      BY <2>2, <3>2
    <3> QED
      BY <3>2, <3>3 DEF Contains
  <2>4. ASSUME NEW k \in 1..i, list[k] # NoIP, Country[list[k]] \notin config.jails
        PROVE  \E j \in 1..k : /\ list[j] # NoIP
                               /\ Country[list[j]] = Country[list[k]]
                               /\ Contains(ips, list[j])
    <3>1. CASE k = i
      BY <2>3, <2>4, <3>1
    <3>2. CASE k \in 1..(i - 1)
      BY <1>1, <2>4, <3>2 DEF ParseInv, Kept
    <3> QED BY <1>1, <3>1, <3>2
  <2>5. ParseInv'
    <3>1. (i - 1)' = i
      BY <1>1
    <3>2. Taken(i - 1)' /\ Kept(i - 1)'
      BY <1>1, <2>1, <2>2, <2>4, <3>1 DEF Taken, Kept
    <3>3. Own /\ i = 1 => a # NoIP /\ codes = <<>> /\ a = query.ecs
      BY <1>1, AddrAssumption DEF LInv, ParseInv, Own, AddrAssumption
    <3>4. ~(Own /\ i = 1)
      BY <1>2, <3>3 DEF Known, Contains
    <3>5. OwnFirst' <=> OwnFirst
      BY <1>1, <2>1 DEF OwnFirst
    <3>6. Own' <=> Own
      BY <1>1 DEF Own
    <3>7. Own' /\ i' > 1 => OwnFirst'
      BY <1>1, <3>4, <3>5, <3>6 DEF ParseInv
    <3>8. i' =< Len(list') + 1 /\ i' # 1
      BY <1>1
    <3>9. /\ Len(key') = Len(codes')
          /\ \A j \in 1..Len(codes') : codes'[j] = key'[j][1]
      BY <1>1, <2>1 DEF ParseInv
    <3> QED
      BY <3>2, <3>7, <3>8, <3>9 DEF ParseInv
  <2> QED
    BY <1>1, <2>1, <2>5 DEF LInv, Own
<1>3. CASE ~(a = NoIP \/ Known(a))
  <2>1. /\ a \in Addr /\ Country[a] \in Countries /\ Place(a) \in Countries \X States
        /\ Place(a)[1] = Country[a]
        /\ ips' = Append(ips, a) /\ codes' = Append(codes, Country[a])
        /\ key' = Append(key, Place(a))
    BY <1>1, <1>3, AddrAssumption DEF Parse, Place, KeyPart, AddrAssumption
  <2>2. /\ Len(ips') = Len(ips) + 1 /\ ips'[Len(ips) + 1] = a
        /\ \A m \in 1..Len(ips) : ips'[m] = ips[m]
    BY <2>1, AppendProperties DEF IInv, TypeOK
  <2>3. /\ Len(codes') = Len(codes) + 1 /\ codes'[Len(codes) + 1] = Country[a]
        /\ \A m \in 1..Len(codes) : codes'[m] = codes[m]
    BY <2>1, AppendProperties DEF IInv, TypeOK
  <2>4. /\ Len(key') = Len(key) + 1 /\ key'[Len(key) + 1] = Place(a)
        /\ \A m \in 1..Len(key) : key'[m] = key[m]
    BY <2>1, AppendProperties DEF IInv, TypeOK
  <2>5. \A j \in 1..Len(codes') : codes'[j] = key'[j][1]
    <3> SUFFICES ASSUME NEW j \in 1..Len(codes') PROVE codes'[j] = key'[j][1]
      OBVIOUS
    <3>1. CASE j = Len(codes) + 1
      BY <1>1, <2>1, <2>3, <2>4, <3>1
    <3>2. CASE j \in 1..Len(codes)
      BY <1>1, <2>3, <2>4, <3>2 DEF ParseInv
    <3> QED BY <1>1, <2>3, <3>1, <3>2
  <2>6. \A m \in 1..Len(ips') : \E j \in 1..i : list[j] = ips'[m] /\ list[j] # NoIP
    <3> SUFFICES ASSUME NEW m \in 1..Len(ips')
                 PROVE  \E j \in 1..i : list[j] = ips'[m] /\ list[j] # NoIP
      OBVIOUS
    <3>1. CASE m = Len(ips) + 1
      BY <1>1, <1>3, <2>2, <3>1
    <3>2. CASE m \in 1..Len(ips)
      BY <1>1, <2>2, <3>2 DEF ParseInv, Taken
    <3> QED BY <1>1, <2>2, <3>1, <3>2
  <2>7. \A b : Contains(ips, b) => Contains(ips', b)
    <3> SUFFICES ASSUME NEW b, Contains(ips, b) PROVE Contains(ips', b)
      OBVIOUS
    <3>1. PICK m \in 1..Len(ips) : ips[m] = b
      BY DEF Contains
    <3>2. m \in 1..Len(ips') /\ ips'[m] = b
      BY <1>1, <2>2, <3>1
    <3> QED BY <3>2 DEF Contains
  <2>8. Contains(ips', a)
    <3>1. Len(ips) + 1 \in 1..Len(ips')
      BY <1>1, <2>2
    <3> QED BY <2>2, <3>1 DEF Contains
  <2>9. ASSUME NEW k \in 1..i, list[k] # NoIP, Country[list[k]] \notin config.jails
        PROVE  \E j \in 1..k : /\ list[j] # NoIP
                               /\ Country[list[j]] = Country[list[k]]
                               /\ Contains(ips', list[j])
    <3>1. CASE k = i
      BY <1>3, <2>8, <3>1
    <3>2. CASE k \in 1..(i - 1)
      <4>1. PICK j \in 1..k : /\ list[j] # NoIP
                              /\ Country[list[j]] = Country[list[k]]
                              /\ Contains(ips, list[j])
        BY <1>1, <2>9, <3>2 DEF ParseInv, Kept
      <4> QED BY <2>7, <4>1
    <3> QED BY <1>1, <3>1, <3>2
  <2>10. Own => OwnFirst'
    <3> SUFFICES ASSUME Own PROVE OwnFirst'
      OBVIOUS
    <3>1. CASE i = 1
      <4>1. codes = <<>> /\ a = query.ecs
        BY <1>1, <3>1 DEF LInv, ParseInv
      <4> QED BY <1>1, <2>2, <4>1 DEF OwnFirst
    <3>2. CASE i > 1
      BY <1>1, <2>2, <3>2 DEF ParseInv, OwnFirst
    <3> QED BY <1>1, <3>1, <3>2
  <2>11. ParseInv'
    <3>1. i' - 1 = i
      BY <1>1
    <3>2. Taken(i - 1)' /\ Kept(i - 1)'
      BY <1>1, <2>6, <2>9, <3>1 DEF Taken, Kept
    <3> QED
      BY <1>1, <2>3, <2>4, <2>5, <2>10, <3>2 DEF ParseInv, Own
  <2> QED
    BY <1>1, <2>11 DEF LInv, Own
<1> QED
  BY <1>2, <1>3

\* Cutting the entry of a jailed country takes nothing from the others.
LEMMA JailCutLInv ==
  ASSUME IInv, LInv, JailCut
  PROVE  LInv'
<1>1. /\ Len(codes) \in Nat /\ Len(ips) = Len(codes) /\ i \in 1..Len(codes)
      /\ ips' = RemoveAt(ips, i) /\ codes' = RemoveAt(codes, i)
      /\ UNCHANGED <<query, config, pc, list, key>> /\ i' = i + 1
      /\ pc = "jail" /\ codes[i] \in config.jails /\ Len(key) \in Nat
      /\ JailInv /\ Kept(Len(list)) /\ Len(list) \in Nat
  BY LenProperties DEF IInv, TypeOK, Aligned, JailCut, Cut, Unchecked, inputs, LInv
<1>2. /\ Len(ips') = Len(ips) - 1
      /\ \A j \in 1..(Len(ips) - 1) : ips'[j] = IF j < i THEN ips[j] ELSE ips[j + 1]
  <2>1. ips \in Seq(Addr) /\ i \in 1..Len(ips)
    BY <1>1 DEF IInv, TypeOK
  <2> QED
    BY <1>1, <2>1, RemoveAtProperties
<1>3. /\ Len(codes') = Len(codes) - 1
      /\ \A j \in 1..(Len(codes) - 1) : codes'[j] = IF j < i THEN codes[j] ELSE codes[j + 1]
  <2>1. codes \in Seq(Countries) /\ i \in 1..Len(codes)
    BY <1>1 DEF IInv, TypeOK
  <2> QED
    BY <1>1, <2>1, RemoveAtProperties
<1>4. \A b : Contains(codes', b) => Contains(codes, b)
  <2> SUFFICES ASSUME NEW b, Contains(codes', b) PROVE Contains(codes, b)
    OBVIOUS
  <2>1. PICK j \in 1..(Len(codes) - 1) : codes'[j] = b
    BY <1>1, <1>3 DEF Contains
  <2>2. j \in 1..Len(codes) /\ j + 1 \in 1..Len(codes)
    BY <1>1, <2>1
  <2> QED BY <1>3, <2>1, <2>2 DEF Contains
<1>5. ~Contains(codes', codes[i])
  <2> SUFFICES ASSUME NEW j \in 1..(Len(codes) - 1), codes'[j] = codes[i] PROVE FALSE
    BY <1>1, <1>3 DEF Contains
  <2>1. /\ DOMAIN codes = 1..Len(codes)
        /\ j \in DOMAIN codes /\ j + 1 \in DOMAIN codes /\ i \in DOMAIN codes
    BY <1>1, LenProperties DEF IInv, TypeOK
  <2>2. \A m \in DOMAIN codes : codes[m] = codes[i] => m = i
    BY <2>1 DEF IInv, OneQueryPerCountry, IsInjective
  <2>3. CASE j < i
    BY <1>1, <1>3, <2>1, <2>2, <2>3
  <2>4. CASE j >= i
    BY <1>1, <1>3, <2>1, <2>2, <2>4
  <2> QED BY <1>1, <2>3, <2>4
<1>6. Kept(Len(list))'
  <2> SUFFICES ASSUME NEW k \in 1..Len(list),
                      list[k] # NoIP, Country[list[k]] \notin config.jails
               PROVE  \E j \in 1..k : /\ list[j] # NoIP
                                      /\ Country[list[j]] = Country[list[k]]
                                      /\ Contains(ips', list[j])
    BY <1>1 DEF Kept
  <2>1. PICK j \in 1..k : /\ list[j] # NoIP
                          /\ Country[list[j]] = Country[list[k]]
                          /\ Contains(ips, list[j])
    BY <1>1 DEF Kept
  <2>2. PICK m \in 1..Len(ips) : ips[m] = list[j]
    BY <2>1 DEF Contains
  <2>3. m # i
    BY <1>1, <2>1, <2>2 DEF IInv, Aligned
  <2>4. CASE m < i
    <3>1. m \in 1..(Len(ips) - 1) /\ ips'[m] = list[j]
      BY <1>1, <1>2, <2>2, <2>4
    <3> QED BY <1>2, <2>1, <3>1 DEF Contains
  <2>5. CASE m > i
    <3>1. m - 1 \in 1..(Len(ips) - 1) /\ ~(m - 1 < i) /\ (m - 1) + 1 = m
      BY <1>1, <2>2, <2>5
    <3>2. ips'[m - 1] = list[j]
      BY <1>2, <2>2, <3>1
    <3> QED BY <1>2, <2>1, <3>1, <3>2 DEF Contains
  <2> QED BY <1>1, <2>2, <2>3, <2>4, <2>5
<1>7. Own /\ Country[query.ecs] \notin config.jails => OwnFirst'
  <2> SUFFICES ASSUME Own, Country[query.ecs] \notin config.jails PROVE OwnFirst'
    OBVIOUS
  <2>1. OwnFirst
    BY <1>1 DEF LInv
  <2>2. i # 1
    BY <1>1, <2>1 DEF OwnFirst, IInv, Aligned
  <2> QED BY <1>1, <1>2, <2>1, <2>2 DEF OwnFirst
<1>8. JailInv'
  <2>1. Cuts \in Nat /\ Cuts' = Cuts + 1 /\ Len(codes') <= Len(key')
    BY <1>1, <1>3 DEF Cuts, JailInv
  <2>2. ASSUME NEW j \in (i + 1)..Len(codes') PROVE codes'[j] = key[j + Cuts + 1][1]
    <3>1. /\ j \in 1..(Len(codes) - 1) /\ ~(j < i) /\ j + 1 \in i..Len(codes)
          /\ j + 1 + Cuts = j + Cuts + 1
      BY <1>1, <1>3, <2>1
    <3> QED BY <1>1, <1>3, <3>1 DEF JailInv
  <2>3. codes[i] = key[i + Cuts][1]
    BY <1>1 DEF JailInv
  <2>4. ASSUME NEW k \in 1..Len(key), k < i + Cuts + 2
        PROVE  Shadowed(k)'
    <3>1. CASE k < i + Cuts
      <4>1. Shadowed(k)
        BY <1>1, <3>1 DEF JailInv
      <4> QED BY <1>1, <1>4, <4>1 DEF Shadowed
    <3>2. CASE k = i + Cuts
      BY <1>1, <1>5, <2>3, <3>2 DEF Shadowed
    <3>3. CASE k = i + Cuts + 1
      <4>1. k > 1 /\ k - 1 = i + Cuts
        BY <1>1, <2>1, <3>3
      <4> QED BY <1>1, <1>5, <2>3, <4>1 DEF Shadowed
    <3> QED BY <1>1, <2>1, <2>4, <3>1, <3>2, <3>3
  <2>5. \A j \in i'..Len(codes') : codes'[j] = key'[j + Cuts'][1]
    <3> SUFFICES ASSUME NEW j \in i'..Len(codes') PROVE codes'[j] = key'[j + Cuts'][1]
      OBVIOUS
    <3>1. j \in (i + 1)..Len(codes') /\ j + Cuts' = j + Cuts + 1
      BY <1>1, <1>3, <2>1
    <3> QED BY <1>1, <2>2, <3>1
  <2>6. i' + Cuts' = i + Cuts + 2
    BY <1>1, <2>1
  <2> QED
    BY <1>1, <2>1, <2>4, <2>5, <2>6 DEF JailInv
<1> QED
  BY <1>1, <1>6, <1>7, <1>8 DEF LInv, Own

\* Going past the entry of a country without a jail.
LEMMA JailKeepLInv ==
  ASSUME IInv, LInv, JailKeep
  PROVE  LInv'
<1>1. /\ Len(codes) \in Nat /\ Len(key) \in Nat /\ i \in 1..Len(codes) /\ i' = i + 1
      /\ UNCHANGED <<query, config, pc, list, ips, codes, key>>
      /\ pc = "jail" /\ codes[i] \notin config.jails /\ JailInv
  BY LenProperties DEF IInv, TypeOK, JailKeep, Unchecked, inputs, LInv
<1>2. Cuts \in Nat /\ Cuts' = Cuts
  BY <1>1 DEF Cuts, JailInv
<1>3. JailInv'
  <2>1. codes[i] = key[i + Cuts][1]
    BY <1>1 DEF JailInv
  <2>2. ASSUME NEW k \in 1..Len(key), k < i + 1 + Cuts PROVE Shadowed(k)'
    <3>1. CASE k < i + Cuts
      BY <1>1, <3>1 DEF JailInv, Shadowed
    <3>2. CASE k = i + Cuts
      BY <1>1, <2>1, <3>2 DEF Shadowed
    <3> QED BY <1>1, <1>2, <2>2, <3>1, <3>2
  <2>3. \A j \in i'..Len(codes') : j \in i..Len(codes)
    BY <1>1
  <2> QED
    BY <1>1, <1>2, <2>2, <2>3 DEF JailInv
<1>4. /\ Kept(Len(list)) => Kept(Len(list))'
      /\ OwnFirst => OwnFirst'
  BY <1>1 DEF Kept, OwnFirst
<1> QED
  BY <1>1, <1>3, <1>4 DEF LInv, Own

\* Between the loops, and when the last one ends.
LEMMA TurnLInv ==
  ASSUME IInv, LInv, AnswerEmpty \/ ParseEnds \/ Dispatch
  PROVE  LInv'
<1>1. /\ UNCHANGED <<query, config, list, ips, codes, key>>
      /\ Len(codes) \in Nat /\ Len(key) \in Nat /\ Len(list) \in Nat /\ i \in Nat \ {0}
  BY LenProperties DEF IInv, TypeOK, AnswerEmpty, ParseEnds, Dispatch, inputs
<1>2. /\ Kept(Len(list)) => Kept(Len(list))'
      /\ OwnFirst => OwnFirst'
      /\ \A k \in 1..Len(key) : Shadowed(k) => Shadowed(k)'
  BY <1>1 DEF Kept, OwnFirst, Shadowed
<1>3. CASE AnswerEmpty
  BY <1>3 DEF AnswerEmpty, LInv
<1>4. CASE ParseEnds
  <2>1. ParseInv /\ i = Len(list) + 1 /\ i' = 1 /\ pc' = "jail" /\ pc = "parse"
    BY <1>1, <1>4 DEF ParseEnds, LInv, ParseInv
  <2>2. i - 1 = Len(list)
    BY <1>1, <2>1
  <2>3. Kept(Len(list)) /\ (Own => OwnFirst)
    BY <1>1, <1>4, <2>1, <2>2 DEF ParseInv, LInv
  <2>4. Cuts' = 0 /\ Cuts = 0
    BY <1>1, <2>1 DEF Cuts, ParseInv
  <2>5. JailInv'
    <3>1. \A j \in 1..Len(codes) : codes[j] = key[j + 0][1]
      BY <1>1, <2>1 DEF ParseInv
    <3>2. \A k \in 1..Len(key) : ~(k < 1 + 0)
      BY <1>1
    <3> QED BY <1>1, <2>1, <2>4, <3>1, <3>2 DEF JailInv, ParseInv
  <2> QED
    BY <1>1, <1>2, <2>1, <2>3, <2>5 DEF LInv, Own
<1>5. CASE Dispatch
  <2>1. JailInv /\ ~(i <= Len(codes)) /\ pc = "jail" /\ pc' \in {"single", "fanout"}
    BY <1>5 DEF Dispatch, Unchecked, LInv
  <2>2. \A k \in 1..Len(key) : k < i + Cuts
    BY <1>1, <2>1 DEF Cuts
  <2>3. \A k \in 1..Len(key) : Shadowed(k)
    BY <2>1, <2>2 DEF JailInv
  <2> QED
    BY <1>1, <1>2, <2>1, <2>3 DEF LInv, Own
<1> QED
  BY <1>3, <1>4, <1>5

\* Both invariants hold in every state a run reaches.
LEMMA Invariance == Spec => [](IInv /\ LInv)
<1>1. Init => IInv /\ LInv
  BY InitIInv DEF Init, LInv
<1>2. IInv /\ LInv /\ [Next]_vars => (IInv /\ LInv)'
  <2> SUFFICES ASSUME IInv, LInv, [Next]_vars PROVE LInv'
    BY NextIInv
  <2>1. CASE UNCHANGED vars
    BY <2>1 DEF vars, LInv, ParseInv, JailInv, Taken, Kept, Own, OwnFirst, Shadowed, Cuts
  <2> QED
    BY <2>1, BuildLInv, ParseLInv, JailCutLInv, JailKeepLInv, TurnLInv DEF Next, Terminated
<1> QED
  BY <1>1, <1>2, PTL DEF Spec

\* Whatever the lists and the jails, a country the name is not jailed in keeps the
\* first address the list gave for it.
THEOREM UnjailedKeptTheorem == Spec => []UnjailedKept
<1>1. IInv /\ LInv => UnjailedKept
  BY DEF LInv, Kept, UnjailedKept
<1> QED
  BY <1>1, Invariance, PTL

\* Whatever the loops cut, a client's own subnet is asked before anything else.
THEOREM ClientSubnetFirstTheorem == Spec => []ClientSubnetFirst
<1>1. IInv /\ LInv => ClientSubnetFirst
  <2> SUFFICES ASSUME IInv, LInv, pc = "fanout", Own, Country[query.ecs] \notin config.jails
               PROVE  ips # <<>> /\ Head(ips) = query.ecs
    BY DEF ClientSubnetFirst, Own
  <2>1. OwnFirst /\ ips \in Seq(Addr)
    BY DEF LInv, IInv, TypeOK
  <2>2. ips # <<>>
    BY <2>1 DEF OwnFirst
  <2> QED
    BY <2>1, <2>2, HeadTailProperties DEF OwnFirst
<1> QED
  BY <1>1, Invariance, PTL

\* However long the list, the jail loop's only misses are the entries right behind
\* one it cut.
THEOREM OnlyShadowedSurviveTheorem == Spec => []OnlyShadowedSurvive
<1>1. IInv /\ LInv => OnlyShadowedSurvive
  BY DEF LInv, Shadowed, OnlyShadowedSurvive
<1> QED
  BY <1>1, Invariance, PTL

-----------------------------------------------------------------------------
(* What the jail loop keeps, exactly.  The entries of the key are the       *)
(* countries the loop was given, in their order, one each; an entry is kept *)
(* unless its country is jailed and it is not right behind one that was cut. *)

Decided(k) ==
  Contains(codes, key[k][1]) <=>
    (key[k][1] \in config.jails => k > 1 /\ ~Contains(codes, key[k - 1][1]))

OneKeyPerCountry == \A j, k \in 1..Len(key) : key[j][1] = key[k][1] => j = k

\* The entries gone past are decided, and the last of them was kept: behind a cut
\* the loop goes past two.
PassedInv ==
  /\ OneKeyPerCountry
  /\ \A k \in 1..Len(key) : k < i + Cuts => Decided(k)
  /\ \A k \in 1..Len(key) : k = i + Cuts - 1 => Contains(codes, key[k][1])

PInv ==
  /\ pc = "jail" => PassedInv
  /\ pc \in {"single", "fanout"} => \A k \in 1..Len(key) : Decided(k)

\* The loop starts with nothing passed, and a key that is the countries parsed.
LEMMA ParseEndsPInv ==
  ASSUME IInv, LInv, ParseEnds
  PROVE  PInv'
<1>1. /\ UNCHANGED <<query, config, list, ips, codes, key>>
      /\ pc = "parse" /\ pc' = "jail" /\ i' = 1
      /\ Len(codes) \in Nat /\ Len(key) = Len(codes) /\ DOMAIN codes = 1..Len(codes)
      /\ \A j \in 1..Len(codes) : codes[j] = key[j][1]
  BY LenProperties DEF IInv, TypeOK, ParseEnds, inputs, LInv, ParseInv
<1>2. OneKeyPerCountry
  BY <1>1 DEF IInv, OneQueryPerCountry, IsInjective, OneKeyPerCountry
<1>3. Cuts' = 0
  BY <1>1 DEF Cuts
<1>4. \A k \in 1..Len(key) : ~(k < 1 + 0) /\ k # 1 + 0 - 1
  BY <1>1
<1>5. PassedInv'
  BY <1>1, <1>2, <1>3, <1>4 DEF PassedInv, OneKeyPerCountry
<1> QED
  BY <1>1, <1>5 DEF PInv

\* An entry of a country without a jail is kept.
LEMMA JailKeepPInv ==
  ASSUME IInv, LInv, PInv, JailKeep
  PROVE  PInv'
<1>1. /\ Len(codes) \in Nat /\ Len(key) \in Nat /\ i \in 1..Len(codes) /\ i' = i + 1
      /\ UNCHANGED <<query, config, pc, list, ips, codes, key>>
      /\ pc = "jail" /\ codes[i] \notin config.jails /\ JailInv /\ PassedInv
  BY LenProperties DEF IInv, TypeOK, JailKeep, Unchecked, inputs, LInv, PInv
<1>2. Cuts \in Nat /\ Cuts' = Cuts /\ codes[i] = key[i + Cuts][1]
  BY <1>1 DEF Cuts, JailInv
<1>3. Contains(codes, key[i + Cuts][1])
  BY <1>1, <1>2 DEF Contains
<1>4. ASSUME NEW k \in 1..Len(key), k < i + 1 + Cuts PROVE Decided(k)
  <2>1. CASE k < i + Cuts
    BY <1>1, <2>1 DEF PassedInv
  <2>2. CASE k = i + Cuts
    BY <1>1, <1>2, <1>3, <2>2 DEF Decided
  <2> QED BY <1>1, <1>2, <1>4, <2>1, <2>2
<1>5. \A k \in 1..Len(key) : k = i + 1 + Cuts - 1 => k = i + Cuts
  BY <1>1, <1>2
<1>6. PassedInv'
  BY <1>1, <1>2, <1>3, <1>4, <1>5 DEF PassedInv, OneKeyPerCountry, Decided
<1> QED
  BY <1>1, <1>6 DEF PInv

\* A jailed entry is cut, for the one before it was kept; the one behind it is
\* gone past unseen.
LEMMA JailCutPInv ==
  ASSUME IInv, LInv, PInv, JailCut
  PROVE  PInv'
<1>1. /\ Len(codes) \in Nat /\ Len(key) \in Nat /\ i \in 1..Len(codes) /\ i' = i + 1
      /\ codes' = RemoveAt(codes, i) /\ UNCHANGED <<query, config, pc, list, key>>
      /\ pc = "jail" /\ codes[i] \in config.jails /\ JailInv /\ PassedInv
  BY LenProperties DEF IInv, TypeOK, JailCut, Unchecked, inputs, LInv, PInv
<1>2. /\ Len(codes') = Len(codes) - 1
      /\ \A j \in 1..(Len(codes) - 1) : codes'[j] = IF j < i THEN codes[j] ELSE codes[j + 1]
  <2>1. codes \in Seq(Countries)
    BY DEF IInv, TypeOK
  <2> QED
    BY <1>1, <2>1, RemoveAtProperties
<1> DEFINE p == i + Cuts
<1>3. /\ Cuts \in Nat /\ Cuts' = Cuts + 1
      /\ p \in 1..Len(key) /\ codes[i] = key[p][1]
  BY <1>1, <1>2 DEF Cuts, JailInv
<1>4. ~Contains(codes', key[p][1])
  <2> SUFFICES ASSUME NEW j \in 1..(Len(codes) - 1), codes'[j] = codes[i] PROVE FALSE
    BY <1>1, <1>2, <1>3 DEF Contains
  <2>1. /\ DOMAIN codes = 1..Len(codes)
        /\ j \in DOMAIN codes /\ j + 1 \in DOMAIN codes /\ i \in DOMAIN codes
    BY <1>1, LenProperties DEF IInv, TypeOK
  <2>2. \A m \in DOMAIN codes : codes[m] = codes[i] => m = i
    BY <2>1 DEF IInv, OneQueryPerCountry, IsInjective
  <2>3. CASE j < i
    BY <1>1, <1>2, <2>1, <2>2, <2>3
  <2>4. CASE j >= i
    BY <1>1, <1>2, <2>1, <2>2, <2>4
  <2> QED BY <1>1, <2>3, <2>4
<1>5. ASSUME NEW k \in 1..Len(key), k # p
      PROVE  Contains(codes', key[k][1]) <=> Contains(codes, key[k][1])
  <2>1. key[k][1] # codes[i]
    BY <1>1, <1>3, <1>5 DEF PassedInv, OneKeyPerCountry
  <2>2. ASSUME Contains(codes', key[k][1]) PROVE Contains(codes, key[k][1])
    <3>1. PICK j \in 1..(Len(codes) - 1) : codes'[j] = key[k][1]
      BY <1>1, <1>2, <2>2 DEF Contains
    <3>2. j \in 1..Len(codes) /\ j + 1 \in 1..Len(codes)
      BY <1>1, <3>1
    <3> QED BY <1>2, <3>1, <3>2 DEF Contains
  <2>3. ASSUME Contains(codes, key[k][1]) PROVE Contains(codes', key[k][1])
    <3>1. PICK m \in 1..Len(codes) : codes[m] = key[k][1]
      BY <2>3 DEF Contains
    <3>2. m # i
      BY <2>1, <3>1
    <3>3. CASE m < i
      <4>1. m \in 1..(Len(codes) - 1) /\ codes'[m] = key[k][1]
        BY <1>1, <1>2, <3>1, <3>3
      <4> QED BY <1>2, <4>1 DEF Contains
    <3>4. CASE m > i
      <4>1. m - 1 \in 1..(Len(codes) - 1) /\ ~(m - 1 < i) /\ (m - 1) + 1 = m
        BY <1>1, <3>1, <3>4
      <4>2. codes'[m - 1] = key[k][1]
        BY <1>2, <3>1, <4>1
      <4> QED BY <1>2, <4>1, <4>2 DEF Contains
    <3> QED BY <1>1, <3>1, <3>2, <3>3, <3>4
  <2> QED BY <2>2, <2>3
<1> HIDE DEF p
<1>6. ASSUME NEW k \in 1..Len(key), k = p, k > 1 PROVE Contains(codes', key[k - 1][1])
  <2>1. k - 1 \in 1..Len(key) /\ k - 1 # p
    BY <1>1, <1>6
  <2>2. Contains(codes, key[k - 1][1])
    BY <1>1, <1>3, <1>6, <2>1 DEF PassedInv, p
  <2> QED BY <1>5, <2>1, <2>2
<1>7. p + 1 \in 1..Len(key) => Contains(codes, key[p + 1][1])
  <2> SUFFICES ASSUME p + 1 \in 1..Len(key) PROVE Contains(codes, key[p + 1][1])
    OBVIOUS
  <2>0. i + Cuts + 1 <= Len(key) /\ Cuts = Len(key) - Len(codes)
    BY <1>3 DEF p, Cuts
  <2>1. i + 1 \in i..Len(codes) /\ i + 1 + Cuts = i + Cuts + 1 /\ i + 1 \in 1..Len(codes)
    BY <1>1, <1>3, <2>0
  <2>2. codes[i + 1] = key[p + 1][1]
    BY <1>1, <2>1 DEF JailInv, p
  <2> QED BY <2>1, <2>2 DEF Contains
<1>8. ASSUME NEW k \in 1..Len(key), k < p + 2 PROVE Decided(k)'
  <2>1. CASE k < p
    <3>1. Decided(k)
      BY <1>1, <2>1 DEF PassedInv, p
    <3>2. Contains(codes', key[k][1]) <=> Contains(codes, key[k][1])
      BY <1>1, <1>3, <1>5, <2>1
    <3>3. k > 1 => (Contains(codes', key[k - 1][1]) <=> Contains(codes, key[k - 1][1]))
      <4>1. k > 1 => k - 1 \in 1..Len(key) /\ k - 1 # p
        BY <1>1, <1>3, <2>1
      <4> QED BY <1>5, <4>1
    <3> QED BY <1>1, <3>1, <3>2, <3>3 DEF Decided
  <2>2. CASE k = p
    BY <1>1, <1>3, <1>4, <1>6, <2>2 DEF Decided
  <2>3. CASE k = p + 1
    <3>1. k > 1 /\ k - 1 = p /\ k # p
      BY <1>1, <1>3, <2>3
    <3>2. Contains(codes', key[k][1])
      BY <1>5, <1>7, <2>3, <3>1
    <3> QED BY <1>1, <1>4, <3>1, <3>2 DEF Decided
  <2>4. p \in Nat /\ k \in Nat
    BY <1>1, <1>3
  <2>5. k < p \/ k = p \/ k = p + 1
    BY <1>8, <2>4
  <2> QED BY <2>1, <2>2, <2>3, <2>5
<1>9. i' + Cuts' = p + 2
  BY <1>1, <1>3 DEF p
<1>10. ASSUME NEW k \in 1..Len(key), k = i' + Cuts' - 1 PROVE Contains(codes', key[k][1])
  <2>1. k = p + 1 /\ k # p
    BY <1>1, <1>3, <1>9, <1>10
  <2> QED BY <1>5, <1>7, <2>1
<1>11. PassedInv'
  <2>1. OneKeyPerCountry'
    BY <1>1 DEF PassedInv, OneKeyPerCountry
  <2>2. \A k \in 1..Len(key') : k < i' + Cuts' => Decided(k)'
    BY <1>1, <1>8, <1>9
  <2>3. \A k \in 1..Len(key') : k = i' + Cuts' - 1 => Contains(codes', key'[k][1])
    BY <1>1, <1>10
  <2> QED BY <2>1, <2>2, <2>3 DEF PassedInv
<1> QED
  BY <1>1, <1>11 DEF PInv

\* The three parts together, in every state a run reaches.
LEMMA PassedInvariance == Spec => [](IInv /\ LInv /\ PInv)
<1>1. Init => PInv
  BY DEF Init, PInv
<1>2. IInv /\ LInv /\ PInv /\ [Next]_vars => PInv'
  <2> SUFFICES ASSUME IInv, LInv, PInv, [Next]_vars PROVE PInv'
    OBVIOUS
  <2>1. CASE UNCHANGED vars
    BY <2>1 DEF vars, PInv, PassedInv, OneKeyPerCountry, Decided, Cuts
  <2>2. CASE AnswerEmpty \/ Start \/ TakeHeader \/ HeaderEnds \/ Parse
    BY <2>2 DEF AnswerEmpty, Start, TakeHeader, HeaderEnds, Parse, PInv
  <2>3. CASE Dispatch
    <3>1. /\ PassedInv /\ JailInv /\ ~(i <= Len(codes)) /\ pc' \in {"single", "fanout"}
          /\ UNCHANGED <<config, codes, key>>
          /\ Len(codes) \in Nat /\ Len(key) \in Nat /\ i \in Nat
      BY <2>3, LenProperties DEF Dispatch, Unchecked, LInv, PInv, inputs, IInv, TypeOK
    <3>2. \A k \in 1..Len(key) : k < i + Cuts
      BY <3>1 DEF Cuts
    <3>3. \A k \in 1..Len(key) : Decided(k)
      BY <3>1, <3>2 DEF PassedInv
    <3> QED
      BY <3>1, <3>3 DEF PInv, Decided
  <2> QED
    BY <2>1, <2>2, <2>3, ParseEndsPInv, JailKeepPInv, JailCutPInv DEF Next, Terminated
<1> QED
  BY <1>1, <1>2, Invariance, PTL DEF Spec

\* What the jail loop of CommonResolverQuery computes, whatever the places and the
\* jails: a country of the lookup is still asked if and only if it has no jail the
\* name is in, or the country before it in the list was cut.  Of several jailed
\* countries in a row the first is cut and the second survives, and so on in turn.
JailLoopResult ==
  pc \in {"single", "fanout"} =>
    \A k \in 1..Len(key) :
      Contains(codes, key[k][1]) <=>
        (key[k][1] \in config.jails => k > 1 /\ ~Contains(codes, key[k - 1][1]))

THEOREM JailLoopTheorem == Spec => []JailLoopResult
<1>1. PInv => JailLoopResult
  BY DEF PInv, Decided, JailLoopResult
<1> QED
  BY <1>1, PassedInvariance, PTL

\* When the option does what its comment says (config-example.yml:48): if no two
\* countries that stand next to each other in the lookup are both in whose jail
\* the name is, no jailed country is asked.
JailsApart ==
  \A k \in 2..Len(key) : key[k][1] \notin config.jails \/ key[k - 1][1] \notin config.jails

THEOREM JailsApartSuffice == Spec => [](JailsApart => JailedNeverAsked)
<1>1. IInv /\ PInv => (JailsApart => JailedNeverAsked)
  <2> SUFFICES ASSUME IInv, PInv, JailsApart, pc = "fanout",
                      NEW k \in 1..Len(ips), Country[ips[k]] \in config.jails
               PROVE  FALSE
    BY DEF JailedNeverAsked
  <2>1. PICK j \in 1..Len(key) : key[j] = Place(ips[k])
    BY DEF IInv, KeyCoversQuery
  <2>2. key[j][1] = Country[ips[k]] /\ key[j][1] = codes[k] /\ k \in 1..Len(codes)
    BY <2>1 DEF Place, IInv, Aligned
  <2>3. Contains(codes, key[j][1])
    BY <2>2 DEF Contains
  <2>4. j > 1 /\ ~Contains(codes, key[j - 1][1])
    BY <2>2, <2>3 DEF PInv, Decided
  <2>5. j \in 2..Len(key) /\ j - 1 \in 1..Len(key)
    BY <2>4, LenProperties DEF IInv, TypeOK
  <2>6. key[j - 1][1] \in config.jails
    BY <2>4, <2>5 DEF PInv, Decided
  <2> QED
    BY <2>2, <2>5, <2>6 DEF JailsApart
<1> QED
  BY <1>1, PassedInvariance, PTL
=============================================================================
