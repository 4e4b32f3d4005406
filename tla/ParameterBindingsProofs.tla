---------------------- MODULE ParameterBindingsProofs ----------------------
(***************************************************************************)
(* ParameterBindings, for every number of statements, descriptors and      *)
(* parameters: a prepared statement sends what the application bound.      *)
(*                                                                         *)
(* RequestCarriesBindings and BufferKeepsItsType speak of the descriptor   *)
(* in effect only, and of the parameters of a prepared query.  Descriptors *)
(* come into effect and queries are prepared at any time, so the inductive *)
(* invariant says of every descriptor how its records stand to what was    *)
(* asked of it (RecordsAgree), and of every prepared statement that its    *)
(* IPD counts all parameters (ImpRecordsSuffice).                          *)
(*                                                                         *)
(* The SQL type, the stride and the count of parameters follow from        *)
(* invariants beside that one: StrideAgrees and TopIsBound speak of every  *)
(* descriptor and what was asked of it, SqlTypesAgree of the               *)
(* implementation descriptor of every statement that kept its own          *)
(* application descriptor.                                                 *)
(***************************************************************************)
EXTENDS ParameterBindings, TLAPS

\* A record and what the application asked for at its number.
Agrees(rec, counted, binding) ==
    /\ binding.kind = "none" /\ counted => rec.data = None
    /\ binding.kind = "bound" => /\ counted /\ IsBound(rec)
                                 /\ rec.data = binding.data /\ rec.type = binding.type
    /\ binding.kind = "failed" /\ counted /\ rec.data # None =>
          rec.data = binding.data /\ rec.type = binding.type

DescriptorAgrees(desc, asked) ==
    \A n \in Numbers : Agrees(desc.records[n], n <= desc.count, asked[n])

RecordsAgree == \A d \in Descriptors : DescriptorAgrees(apd[d], bindings[d])

ImpRecordsSuffice == \A s \in Statements : is_prepared[s] => parameters[s] <= ipd[s].count

IInv == TypeOK /\ RecordsAgree /\ ImpRecordsSuffice

-----------------------------------------------------------------------------
(***************************************************************************)
(* The operations on descriptors                                           *)
(***************************************************************************)

LEMMA SetCountLemma ==
    ASSUME NEW R, NEW desc \in DescriptorsOf(R), NEW n \in 0..MaxParameters
    PROVE  /\ SetCount(desc, n) \in DescriptorsOf(R)
           /\ SetCount(desc, n).count = n
           /\ SetCount(desc, n).records = desc.records
BY DEF SetCount, DescriptorsOf

LEMMA GetRecordLemma ==
    ASSUME NEW R, NEW desc \in DescriptorsOf(R), NEW num \in Numbers, NEW fresh \in R
    PROVE  /\ GetRecord(desc, num, fresh) \in DescriptorsOf(R)
           /\ GetRecord(desc, num, fresh).count = Larger(desc.count, num)
           /\ \A n \in Numbers : GetRecord(desc, num, fresh).records[n] =
                 IF desc.count < n /\ n <= num THEN fresh ELSE desc.records[n]
BY MaxParametersAssumption DEF GetRecord, DescriptorsOf, Numbers, Larger

LEMMA SetConciseTypeLemma ==
    ASSUME NEW rec \in AppRecords, NEW type \in CTypes
    PROVE  /\ SetConciseType(rec, type) \in AppRecords
           /\ SetConciseType(rec, type).type = type
           /\ rec.type = type => SetConciseType(rec, type) = rec
           /\ rec.type # type => SetConciseType(rec, type).data = None
BY DEF SetConciseType, AppRecords

LEMMA FreshRecords ==
    FreshAppRecord \in AppRecords /\ FreshImpRecord \in ImpRecords
BY DEF FreshAppRecord, FreshImpRecord, AppRecords, ImpRecords, CTypes, SqlTypes

LEMMA BlankDescriptor ==
    /\ NoRecords(FreshAppRecord) \in DescriptorsOf(AppRecords)
    /\ NoRecords(FreshImpRecord) \in DescriptorsOf(ImpRecords)
    /\ NotBound \in Bindings
    /\ DescriptorAgrees(NoRecords(FreshAppRecord), [n \in Numbers |-> NotBound])
BY FreshRecords, MaxParametersAssumption
   DEF NoRecords, DescriptorsOf, NotBound, Bindings, CTypes, SqlTypes, DescriptorAgrees, Agrees,
       FreshAppRecord, Numbers

LEMMA EffectiveIsDescriptor ==
    ASSUME TypeOK, NEW s \in Statements
    PROVE  Effective(s) \in Descriptors
BY DEF TypeOK, Effective, Descriptors

\* A step that changes one descriptor and what is asked of it, and both well.
LEMMA OneDescriptor ==
    ASSUME RecordsAgree, TypeOK, NEW d \in Descriptors,
           NEW desc \in DescriptorsOf(AppRecords), NEW asked \in [Numbers -> Bindings],
           DescriptorAgrees(desc, asked),
           apd' = [apd EXCEPT ![d] = desc], bindings' = [bindings EXCEPT ![d] = asked]
    PROVE  /\ RecordsAgree'
           /\ apd' \in [Descriptors -> DescriptorsOf(AppRecords)]
           /\ bindings' \in [Descriptors -> [Numbers -> Bindings]]
<1>1. /\ apd' \in [Descriptors -> DescriptorsOf(AppRecords)]
      /\ bindings' \in [Descriptors -> [Numbers -> Bindings]]
  BY DEF TypeOK
<1>2. ASSUME NEW e \in Descriptors PROVE DescriptorAgrees(apd'[e], bindings'[e])
  <2>1. CASE e = d
    BY <2>1 DEF TypeOK
  <2>2. CASE e # d
    BY <2>2 DEF TypeOK, RecordsAgree
  <2> QED BY <2>1, <2>2
<1> QED BY <1>1, <1>2 DEF RecordsAgree

-----------------------------------------------------------------------------
(***************************************************************************)
(* Bind calls                                                              *)
(***************************************************************************)

LEMMA ValueTypeLemma ==
    ASSUME NEW pair \in TypePairs
    PROVE  ValueType(pair) \in CTypes /\ pair[2] \in SqlTypes
BY TypePairsAssumption DEF ValueType, ToCType, CTypes, SqlTypes

LEMMA OctetsLemma ==
    ASSUME NEW pair \in TypePairs, NEW len \in Lengths, ~BindThrows(pair, len)
    PROVE  Octets(pair, len) \in Nat
BY LengthsAssumption DEF Octets, OctetLength, BindThrows

LEMMA WidthLemma ==
    ASSUME NEW pair \in TypePairs, NEW len \in Lengths
    PROVE  Width(pair, len) \in Int
BY LengthsAssumption DEF Width, OctetLength

\* A longer IPD still suffices.
LEMMA ImpCountGrows ==
    ASSUME TypeOK, ImpRecordsSuffice, NEW s \in Statements,
           NEW imp \in DescriptorsOf(ImpRecords), ipd[s].count <= imp.count,
           ipd' = [ipd EXCEPT ![s] = imp], UNCHANGED <<parameters, is_prepared>>
    PROVE  ImpRecordsSuffice'
BY MaxParametersAssumption DEF TypeOK, ImpRecordsSuffice, DescriptorsOf

LEMMA TypesSetLemma ==
    ASSUME TypeOK, NEW s \in Statements, NEW num \in Numbers, NEW pair \in TypePairs
    PROVE  LET d == Effective(s)
               set == TypesSet(s, num, pair)
               old == apd[d].records[num]
           IN /\ set.app \in DescriptorsOf(AppRecords)
              /\ set.imp \in DescriptorsOf(ImpRecords)
              /\ set.app.count = Larger(apd[d].count, num)
              /\ set.imp.count = Larger(ipd[s].count, num)
              /\ \A n \in Numbers \ {num} : n <= apd[d].count =>
                    set.app.records[n] = apd[d].records[n]
              /\ \A n \in Numbers \ {num} : apd[d].count < n /\ n <= num =>
                    set.app.records[n] = FreshAppRecord
              /\ set.app.records[num].type = ValueType(pair)
              /\ num <= apd[d].count =>
                    \/ set.app.records[num] = old /\ old.type = ValueType(pair)
                    \/ set.app.records[num].data = None
<1> DEFINE d == Effective(s)
           a == GetRecord(apd[d], num, FreshAppRecord)
           i == GetRecord(ipd[s], num, FreshImpRecord)
           rec == SetConciseType(a.records[num], ValueType(pair))
<1>1. apd[d] \in DescriptorsOf(AppRecords) /\ ipd[s] \in DescriptorsOf(ImpRecords)
  BY EffectiveIsDescriptor DEF TypeOK
<1>2. /\ a \in DescriptorsOf(AppRecords)
      /\ a.count = Larger(apd[d].count, num)
      /\ \A n \in Numbers : a.records[n] =
            IF apd[d].count < n /\ n <= num THEN FreshAppRecord ELSE apd[d].records[n]
  BY <1>1, GetRecordLemma, FreshRecords
<1>3. i \in DescriptorsOf(ImpRecords) /\ i.count = Larger(ipd[s].count, num)
  BY <1>1, GetRecordLemma, FreshRecords
<1>4. a.records[num] \in AppRecords
  BY <1>2 DEF DescriptorsOf
<1>5. /\ rec \in AppRecords
      /\ rec.type = ValueType(pair)
      /\ a.records[num].type = ValueType(pair) => rec = a.records[num]
      /\ a.records[num].type # ValueType(pair) => rec.data = None
  BY <1>4, ValueTypeLemma, SetConciseTypeLemma
<1> DEFINE app == [a EXCEPT !.records[num] = rec]
           imp == [i EXCEPT !.records[num].type = pair[2]]
<1>6. /\ app \in DescriptorsOf(AppRecords)
      /\ app.count = a.count
      /\ app.records[num] = rec
      /\ \A n \in Numbers \ {num} : app.records[n] = a.records[n]
  BY <1>2, <1>5 DEF DescriptorsOf
<1>7. imp \in DescriptorsOf(ImpRecords) /\ imp.count = i.count
  BY <1>3, ValueTypeLemma DEF DescriptorsOf, ImpRecords
<1>8. TypesSet(s, num, pair) = [app |-> app, imp |-> imp]
  BY DEF TypesSet
<1>9. num <= apd[d].count => a.records[num] = apd[d].records[num]
  BY <1>1, <1>2 DEF DescriptorsOf, Numbers
<1> HIDE DEF a, i, rec, app, imp
<1>10. \A n \in Numbers \ {num} : n <= apd[d].count => app.records[n] = apd[d].records[n]
  BY <1>1, <1>2, <1>6 DEF DescriptorsOf, Numbers
<1> QED BY <1>1, <1>2, <1>3, <1>5, <1>6, <1>7, <1>8, <1>9, <1>10

LEMMA BindSucceedsStep ==
    ASSUME IInv, NEW s \in Statements, NEW num \in Numbers, NEW pair \in TypePairs,
           NEW len \in Lengths, NEW data \in Buffers \cup {None}, NEW indicator \in BOOLEAN,
           BindSucceeds(s, num, pair, len, data, indicator),
           UNCHANGED <<bindType, allocated, explicit_apd, parameters, is_prepared, exchanged>>
    PROVE  IInv'
<1> DEFINE d == Effective(s)
           set == TypesSet(s, num, pair)
           rec == [set.app.records[num] EXCEPT !.octets = Octets(pair, len),
                                               !.indicator = indicator, !.data = data]
           desc == [set.app EXCEPT !.records[num] = rec]
           binding == IF data = None /\ ~indicator THEN NotBound
                      ELSE [kind |-> "bound", data |-> data, type |-> ValueType(pair),
                            sql |-> pair[2], width |-> Width(pair, len)]
           asked == [bindings[d] EXCEPT ![num] = binding]
<1>1. TypeOK /\ RecordsAgree /\ ImpRecordsSuffice /\ d \in Descriptors
  BY EffectiveIsDescriptor DEF IInv
<1>2. /\ set.app \in DescriptorsOf(AppRecords)
      /\ set.imp \in DescriptorsOf(ImpRecords)
      /\ set.app.count = Larger(apd[d].count, num)
      /\ set.imp.count = Larger(ipd[s].count, num)
      /\ \A n \in Numbers \ {num} : n <= apd[d].count =>
            set.app.records[n] = apd[d].records[n]
      /\ \A n \in Numbers \ {num} : apd[d].count < n /\ n <= num =>
            set.app.records[n] = FreshAppRecord
      /\ set.app.records[num].type = ValueType(pair)
  BY <1>1, TypesSetLemma
<1>3. set.app.records[num] \in AppRecords
  BY <1>2 DEF DescriptorsOf
<1>4. /\ rec \in AppRecords
      /\ rec.type = ValueType(pair) /\ rec.data = data /\ rec.indicator = indicator
  <2>1. Octets(pair, len) \in Nat
    BY OctetsLemma DEF BindSucceeds
  <2> QED BY <1>2, <1>3, <2>1 DEF AppRecords
<1>5. /\ desc \in DescriptorsOf(AppRecords)
      /\ desc.count = set.app.count
      /\ desc.records[num] = rec
      /\ \A n \in Numbers \ {num} : desc.records[n] = set.app.records[n]
  BY <1>2, <1>4 DEF DescriptorsOf
<1>6. binding \in Bindings
  <2>1. Width(pair, len) \in Int
    BY WidthLemma
  <2> QED BY <2>1, ValueTypeLemma, BlankDescriptor DEF Bindings
<1>7. bindings[d] \in [Numbers -> Bindings]
  BY <1>1 DEF TypeOK
<1>8. /\ asked \in [Numbers -> Bindings]
      /\ asked[num] = binding
      /\ \A n \in Numbers \ {num} : asked[n] = bindings[d][n]
  BY <1>6, <1>7
<1>9. apd' = [apd EXCEPT ![d] = desc] /\ bindings' = [bindings EXCEPT ![d] = asked]
  BY DEF BindSucceeds
<1>10. ipd' = [ipd EXCEPT ![s] = set.imp]
  BY DEF BindSucceeds
<1>11. apd[d].count \in 0..MaxParameters /\ DescriptorAgrees(apd[d], bindings[d])
  BY <1>1 DEF TypeOK, DescriptorsOf, RecordsAgree
<1>12. Agrees(rec, num <= desc.count, binding)
  <2>1. num <= desc.count
    BY <1>2, <1>5, <1>11, MaxParametersAssumption DEF Numbers, Larger
  <2> HIDE DEF rec, desc
  <2> QED BY <1>4, <2>1 DEF Agrees, NotBound, IsBound
<1> HIDE DEF rec, desc, binding, asked, set, d
<1>13. DescriptorAgrees(desc, asked)
  <2> SUFFICES ASSUME NEW n \in Numbers
               PROVE  Agrees(desc.records[n], n <= desc.count, asked[n])
    BY DEF DescriptorAgrees
  <2>1. CASE n = num
    BY <2>1, <1>5, <1>8, <1>12
  <2>2. CASE n # num
    <3>1. desc.records[n] = set.app.records[n] /\ asked[n] = bindings[d][n]
      BY <2>2, <1>5, <1>8
    <3>2. Agrees(apd[d].records[n], n <= apd[d].count, bindings[d][n])
      BY <1>11 DEF DescriptorAgrees
    <3>3. CASE n <= apd[d].count
      <4>1. n <= desc.count
        BY <3>3, <1>2, <1>5, <1>11, MaxParametersAssumption DEF Numbers, Larger
      <4>2. desc.records[n] = apd[d].records[n]
        BY <3>1, <3>3, <1>2, <2>2
      <4> QED BY <3>1, <3>2, <3>3, <4>1, <4>2
    <3>4. CASE apd[d].count < n /\ n <= num
      <4>1. desc.records[n].data = None
        BY <3>1, <3>4, <1>2, <2>2 DEF FreshAppRecord
      <4>2. ~(n <= apd[d].count)
        BY <3>4, <1>11, MaxParametersAssumption DEF Numbers
      <4> QED BY <3>1, <3>2, <4>1, <4>2 DEF Agrees
    <3>5. CASE apd[d].count < n /\ num < n
      <4>1. ~(n <= desc.count) /\ ~(n <= apd[d].count)
        BY <3>5, <1>2, <1>5, <1>11, MaxParametersAssumption DEF Numbers, Larger
      <4> QED BY <3>1, <3>2, <4>1 DEF Agrees
    <3> QED BY <3>3, <3>4, <3>5, <1>11, MaxParametersAssumption DEF Numbers
  <2> QED BY <2>1, <2>2
<1>14. /\ RecordsAgree'
       /\ apd' \in [Descriptors -> DescriptorsOf(AppRecords)]
       /\ bindings' \in [Descriptors -> [Numbers -> Bindings]]
  BY <1>1, <1>5, <1>8, <1>9, <1>13, OneDescriptor
<1>15. TypeOK'
  BY <1>1, <1>2, <1>10, <1>14 DEF TypeOK
<1>16. ImpRecordsSuffice'
  <2>1. ipd[s].count \in 0..MaxParameters
    BY <1>1 DEF TypeOK, DescriptorsOf
  <2>2. ipd[s].count <= set.imp.count
    BY <2>1, <1>2, MaxParametersAssumption DEF Numbers, Larger
  <2> QED BY <2>2, <1>1, <1>2, <1>10, ImpCountGrows
<1> QED BY <1>14, <1>15, <1>16 DEF IInv

LEMMA BindFailsStep ==
    ASSUME IInv, NEW s \in Statements, NEW num \in Numbers, NEW pair \in TypePairs,
           NEW len \in Lengths, BindFails(s, num, pair, len),
           UNCHANGED <<bindType, allocated, explicit_apd, parameters, is_prepared, exchanged>>
    PROVE  IInv'
<1> DEFINE d == Effective(s)
           set == TypesSet(s, num, pair)
           desc == SetCount(set.app, apd[d].count)
           imp == SetCount(set.imp, ipd[s].count)
           binding == IF num <= apd[d].count THEN [bindings[d][num] EXCEPT !.kind = "failed"]
                      ELSE bindings[d][num]
           asked == [bindings[d] EXCEPT ![num] = binding]
<1>1. TypeOK /\ RecordsAgree /\ ImpRecordsSuffice /\ d \in Descriptors
  BY EffectiveIsDescriptor DEF IInv
<1>2. /\ apd[d].count \in 0..MaxParameters /\ ipd[s].count \in 0..MaxParameters
      /\ bindings[d] \in [Numbers -> Bindings]
      /\ DescriptorAgrees(apd[d], bindings[d])
  BY <1>1 DEF TypeOK, DescriptorsOf, RecordsAgree
<1>3. /\ set.app \in DescriptorsOf(AppRecords)
      /\ set.imp \in DescriptorsOf(ImpRecords)
      /\ \A n \in Numbers \ {num} : n <= apd[d].count =>
            set.app.records[n] = apd[d].records[n]
      /\ num <= apd[d].count =>
            \/ set.app.records[num] = apd[d].records[num]
            \/ set.app.records[num].data = None
  BY <1>1, TypesSetLemma
<1>4. /\ desc \in DescriptorsOf(AppRecords)
      /\ desc.count = apd[d].count /\ desc.records = set.app.records
      /\ imp \in DescriptorsOf(ImpRecords) /\ imp.count = ipd[s].count
  BY <1>2, <1>3, SetCountLemma, ZenonT(60)
<1>5. /\ binding \in Bindings
      /\ num <= apd[d].count => /\ binding.kind = "failed"
                                /\ binding.data = bindings[d][num].data
                                /\ binding.type = bindings[d][num].type
      /\ ~(num <= apd[d].count) => binding = bindings[d][num]
  BY <1>2 DEF Bindings
<1>6. /\ asked \in [Numbers -> Bindings]
      /\ asked[num] = binding
      /\ \A n \in Numbers \ {num} : asked[n] = bindings[d][n]
  BY <1>2, <1>5
<1>7. /\ apd' = [apd EXCEPT ![d] = desc] /\ bindings' = [bindings EXCEPT ![d] = asked]
      /\ ipd' = [ipd EXCEPT ![s] = imp]
  BY <1>1 DEF BindFails, TypeOK
<1> HIDE DEF desc, imp, binding, asked, set, d
<1>8. DescriptorAgrees(desc, asked)
  <2> SUFFICES ASSUME NEW n \in Numbers
               PROVE  Agrees(desc.records[n], n <= desc.count, asked[n])
    BY DEF DescriptorAgrees
  <2>1. Agrees(apd[d].records[n], n <= apd[d].count, bindings[d][n])
    BY <1>2 DEF DescriptorAgrees
  <2>2. CASE ~(n <= apd[d].count)
    <3>1. asked[n] = bindings[d][n] /\ ~(n <= desc.count)
      BY <2>2, <1>4, <1>5, <1>6
    <3> QED BY <2>1, <2>2, <3>1 DEF Agrees
  <2>3. CASE n <= apd[d].count /\ n # num
    <3>1. desc.records[n] = apd[d].records[n] /\ asked[n] = bindings[d][n]
      BY <2>3, <1>3, <1>4, <1>6
    <3> QED BY <2>1, <3>1, <1>4
  <2>4. CASE n <= apd[d].count /\ n = num
    <3>1. bindings[d][n].kind \in {"none", "bound", "failed"}
      BY <1>2 DEF Bindings
    <3>2. desc.records[n].data # None =>
             /\ desc.records[n].data = bindings[d][n].data
             /\ desc.records[n].type = bindings[d][n].type
      BY <2>1, <2>4, <3>1, <1>3, <1>4 DEF Agrees
    <3>3. /\ asked[n].kind = "failed" /\ asked[n].data = bindings[d][n].data
          /\ asked[n].type = bindings[d][n].type
      BY <2>4, <1>5, <1>6
    <3> QED BY <3>2, <3>3 DEF Agrees
  <2> QED BY <2>2, <2>3, <2>4
<1>9. /\ RecordsAgree'
      /\ apd' \in [Descriptors -> DescriptorsOf(AppRecords)]
      /\ bindings' \in [Descriptors -> [Numbers -> Bindings]]
  BY <1>1, <1>4, <1>6, <1>7, <1>8, OneDescriptor
<1>10. TypeOK'
  BY <1>1, <1>4, <1>7, <1>9 DEF TypeOK
<1>11. ImpRecordsSuffice'
  <2>1. ipd[s].count <= imp.count
    BY <1>2, <1>4, MaxParametersAssumption
  <2> QED BY <2>1, <1>1, <1>4, <1>7, ImpCountGrows
<1> QED BY <1>9, <1>10, <1>11 DEF IInv

LEMMA UnbindStep ==
    ASSUME IInv, NEW s \in Statements, NEW num \in Numbers,
           num >= apd[Effective(s)].count, Unbind(s, num),
           UNCHANGED <<bindType, allocated, explicit_apd, parameters, is_prepared, exchanged>>
    PROVE  IInv'
<1> DEFINE d == Effective(s)
<1>1. TypeOK /\ RecordsAgree /\ ImpRecordsSuffice /\ d \in Descriptors
  BY EffectiveIsDescriptor DEF IInv
<1>2. PICK top \in 0..MaxParameters :
         /\ NextHighestBound(apd[d], num, top)
         /\ apd' = [apd EXCEPT ![d] = SetCount(apd[d], top)]
  BY <1>1 DEF Unbind, TypeOK
<1> DEFINE desc == SetCount(apd[d], top)
           asked == [bindings[d] EXCEPT ![num] = NotBound]
<1>3. /\ apd[d] \in DescriptorsOf(AppRecords)
      /\ apd[d].count \in 0..MaxParameters
      /\ bindings[d] \in [Numbers -> Bindings]
      /\ DescriptorAgrees(apd[d], bindings[d])
  BY <1>1 DEF TypeOK, DescriptorsOf, RecordsAgree
<1>4. /\ desc \in DescriptorsOf(AppRecords)
      /\ desc.count = top /\ desc.records = apd[d].records
  BY <1>3, SetCountLemma
<1>5. /\ asked \in [Numbers -> Bindings]
      /\ asked[num].kind = "none"
      /\ \A n \in Numbers \ {num} : asked[n] = bindings[d][n]
  BY <1>3, BlankDescriptor DEF NotBound
<1>6. bindings' = [bindings EXCEPT ![d] = asked]
  BY <1>1 DEF Unbind, TypeOK
<1>7. /\ top <= apd[d].count /\ top < num
      /\ \A n \in Numbers : top < n /\ n <= apd[d].count /\ n < num =>
            ~IsBound(apd[d].records[n])
  BY <1>2, <1>3, MaxParametersAssumption DEF NextHighestBound, Smaller, Numbers
<1> HIDE DEF desc, asked, d
<1>8. DescriptorAgrees(desc, asked)
  <2> SUFFICES ASSUME NEW n \in Numbers
               PROVE  Agrees(desc.records[n], n <= desc.count, asked[n])
    BY DEF DescriptorAgrees
  <2>1. Agrees(apd[d].records[n], n <= apd[d].count, bindings[d][n])
    BY <1>3 DEF DescriptorAgrees
  <2>2. CASE n = num
    <3>1. ~(n <= desc.count)
      BY <2>2, <1>4, <1>7, MaxParametersAssumption DEF Numbers
    <3> QED BY <2>2, <3>1, <1>5 DEF Agrees
  <2>3. CASE n # num /\ n <= top
    <3>1. n <= apd[d].count
      BY <2>3, <1>3, <1>7, MaxParametersAssumption DEF Numbers
    <3> QED BY <2>1, <2>3, <3>1, <1>4, <1>5
  <2>4. CASE n # num /\ ~(n <= top)
    <3>1. bindings[d][n].kind # "bound"
      <4>1. CASE n <= apd[d].count
        <5>1. ~IsBound(apd[d].records[n])
          <6>1. n < num
            BY <4>1, <2>4, <1>3 DEF Numbers, d
          <6> QED BY <6>1, <4>1, <2>4, <1>7 DEF Numbers
        <5> QED BY <5>1, <2>1 DEF Agrees
      <4>2. CASE ~(n <= apd[d].count)
        BY <4>2, <2>1 DEF Agrees
      <4> QED BY <4>1, <4>2
    <3> QED BY <2>4, <3>1, <1>4, <1>5 DEF Agrees
  <2> QED BY <2>2, <2>3, <2>4
<1>9. /\ RecordsAgree'
      /\ apd' \in [Descriptors -> DescriptorsOf(AppRecords)]
      /\ bindings' \in [Descriptors -> [Numbers -> Bindings]]
  BY <1>1, <1>2, <1>4, <1>5, <1>6, <1>8, OneDescriptor DEF desc
<1>10. TypeOK' /\ ImpRecordsSuffice'
  BY <1>1, <1>9 DEF TypeOK, ImpRecordsSuffice, Unbind
<1> QED BY <1>9, <1>10 DEF IInv

-----------------------------------------------------------------------------
(***************************************************************************)
(* The other steps                                                         *)
(***************************************************************************)

LEMMA ResetStep ==
    ASSUME IInv, NEW s \in Statements, ResetParams(s)
    PROVE  IInv'
<1> DEFINE d == Effective(s)
           desc == SetCount(apd[d], 0)
           asked == [n \in Numbers |-> NotBound]
<1>1. TypeOK /\ RecordsAgree /\ ImpRecordsSuffice /\ d \in Descriptors
  BY EffectiveIsDescriptor DEF IInv
<1>2. apd[d] \in DescriptorsOf(AppRecords)
  BY <1>1 DEF TypeOK
<1>3. desc \in DescriptorsOf(AppRecords) /\ desc.count = 0
  BY <1>2, SetCountLemma, MaxParametersAssumption
<1>4. asked \in [Numbers -> Bindings] /\ \A n \in Numbers : asked[n].kind = "none"
  BY BlankDescriptor DEF NotBound
<1>5. apd' = [apd EXCEPT ![d] = desc] /\ bindings' = [bindings EXCEPT ![d] = asked]
  BY <1>1 DEF ResetParams, TypeOK
<1> HIDE DEF desc, asked, d
<1>6. DescriptorAgrees(desc, asked)
  BY <1>3, <1>4 DEF DescriptorAgrees, Agrees, Numbers
<1>7. /\ RecordsAgree'
      /\ apd' \in [Descriptors -> DescriptorsOf(AppRecords)]
      /\ bindings' \in [Descriptors -> [Numbers -> Bindings]]
  BY <1>1, <1>3, <1>4, <1>5, <1>6, OneDescriptor
<1>8. TypeOK' /\ ImpRecordsSuffice'
  BY <1>1, <1>7 DEF TypeOK, ImpRecordsSuffice, ResetParams
<1> QED BY <1>7, <1>8 DEF IInv

LEMMA BlankStep ==
    ASSUME TypeOK, RecordsAgree, NEW d \in Explicits, Blank(d)
    PROVE  /\ RecordsAgree'
           /\ apd' \in [Descriptors -> DescriptorsOf(AppRecords)]
           /\ bindType' \in [Descriptors -> BindTypes]
           /\ bindings' \in [Descriptors -> [Numbers -> Bindings]]
<1> DEFINE asked == [n \in Numbers |-> NotBound]
<1>1. d \in Descriptors
  BY DEF Descriptors
<1>2. asked \in [Numbers -> Bindings]
  BY BlankDescriptor
<1>3. /\ apd' = [apd EXCEPT ![d] = NoRecords(FreshAppRecord)]
      /\ bindings' = [bindings EXCEPT ![d] = asked]
      /\ bindType' = [bindType EXCEPT ![d] = 0]
  BY DEF Blank
<1>4. DescriptorAgrees(NoRecords(FreshAppRecord), asked)
  BY BlankDescriptor
<1> HIDE DEF asked
<1>5. /\ RecordsAgree'
      /\ apd' \in [Descriptors -> DescriptorsOf(AppRecords)]
      /\ bindings' \in [Descriptors -> [Numbers -> Bindings]]
  BY <1>1, <1>2, <1>3, <1>4, BlankDescriptor, OneDescriptor
<1> QED BY <1>3, <1>5, BindTypesAssumption DEF TypeOK

LEMMA DescriptorStep ==
    ASSUME IInv, NEW d \in Explicits, AllocDescriptor(d) \/ FreeDescriptor(d)
    PROVE  IInv'
<1>1. TypeOK /\ RecordsAgree /\ ImpRecordsSuffice /\ Blank(d)
  BY DEF IInv, AllocDescriptor, FreeDescriptor
<1>2. RecordsAgree' /\ TypeOK'
  BY <1>1, BlankStep DEF TypeOK, AllocDescriptor, FreeDescriptor
<1>3. ImpRecordsSuffice'
  BY <1>1 DEF ImpRecordsSuffice, AllocDescriptor, FreeDescriptor
<1> QED BY <1>2, <1>3 DEF IInv

LEMMA AttributeStep ==
    ASSUME IInv, NEW s \in Statements, SetDescriptor(s) \/ SetBindType(s)
    PROVE  IInv'
<1>1. UNCHANGED <<apd, bindings, ipd, parameters, is_prepared>>
  BY DEF SetDescriptor, SetBindType
<1>2. RecordsAgree' /\ ImpRecordsSuffice'
  BY <1>1 DEF IInv, RecordsAgree, ImpRecordsSuffice
<1>3. TypeOK'
  BY <1>1, ZenonT(60) DEF IInv, TypeOK, SetDescriptor, SetBindType
<1> QED BY <1>2, <1>3 DEF IInv

LEMMA KeptRecordsLemma ==
    ASSUME TypeOK, NEW s \in Statements
    PROVE  KeptRecords(s) \in DescriptorsOf(ImpRecords)
<1>1. ipd[s] \in DescriptorsOf(ImpRecords) /\ apd[Effective(s)] \in DescriptorsOf(AppRecords)
  BY EffectiveIsDescriptor DEF TypeOK
<1>2. Smaller(ipd[s].count, apd[Effective(s)].count) \in 0..MaxParameters
  BY <1>1 DEF DescriptorsOf, Smaller
<1> QED BY <1>1, <1>2, SetCountLemma DEF KeptRecords

LEMMA RecordsForLemma ==
    ASSUME TypeOK, NEW s \in Statements, NEW num \in 0..MaxParameters
    PROVE  RecordsFor(s, num) \in DescriptorsOf(ImpRecords) /\ num <= RecordsFor(s, num).count
<1>1. KeptRecords(s) \in DescriptorsOf(ImpRecords) /\ KeptRecords(s).count \in 0..MaxParameters
  BY KeptRecordsLemma DEF DescriptorsOf
<1>2. CASE KeptRecords(s).count < num
  <2>1. num \in Numbers
    BY <1>1, <1>2, MaxParametersAssumption DEF Numbers
  <2>2. /\ GetRecord(KeptRecords(s), num, FreshImpRecord) \in DescriptorsOf(ImpRecords)
        /\ GetRecord(KeptRecords(s), num, FreshImpRecord).count = Larger(KeptRecords(s).count, num)
    BY <1>1, <2>1, FreshRecords, GetRecordLemma
  <2> QED BY <1>1, <1>2, <2>2, MaxParametersAssumption DEF RecordsFor, Larger
<1>3. CASE ~(KeptRecords(s).count < num)
  BY <1>1, <1>3, MaxParametersAssumption DEF RecordsFor
<1> QED BY <1>2, <1>3

LEMMA PrepareStep ==
    ASSUME IInv, NEW s \in Statements, Prepare(s) \/ PrepareFails(s)
    PROVE  IInv'
<1>1. TypeOK /\ RecordsAgree /\ ImpRecordsSuffice
  BY DEF IInv
<1>2. RecordsAgree'
  BY <1>1 DEF RecordsAgree, Prepare, PrepareFails
<1>3. CASE Prepare(s)
  <2>1. PICK num \in 0..MaxParameters :
           /\ ipd' = [ipd EXCEPT ![s] = RecordsFor(s, num)]
           /\ parameters' = [parameters EXCEPT ![s] = num]
    BY <1>3 DEF Prepare
  <2>2. RecordsFor(s, num) \in DescriptorsOf(ImpRecords) /\ num <= RecordsFor(s, num).count
    BY <1>1, RecordsForLemma
  <2>3. TypeOK'
    BY <1>1, <1>3, <2>1, <2>2 DEF TypeOK, Prepare
  <2>4. ImpRecordsSuffice'
    BY <1>1, <1>3, <2>1, <2>2 DEF TypeOK, ImpRecordsSuffice, Prepare
  <2> QED BY <1>2, <2>3, <2>4 DEF IInv
<1>4. CASE PrepareFails(s)
  <2>1. TypeOK'
    BY <1>1, <1>4, KeptRecordsLemma DEF TypeOK, PrepareFails
  <2>2. ImpRecordsSuffice'
    BY <1>1, <1>4 DEF TypeOK, ImpRecordsSuffice, PrepareFails
  <2> QED BY <1>2, <2>1, <2>2 DEF IInv
<1> QED BY <1>3, <1>4

LEMMA BindStep ==
    ASSUME IInv, NEW s \in Statements, BindParameter(s)
    PROVE  IInv'
<1> USE DEF BindParameter
<1>1. PICK num \in Numbers, pair \in TypePairs, len \in Lengths,
           data \in Buffers \cup {None}, indicator \in BOOLEAN :
         \/ num >= apd[Effective(s)].count /\ Unbind(s, num)
         \/ BindSucceeds(s, num, pair, len, data, indicator)
         \/ BindFails(s, num, pair, len)
  OBVIOUS
<1>2. UNCHANGED <<bindType, allocated, explicit_apd, parameters, is_prepared, exchanged>>
  OBVIOUS
<1> QED BY <1>1, <1>2, UnbindStep, BindSucceedsStep, BindFailsStep

-----------------------------------------------------------------------------
(***************************************************************************)
(* Theorems                                                                *)
(***************************************************************************)

LEMMA InitIInv == Init => IInv
<1> SUFFICES ASSUME Init PROVE IInv
  OBVIOUS
<1>1. [n \in Numbers |-> NotBound] \in [Numbers -> Bindings]
  BY BlankDescriptor
<1>2. TypeOK
  BY <1>1, BlankDescriptor, BindTypesAssumption, MaxParametersAssumption DEF Init, TypeOK
<1>3. RecordsAgree
  BY BlankDescriptor DEF Init, RecordsAgree
<1>4. ImpRecordsSuffice
  BY DEF Init, ImpRecordsSuffice
<1> QED BY <1>2, <1>3, <1>4 DEF IInv

LEMMA IInvStep == IInv /\ [Next]_vars => IInv'
<1> SUFFICES ASSUME IInv, [Next]_vars PROVE IInv'
  OBVIOUS
<1>1. CASE UNCHANGED vars
  BY <1>1 DEF vars, IInv, TypeOK, RecordsAgree, ImpRecordsSuffice
<1>2. CASE Next
  <2>1. CASE \E d \in Explicits : AllocDescriptor(d) \/ FreeDescriptor(d)
    BY <2>1, DescriptorStep
  <2>2. CASE \E s \in Statements : SetDescriptor(s) \/ SetBindType(s)
    BY <2>2, AttributeStep
  <2>3. CASE \E s \in Statements : BindParameter(s)
    BY <2>3, BindStep
  <2>4. CASE \E s \in Statements : ResetParams(s)
    BY <2>4, ResetStep
  <2>5. CASE \E s \in Statements : Prepare(s) \/ PrepareFails(s)
    BY <2>5, PrepareStep
  <2> QED BY <1>2, <2>1, <2>2, <2>3, <2>4, <2>5 DEF Next
<1> QED BY <1>1, <1>2

LEMMA Invariance == Spec => []IInv
BY InitIInv, IInvStep, PTL DEF Spec

\* Every variable keeps its type, in particular every record number stays within
\* its vector, whatever is bound and prepared.
THEOREM BindingsTypeCorrect == Spec => []TypeOK
<1>1. IInv => TypeOK
  BY DEF IInv
<1> QED BY Invariance, <1>1, PTL

\* What the records of the descriptor in effect say about a parameter that a
\* prepared statement sends.
LEMMA SentParameters ==
    ASSUME IInv, NEW s \in Statements, NEW num \in Sent(s)
    PROVE  LET rec == apd[Effective(s)].records[num] IN
           /\ Agrees(rec, num <= apd[Effective(s)].count, Asked(s, num))
           /\ Asked(s, num) \in Bindings
           /\ Reads(s, num) <=> num <= apd[Effective(s)].count /\ rec.data # None
           /\ Value(s, num, 0).data = rec.data
           /\ Value(s, num, 0).type = rec.type
<1> DEFINE d == Effective(s)
<1>1. TypeOK /\ d \in Descriptors
  BY EffectiveIsDescriptor DEF IInv
<1>2. /\ apd[d].count \in 0..MaxParameters /\ ipd[s].count \in 0..MaxParameters
      /\ parameters[s] \in 0..MaxParameters
      /\ bindings[d] \in [Numbers -> Bindings]
  BY <1>1 DEF TypeOK, DescriptorsOf
<1>3. num \in 1..parameters[s] /\ parameters[s] <= ipd[s].count
  BY DEF Sent, IInv, ImpRecordsSuffice
<1>4. num \in Numbers
  BY <1>2, <1>3, MaxParametersAssumption DEF Numbers
<1>5. Asked(s, num) = bindings[d][num]
  BY DEF Asked, Effective
<1>6. Agrees(apd[d].records[num], num <= apd[d].count, bindings[d][num])
  BY <1>1, <1>4 DEF IInv, RecordsAgree, DescriptorAgrees
<1>7. num \in FullyBound(s) <=> num <= apd[d].count
  BY <1>2, <1>3, MaxParametersAssumption DEF FullyBound, Smaller
<1> QED BY <1>2, <1>4, <1>5, <1>6, <1>7 DEF Reads, Value

\* A parameter of a prepared query is sent from the buffer last bound to it in the
\* descriptor in effect, or as a null: for every number of statements, shared
\* descriptors and parameters.
THEOREM RequestIsCarried == Spec => []RequestCarriesBindings
<1>1. IInv => RequestCarriesBindings
  BY SentParameters DEF RequestCarriesBindings, Agrees
<1> QED BY Invariance, <1>1, PTL

\* No buffer is read as another C type than it was bound with, also after bind calls
\* that failed half-way.
THEOREM BuffersKeepTheirTypes == Spec => []BufferKeepsItsType
<1>1. IInv => BufferKeepsItsType
  <2> SUFFICES ASSUME IInv, NEW s \in Statements, NEW num \in Sent(s), Reads(s, num)
               PROVE  /\ Asked(s, num).kind # "none"
                      /\ Value(s, num, 0).data = Asked(s, num).data
                      /\ Value(s, num, 0).type = Asked(s, num).type
    BY DEF BufferKeepsItsType
  <2>1. Asked(s, num).kind \in {"none", "bound", "failed"}
    BY SentParameters DEF Bindings
  <2> QED BY <2>1, SentParameters DEF Agrees
<1> QED BY Invariance, <1>1, PTL

-----------------------------------------------------------------------------
(***************************************************************************)
(* The SQL type, the stride and the count of parameters                    *)
(***************************************************************************)

\* The types of every bind call agree about whether the value is a string, unless the
\* call is refused; then the octet length it stores is the width of an element.
TypesSuit ==
    \A pair \in TypePairs :
       ToCType(pair[2]) # "interval" =>
          (ValueType(pair) = "char" <=> ToCType(pair[2]) = "char")

StrideAgrees(desc, asked) ==
    \A n \in Numbers : asked[n].kind = "bound" => desc.records[n].octets = asked[n].width

TopIsBound(desc, asked) ==
    desc.count > 0 =>
       IsBound(desc.records[desc.count]) \/ asked[desc.count].kind = "failed"

StridesAgree == \A d \in Descriptors : StrideAgrees(apd[d], bindings[d])

TopsAreBound == \A d \in Descriptors : TopIsBound(apd[d], bindings[d])

\* A bound parameter of a statement has its SQL type in a record that is counted.
SqlTypeAgrees(imp, asked) ==
    \A n \in Numbers : asked[n].kind = "bound" =>
       n <= imp.count /\ imp.records[n].type = asked[n].sql

SqlTypesAgree ==
    \A s \in Statements \ exchanged :
       explicit_apd[s] = None /\ SqlTypeAgrees(ipd[s], bindings[s])

-----------------------------------------------------------------------------
(***************************************************************************)
(* One step, as far as it changes a descriptor and what is asked of it     *)
(***************************************************************************)

\* A step that replaces one application descriptor.
LEMMA OtherDescriptorsStay ==
    ASSUME TypeOK, NEW d \in Descriptors, NEW desc, NEW asked,
           apd' = [apd EXCEPT ![d] = desc], bindings' = [bindings EXCEPT ![d] = asked]
    PROVE  /\ apd'[d] = desc /\ bindings'[d] = asked
           /\ \A e \in Descriptors \ {d} : apd'[e] = apd[e] /\ bindings'[e] = bindings[e]
BY DEF TypeOK

LEMMA DescriptorFacts ==
    ASSUME IInv, NEW d \in Descriptors
    PROVE  /\ apd[d] \in DescriptorsOf(AppRecords)
           /\ apd[d].count \in 0..MaxParameters /\ MaxParameters \in Nat
           /\ bindings[d] \in [Numbers -> Bindings]
           /\ \A n \in Numbers : bindings[d][n].kind = "bound" => n <= apd[d].count
BY MaxParametersAssumption
   DEF IInv, TypeOK, DescriptorsOf, RecordsAgree, DescriptorAgrees, Agrees

\* A bind call that succeeds: the record and the request at its number, and the
\* others as far as they are counted.
LEMMA BindSucceedsEffect ==
    ASSUME IInv, NEW s \in Statements, NEW num \in Numbers, NEW pair \in TypePairs,
           NEW len \in Lengths, NEW data \in Buffers \cup {None}, NEW indicator \in BOOLEAN,
           BindSucceeds(s, num, pair, len, data, indicator)
    PROVE  LET d == Effective(s) IN
           /\ \A e \in Descriptors \ {d} : apd'[e] = apd[e] /\ bindings'[e] = bindings[e]
           /\ apd'[d].count = Larger(apd[d].count, num)
           /\ apd'[d].records[num].octets = Octets(pair, len)
           /\ apd'[d].records[num].data = data /\ apd'[d].records[num].indicator = indicator
           /\ \A n \in Numbers \ {num} :
                 /\ n <= apd[d].count => apd'[d].records[n] = apd[d].records[n]
                 /\ bindings'[d][n] = bindings[d][n]
           /\ data = None /\ ~indicator => bindings'[d][num] = NotBound
           /\ ~(data = None /\ ~indicator) =>
                 /\ bindings'[d][num].sql = pair[2]
                 /\ bindings'[d][num].width = Width(pair, len)
<1> DEFINE d == Effective(s)
           set == TypesSet(s, num, pair)
           rec == [set.app.records[num] EXCEPT !.octets = Octets(pair, len),
                                               !.indicator = indicator, !.data = data]
           desc == [set.app EXCEPT !.records[num] = rec]
           binding == IF data = None /\ ~indicator THEN NotBound
                      ELSE [kind |-> "bound", data |-> data, type |-> ValueType(pair),
                            sql |-> pair[2], width |-> Width(pair, len)]
           asked == [bindings[d] EXCEPT ![num] = binding]
<1>1. TypeOK /\ d \in Descriptors /\ bindings[d] \in [Numbers -> Bindings]
  BY EffectiveIsDescriptor DEF IInv, TypeOK
<1>2. /\ set.app \in DescriptorsOf(AppRecords)
      /\ set.app.count = Larger(apd[d].count, num)
      /\ \A n \in Numbers \ {num} : n <= apd[d].count =>
            set.app.records[n] = apd[d].records[n]
  BY <1>1, TypesSetLemma
<1>3. set.app.records[num] \in AppRecords
  BY <1>2 DEF DescriptorsOf
<1>4. rec.octets = Octets(pair, len) /\ rec.data = data /\ rec.indicator = indicator
  BY <1>3 DEF AppRecords
<1>5. /\ desc.count = set.app.count
      /\ desc.records[num] = rec
      /\ \A n \in Numbers \ {num} : desc.records[n] = set.app.records[n]
  BY <1>2 DEF DescriptorsOf
<1>6. asked[num] = binding /\ \A n \in Numbers \ {num} : asked[n] = bindings[d][n]
  BY <1>1
<1>7. apd' = [apd EXCEPT ![d] = desc] /\ bindings' = [bindings EXCEPT ![d] = asked]
  BY DEF BindSucceeds
<1>8. ~(data = None /\ ~indicator) => binding.sql = pair[2] /\ binding.width = Width(pair, len)
  OBVIOUS
<1>9. data = None /\ ~indicator => binding = NotBound
  OBVIOUS
<1> HIDE DEF rec, desc, binding, asked, set, d
<1>10. /\ apd'[d] = desc /\ bindings'[d] = asked
       /\ \A e \in Descriptors \ {d} : apd'[e] = apd[e] /\ bindings'[e] = bindings[e]
  BY <1>1, <1>7, OtherDescriptorsStay
<1> QED BY <1>2, <1>4, <1>5, <1>6, <1>8, <1>9, <1>10 DEF d

\* A bind call that fails: what was bound at its number is lost, and nothing else that
\* is counted changes.
LEMMA BindFailsEffect ==
    ASSUME IInv, NEW s \in Statements, NEW num \in Numbers, NEW pair \in TypePairs,
           NEW len \in Lengths, BindFails(s, num, pair, len)
    PROVE  LET d == Effective(s) IN
           /\ \A e \in Descriptors \ {d} : apd'[e] = apd[e] /\ bindings'[e] = bindings[e]
           /\ apd'[d].count = apd[d].count
           /\ num <= apd[d].count => bindings'[d][num].kind = "failed"
           /\ apd[d].count < num => bindings'[d][num] = bindings[d][num]
           /\ \A n \in Numbers \ {num} :
                 /\ n <= apd[d].count => apd'[d].records[n] = apd[d].records[n]
                 /\ bindings'[d][n] = bindings[d][n]
<1> DEFINE d == Effective(s)
           set == TypesSet(s, num, pair)
           desc == SetCount(set.app, apd[d].count)
           binding == IF num <= apd[d].count THEN [bindings[d][num] EXCEPT !.kind = "failed"]
                      ELSE bindings[d][num]
           asked == [bindings[d] EXCEPT ![num] = binding]
<1>1. TypeOK /\ d \in Descriptors /\ bindings[d] \in [Numbers -> Bindings]
  BY EffectiveIsDescriptor DEF IInv, TypeOK
<1>2. apd[d].count \in 0..MaxParameters /\ MaxParameters \in Nat
  BY <1>1, DescriptorFacts
<1>3. /\ set.app \in DescriptorsOf(AppRecords)
      /\ \A n \in Numbers \ {num} : n <= apd[d].count =>
            set.app.records[n] = apd[d].records[n]
  BY <1>1, TypesSetLemma
<1>4. desc.count = apd[d].count /\ desc.records = set.app.records
  BY <1>2, <1>3, SetCountLemma
<1>5. asked[num] = binding /\ \A n \in Numbers \ {num} : asked[n] = bindings[d][n]
  BY <1>1
<1>6. num <= apd[d].count => binding.kind = "failed"
  <2>1. bindings[d][num] \in Bindings
    BY <1>1
  <2> QED BY <2>1 DEF Bindings
<1>7. apd[d].count < num => binding = bindings[d][num]
  BY <1>2 DEF Numbers
<1>8. apd' = [apd EXCEPT ![d] = desc] /\ bindings' = [bindings EXCEPT ![d] = asked]
  BY <1>1 DEF BindFails, TypeOK, SetCount
<1> HIDE DEF desc, binding, asked, set, d
<1>9. /\ apd'[d] = desc /\ bindings'[d] = asked
      /\ \A e \in Descriptors \ {d} : apd'[e] = apd[e] /\ bindings'[e] = bindings[e]
  BY <1>1, <1>8, OtherDescriptorsStay
<1> QED BY <1>3, <1>4, <1>5, <1>6, <1>7, <1>9 DEF d

\* Unbinding the highest parameter: the records stay, the count finds the next.
LEMMA UnbindEffect ==
    ASSUME IInv, NEW s \in Statements, NEW num \in Numbers, Unbind(s, num)
    PROVE  LET d == Effective(s) IN
           /\ \A e \in Descriptors \ {d} : apd'[e] = apd[e] /\ bindings'[e] = bindings[e]
           /\ apd'[d].records = apd[d].records
           /\ apd'[d].count \in 0..MaxParameters
           /\ apd'[d].count # 0 => IsBound(apd[d].records[apd'[d].count])
           /\ bindings'[d][num] = NotBound
           /\ \A n \in Numbers \ {num} : bindings'[d][n] = bindings[d][n]
<1> DEFINE d == Effective(s)
           asked == [bindings[d] EXCEPT ![num] = NotBound]
<1>1. TypeOK /\ d \in Descriptors /\ bindings[d] \in [Numbers -> Bindings]
      /\ apd[d] \in DescriptorsOf(AppRecords)
  BY EffectiveIsDescriptor DEF IInv, TypeOK
<1>2. PICK top \in 0..MaxParameters :
         /\ NextHighestBound(apd[d], num, top)
         /\ apd' = [apd EXCEPT ![d] = SetCount(apd[d], top)]
  BY <1>1 DEF Unbind, TypeOK, SetCount
<1>3. bindings' = [bindings EXCEPT ![d] = asked]
  BY <1>1 DEF Unbind, TypeOK
<1>4. asked[num] = NotBound /\ \A n \in Numbers \ {num} : asked[n] = bindings[d][n]
  BY <1>1
<1>5. SetCount(apd[d], top).count = top /\ SetCount(apd[d], top).records = apd[d].records
  BY <1>1, SetCountLemma
<1> HIDE DEF asked, d
<1>6. /\ apd'[d] = SetCount(apd[d], top) /\ bindings'[d] = asked
      /\ \A e \in Descriptors \ {d} : apd'[e] = apd[e] /\ bindings'[e] = bindings[e]
  BY <1>1, <1>2, <1>3, OtherDescriptorsStay
<1>7. top # 0 => IsBound(apd[d].records[top])
  BY <1>2 DEF NextHighestBound
<1> QED BY <1>4, <1>5, <1>6, <1>7 DEF d

\* Resetting all parameters of a statement, and a new or freed descriptor.
LEMMA ClearedEffect ==
    ASSUME IInv, NEW d \in Descriptors,
           Blank(d) \/ \E s \in Statements : d = Effective(s) /\ ResetParams(s)
    PROVE  /\ \A e \in Descriptors \ {d} : apd'[e] = apd[e] /\ bindings'[e] = bindings[e]
           /\ apd'[d].count = 0
           /\ \A n \in Numbers : bindings'[d][n] = NotBound
<1>1. TypeOK /\ apd[d] \in DescriptorsOf(AppRecords)
  BY DEF IInv, TypeOK
<1>2. CASE Blank(d)
  BY <1>1, <1>2 DEF Blank, TypeOK, NoRecords
<1>3. CASE \E s \in Statements : d = Effective(s) /\ ResetParams(s)
  BY <1>1, <1>3 DEF ResetParams, TypeOK, SetCount, DescriptorsOf
<1> QED BY <1>2, <1>3

-----------------------------------------------------------------------------
(***************************************************************************)
(* The count is the highest bound parameter                                *)
(***************************************************************************)

LEMMA TopOfOne ==
    ASSUME TopsAreBound, NEW d \in Descriptors,
           \A e \in Descriptors \ {d} : apd'[e] = apd[e] /\ bindings'[e] = bindings[e],
           TopIsBound(apd'[d], bindings'[d])
    PROVE  TopsAreBound'
BY DEF TopsAreBound, TopIsBound

LEMMA TopsStep ==
    ASSUME IInv, TopsAreBound, [Next]_vars
    PROVE  TopsAreBound'
<1>1. CASE UNCHANGED <<apd, bindings>>
  BY <1>1 DEF TopsAreBound, TopIsBound
<1>2. ASSUME NEW d \in Descriptors,
             Blank(d) \/ \E s \in Statements : d = Effective(s) /\ ResetParams(s)
      PROVE  TopsAreBound'
  BY <1>2, ClearedEffect, TopOfOne DEF TopIsBound
<1>3. ASSUME NEW s \in Statements, BindParameter(s) PROVE TopsAreBound'
  <2> DEFINE d == Effective(s)
  <2>1. d \in Descriptors
    BY EffectiveIsDescriptor DEF IInv
  <2>2. /\ apd[d].count \in 0..MaxParameters /\ MaxParameters \in Nat
        /\ TopIsBound(apd[d], bindings[d])
    BY <2>1, DescriptorFacts DEF TopsAreBound
  <2>3. PICK num \in Numbers, pair \in TypePairs, len \in Lengths,
             data \in Buffers \cup {None}, indicator \in BOOLEAN :
           \/ num >= apd[d].count /\ Unbind(s, num)
           \/ /\ ~(data = None /\ ~indicator /\ num >= apd[d].count)
              /\ BindSucceeds(s, num, pair, len, data, indicator)
           \/ BindFails(s, num, pair, len)
    BY <1>3 DEF BindParameter
  <2>4. CASE num >= apd[d].count /\ Unbind(s, num)
    <3>1. TopIsBound(apd'[d], bindings'[d])
      BY <2>4, UnbindEffect DEF TopIsBound
    <3> QED  BY <2>1, <2>4, <3>1, UnbindEffect, TopOfOne
  <2>5. CASE /\ ~(data = None /\ ~indicator /\ num >= apd[d].count)
             /\ BindSucceeds(s, num, pair, len, data, indicator)
    <3>1. /\ apd'[d].count = Larger(apd[d].count, num)
          /\ apd'[d].records[num].data = data /\ apd'[d].records[num].indicator = indicator
          /\ \A n \in Numbers \ {num} :
                /\ n <= apd[d].count => apd'[d].records[n] = apd[d].records[n]
                /\ bindings'[d][n] = bindings[d][n]
      BY <2>5, BindSucceedsEffect
    <3>2. CASE num >= apd[d].count
      <4>1. apd'[d].count = num
        BY <2>2, <3>1, <3>2 DEF Larger, Numbers
      <4>2. IsBound(apd'[d].records[num])
        BY <2>5, <3>1, <3>2, Zenon DEF IsBound
      <4>3. TopIsBound(apd'[d], bindings'[d])
        BY <4>1, <4>2 DEF TopIsBound
      <4> QED  BY <2>1, <2>5, <4>3, BindSucceedsEffect, TopOfOne
    <3>3. CASE ~(num >= apd[d].count)
      <4>1. /\ apd'[d].count = apd[d].count /\ apd[d].count \in Numbers \ {num}
            /\ apd[d].count <= apd[d].count /\ apd[d].count > 0
        BY <2>2, <3>1, <3>3 DEF Larger, Numbers
      <4>2. TopIsBound(apd'[d], bindings'[d])
        BY <2>2, <3>1, <4>1 DEF TopIsBound
      <4> QED  BY <2>1, <2>5, <4>2, BindSucceedsEffect, TopOfOne
    <3> QED  BY <3>2, <3>3
  <2>6. CASE BindFails(s, num, pair, len)
    <3>1. /\ apd'[d].count = apd[d].count
          /\ num <= apd[d].count => bindings'[d][num].kind = "failed"
          /\ \A n \in Numbers \ {num} :
                /\ n <= apd[d].count => apd'[d].records[n] = apd[d].records[n]
                /\ bindings'[d][n] = bindings[d][n]
      BY <2>6, BindFailsEffect
    <3>2. CASE apd[d].count = num \/ apd[d].count = 0
      BY <2>1, <2>2, <2>6, <3>1, <3>2, BindFailsEffect, TopOfOne DEF TopIsBound, Numbers
    <3>3. CASE apd[d].count \in Numbers \ {num}
      <4>1. TopIsBound(apd'[d], bindings'[d])
        BY <2>2, <3>1, <3>3 DEF TopIsBound
      <4> QED  BY <2>1, <2>6, <4>1, BindFailsEffect, TopOfOne
    <3> QED  BY <2>2, <3>2, <3>3 DEF Numbers
  <2> QED  BY <2>3, <2>4, <2>5, <2>6
<1>4. CASE \E d \in Explicits : AllocDescriptor(d) \/ FreeDescriptor(d)
  BY <1>2, <1>4 DEF AllocDescriptor, FreeDescriptor, Descriptors
<1>5. CASE \E s \in Statements : ResetParams(s)
  BY <1>2, <1>5, EffectiveIsDescriptor DEF IInv
<1>6. CASE \E s \in Statements : SetDescriptor(s) \/ SetBindType(s) \/ Prepare(s) \/ PrepareFails(s)
  BY <1>1, <1>6 DEF SetDescriptor, SetBindType, Prepare, PrepareFails
<1> QED  BY <1>1, <1>3, <1>4, <1>5, <1>6 DEF Next, vars

LEMMA TopsBegin == Init => TopsAreBound
BY DEF Init, TopsAreBound, TopIsBound, NoRecords

\* SQL_DESC_COUNT is the number of the highest bound parameter, after every sequence of
\* binding and unbinding and in every descriptor, but for a parameter whose last bind
\* call failed.
THEOREM CountIsTheHighestBound == Spec => []CountIsHighestBound
<1>1. Init => TopsAreBound
  BY TopsBegin
<1>2. IInv /\ TopsAreBound /\ [Next]_vars => TopsAreBound'
  BY TopsStep
<1>3. TopsAreBound => CountIsHighestBound
  BY DEF TopsAreBound, TopIsBound, CountIsHighestBound
<1> QED  BY Invariance, <1>1, <1>2, <1>3, PTL DEF Spec

-----------------------------------------------------------------------------
(***************************************************************************)
(* The stride of a bound parameter is the width of an element              *)
(***************************************************************************)

LEMMA OctetsAreWidth ==
    ASSUME TypesSuit, NEW pair \in TypePairs, NEW len \in Lengths, ~BindThrows(pair, len)
    PROVE  Octets(pair, len) = Width(pair, len)
BY DEF TypesSuit, BindThrows, Octets, Width, OctetLength

LEMMA StrideOfOne ==
    ASSUME StridesAgree, NEW d \in Descriptors,
           \A e \in Descriptors \ {d} : apd'[e] = apd[e] /\ bindings'[e] = bindings[e],
           StrideAgrees(apd'[d], bindings'[d])
    PROVE  StridesAgree'
BY DEF StridesAgree, StrideAgrees

\* The request at one number changed, every other is as it was and so is its record.
LEMMA StrideOfRest ==
    ASSUME IInv, StridesAgree, NEW d \in Descriptors, NEW num \in Numbers,
           \A n \in Numbers \ {num} :
              /\ n <= apd[d].count => apd'[d].records[n] = apd[d].records[n]
              /\ bindings'[d][n] = bindings[d][n],
           bindings'[d][num].kind = "bound" => apd'[d].records[num].octets = bindings'[d][num].width
    PROVE  StrideAgrees(apd'[d], bindings'[d])
BY DescriptorFacts DEF StridesAgree, StrideAgrees

LEMMA StridesStep ==
    ASSUME TypesSuit, IInv, StridesAgree, [Next]_vars
    PROVE  StridesAgree'
<1>1. CASE UNCHANGED <<apd, bindings>>
  BY <1>1 DEF StridesAgree, StrideAgrees
<1>2. ASSUME NEW d \in Descriptors,
             Blank(d) \/ \E s \in Statements : d = Effective(s) /\ ResetParams(s)
      PROVE  StridesAgree'
  <2>1. StrideAgrees(apd'[d], bindings'[d])
    BY <1>2, ClearedEffect DEF StrideAgrees, NotBound
  <2> QED  BY <1>2, <2>1, ClearedEffect, StrideOfOne
<1>3. ASSUME NEW s \in Statements, BindParameter(s) PROVE StridesAgree'
  <2> DEFINE d == Effective(s)
  <2>1. d \in Descriptors
    BY EffectiveIsDescriptor DEF IInv
  <2>2. PICK num \in Numbers, pair \in TypePairs, len \in Lengths,
             data \in Buffers \cup {None}, indicator \in BOOLEAN :
           \/ Unbind(s, num)
           \/ BindSucceeds(s, num, pair, len, data, indicator)
           \/ BindFails(s, num, pair, len)
    BY <1>3 DEF BindParameter
  <2>3. CASE Unbind(s, num)
    <3>1. StrideAgrees(apd'[d], bindings'[d])
      BY <2>1, <2>3, UnbindEffect DEF StridesAgree, StrideAgrees, NotBound
    <3> QED  BY <2>1, <2>3, <3>1, UnbindEffect, StrideOfOne
  <2>4. CASE BindSucceeds(s, num, pair, len, data, indicator)
    <3>1. Octets(pair, len) = Width(pair, len)
      BY <2>4, OctetsAreWidth DEF BindSucceeds
    <3>2. bindings'[d][num].kind = "bound" =>
             apd'[d].records[num].octets = bindings'[d][num].width
      BY <2>4, <3>1, BindSucceedsEffect DEF NotBound
    <3>3. StrideAgrees(apd'[d], bindings'[d])
      BY <2>1, <2>4, <3>2, BindSucceedsEffect, StrideOfRest
    <3> QED  BY <2>1, <2>4, <3>3, BindSucceedsEffect, StrideOfOne
  <2>5. CASE BindFails(s, num, pair, len)
    <3>1. bindings'[d][num].kind # "bound"
      <4>1. CASE num <= apd[d].count
        BY <2>5, <4>1, BindFailsEffect
      <4>2. CASE ~(num <= apd[d].count)
        <5>1. apd[d].count < num
          BY <2>1, <4>2, DescriptorFacts DEF Numbers
        <5> QED  BY <2>1, <2>5, <4>2, <5>1, BindFailsEffect, DescriptorFacts
      <4> QED  BY <4>1, <4>2
    <3>2. StrideAgrees(apd'[d], bindings'[d])
      BY <2>1, <2>5, <3>1, BindFailsEffect, StrideOfRest
    <3> QED  BY <2>1, <2>5, <3>2, BindFailsEffect, StrideOfOne
  <2> QED  BY <2>2, <2>3, <2>4, <2>5
<1>4. CASE \E d \in Explicits : AllocDescriptor(d) \/ FreeDescriptor(d)
  BY <1>2, <1>4 DEF AllocDescriptor, FreeDescriptor, Descriptors
<1>5. CASE \E s \in Statements : ResetParams(s)
  BY <1>2, <1>5, EffectiveIsDescriptor DEF IInv
<1>6. CASE \E s \in Statements : SetDescriptor(s) \/ SetBindType(s) \/ Prepare(s) \/ PrepareFails(s)
  BY <1>1, <1>6 DEF SetDescriptor, SetBindType, Prepare, PrepareFails
<1> QED  BY <1>1, <1>3, <1>4, <1>5, <1>6 DEF Next, vars

LEMMA StridesBegin == Init => StridesAgree
BY DEF Init, StridesAgree, StrideAgrees, NotBound

\* Set k of a parameter array is read from element k of the buffer, by column or by
\* row, whenever the C type of every bind call suits its SQL type as TypesSuit says:
\* the condition that the calls of the bindings_stride run do not meet.
THEOREM SetsReadTheirElements == TypesSuit => (Spec => []SetReadsItsElement)
<1> SUFFICES ASSUME TypesSuit PROVE Spec => []SetReadsItsElement
  OBVIOUS
<1>1. Init => StridesAgree
  BY StridesBegin
<1>2. IInv /\ StridesAgree /\ [Next]_vars => StridesAgree'
  BY StridesStep
<1>3. IInv /\ StridesAgree => SetReadsItsElement
  <2> SUFFICES ASSUME IInv, StridesAgree, NEW s \in Statements, NEW num \in Sent(s),
                      NEW k \in 0..LastSet, Asked(s, num).kind = "bound"
               PROVE  Value(s, num, k).offset =
                         k * (IF bindType[Effective(s)] = 0 THEN Asked(s, num).width
                              ELSE bindType[Effective(s)])
    BY DEF SetReadsItsElement
  <2>1. num \in Numbers /\ Effective(s) \in Descriptors
    BY EffectiveIsDescriptor, MaxParametersAssumption DEF Sent, IInv, TypeOK, Numbers
  <2>2. Asked(s, num) = bindings[Effective(s)][num]
    BY DEF Asked, Effective
  <2>3. apd[Effective(s)].records[num].octets = Asked(s, num).width
    BY <2>1, <2>2 DEF StridesAgree, StrideAgrees
  <2> QED  BY <2>3 DEF Value, Stride
<1> QED  BY Invariance, <1>1, <1>2, <1>3, PTL DEF Spec

-----------------------------------------------------------------------------
(***************************************************************************)
(* A value is sent as the SQL type it was bound with                       *)
(***************************************************************************)

\* A statement whose descriptor was never set uses its own, and nobody else does.
LEMMA OwnDescriptor ==
    ASSUME IInv, SqlTypesAgree, NEW s \in Statements \ exchanged
    PROVE  /\ Effective(s) = s /\ s \in Descriptors
           /\ \A t \in Statements \ {s} : Effective(t) # s
BY ExplicitsAssumption DEF IInv, TypeOK, SqlTypesAgree, Effective, Descriptors

LEMMA ImpFacts ==
    ASSUME IInv, NEW s \in Statements
    PROVE  /\ ipd[s] \in DescriptorsOf(ImpRecords)
           /\ ipd[s].count \in 0..MaxParameters /\ MaxParameters \in Nat
BY MaxParametersAssumption DEF IInv, TypeOK, DescriptorsOf

LEMMA ImpSetLemma ==
    ASSUME IInv, NEW s \in Statements, NEW num \in Numbers, NEW pair \in TypePairs
    PROVE  LET imp == TypesSet(s, num, pair).imp IN
           /\ imp \in DescriptorsOf(ImpRecords)
           /\ imp.count = Larger(ipd[s].count, num)
           /\ imp.records[num].type = pair[2]
           /\ \A n \in Numbers \ {num} : n <= ipd[s].count => imp.records[n] = ipd[s].records[n]
<1> DEFINE i == GetRecord(ipd[s], num, FreshImpRecord)
           imp == [i EXCEPT !.records[num].type = pair[2]]
<1>1. /\ ipd[s] \in DescriptorsOf(ImpRecords)
      /\ ipd[s].count \in 0..MaxParameters /\ MaxParameters \in Nat
  BY ImpFacts
<1>2. /\ i \in DescriptorsOf(ImpRecords) /\ i.count = Larger(ipd[s].count, num)
      /\ \A n \in Numbers : i.records[n] =
            IF ipd[s].count < n /\ n <= num THEN FreshImpRecord ELSE ipd[s].records[n]
  BY <1>1, GetRecordLemma, FreshRecords
<1>3. \A n \in Numbers : n <= ipd[s].count => i.records[n] = ipd[s].records[n]
  BY <1>1, <1>2 DEF Numbers
<1>4. imp.count = i.count /\ \A n \in Numbers \ {num} : imp.records[n] = i.records[n]
  BY <1>2 DEF DescriptorsOf
<1>5. imp.records[num].type = pair[2] /\ imp \in DescriptorsOf(ImpRecords)
  BY <1>2, ValueTypeLemma DEF DescriptorsOf, ImpRecords
<1>6. TypesSet(s, num, pair).imp = imp
  BY DEF TypesSet
<1> HIDE DEF i, imp
<1> QED  BY <1>2, <1>3, <1>4, <1>5, <1>6

\* The records of bound parameters survive a preparation.
LEMMA PreparedKeeps ==
    ASSUME IInv, SqlTypesAgree, NEW s \in Statements \ exchanged, NEW num \in 0..MaxParameters
    PROVE  /\ SqlTypeAgrees(KeptRecords(s), bindings[s])
           /\ SqlTypeAgrees(RecordsFor(s, num), bindings[s])
<1>1. Effective(s) = s /\ s \in Descriptors /\ SqlTypeAgrees(ipd[s], bindings[s])
  BY OwnDescriptor DEF SqlTypesAgree
<1>2. /\ ipd[s] \in DescriptorsOf(ImpRecords)
      /\ ipd[s].count \in 0..MaxParameters /\ MaxParameters \in Nat
      /\ apd[s].count \in 0..MaxParameters
      /\ \A n \in Numbers : bindings[s][n].kind = "bound" => n <= apd[s].count
  BY <1>1, ImpFacts, DescriptorFacts
<1>3. Smaller(ipd[s].count, apd[s].count) \in 0..MaxParameters
  BY <1>2 DEF Smaller
<1>4. /\ KeptRecords(s) \in DescriptorsOf(ImpRecords)
      /\ KeptRecords(s).count = Smaller(ipd[s].count, apd[s].count)
      /\ KeptRecords(s).records = ipd[s].records
  <2> DEFINE least == Smaller(ipd[s].count, apd[s].count)
  <2>1. KeptRecords(s) = SetCount(ipd[s], least)
    BY <1>1 DEF KeptRecords
  <2> HIDE DEF least
  <2>2. least \in 0..MaxParameters
    BY <1>3 DEF least
  <2>3. /\ SetCount(ipd[s], least) \in DescriptorsOf(ImpRecords)
        /\ SetCount(ipd[s], least).count = least
        /\ SetCount(ipd[s], least).records = ipd[s].records
    BY <1>2, <2>2, SetCountLemma
  <2> QED  BY <2>1, <2>3 DEF least
<1>5. SqlTypeAgrees(KeptRecords(s), bindings[s])
  BY <1>1, <1>2, <1>4 DEF SqlTypeAgrees, Smaller, Numbers
<1>6. CASE ~(KeptRecords(s).count < num)
  BY <1>5, <1>6 DEF RecordsFor
<1>7. CASE KeptRecords(s).count < num
  <2> DEFINE g == GetRecord(KeptRecords(s), num, FreshImpRecord)
  <2>1. num \in Numbers /\ KeptRecords(s).count \in 0..MaxParameters
    BY <1>2, <1>3, <1>4, <1>7 DEF Numbers
  <2>2. /\ g.count = Larger(KeptRecords(s).count, num)
        /\ \A n \in Numbers : g.records[n] =
              IF KeptRecords(s).count < n /\ n <= num THEN FreshImpRecord
              ELSE KeptRecords(s).records[n]
    BY <1>4, <2>1, GetRecordLemma, FreshRecords
  <2> HIDE DEF g
  <2>3. SqlTypeAgrees(g, bindings[s])
    BY <1>5, <2>1, <2>2, <1>2 DEF SqlTypeAgrees, Larger, Numbers
  <2> QED  BY <1>5, <1>7, <2>3 DEF RecordsFor, g
<1> QED  BY <1>5, <1>6, <1>7

\* A bind call of a statement, for the statement itself and for the others.
LEMMA SqlTypesBindStep ==
    ASSUME IInv, SqlTypesAgree, NEW t \in Statements, BindParameter(t)
    PROVE  SqlTypesAgree'
<1> SUFFICES ASSUME NEW s \in Statements \ exchanged PROVE SqlTypeAgrees(ipd'[s], bindings'[s])
  BY DEF SqlTypesAgree, BindParameter
<1>1. /\ Effective(s) = s /\ s \in Descriptors /\ SqlTypeAgrees(ipd[s], bindings[s])
      /\ \A u \in Statements \ {s} : Effective(u) # s
  BY OwnDescriptor DEF SqlTypesAgree
<1>2. PICK num \in Numbers, pair \in TypePairs, len \in Lengths,
           data \in Buffers \cup {None}, indicator \in BOOLEAN :
         \/ Unbind(t, num)
         \/ BindSucceeds(t, num, pair, len, data, indicator)
         \/ BindFails(t, num, pair, len)
  BY DEF BindParameter
<1>3. CASE t # s
  <2>1. ipd'[s] = ipd[s]
    BY <1>2, <1>3 DEF Unbind, BindSucceeds, BindFails, IInv, TypeOK
  <2>2. s \in Descriptors \ {Effective(t)}
    BY <1>1, <1>3
  <2>3. bindings'[s] = bindings[s]
    BY <1>2, <2>2, UnbindEffect, BindSucceedsEffect, BindFailsEffect
  <2> QED  BY <1>1, <2>1, <2>3
<1>4. CASE t = s
  <2> DEFINE set == TypesSet(s, num, pair)
  <2>1. /\ set.imp \in DescriptorsOf(ImpRecords)
        /\ set.imp.count = Larger(ipd[s].count, num)
        /\ set.imp.records[num].type = pair[2]
        /\ \A n \in Numbers \ {num} : n <= ipd[s].count => set.imp.records[n] = ipd[s].records[n]
    BY ImpSetLemma
  <2>2. /\ ipd[s].count \in 0..MaxParameters /\ MaxParameters \in Nat
        /\ apd[s].count \in 0..MaxParameters
        /\ \A n \in Numbers : bindings[s][n].kind = "bound" => n <= apd[s].count
    BY <1>1, ImpFacts, DescriptorFacts
  <2>3. CASE Unbind(s, num)
    <3>1. ipd'[s] = ipd[s]
      BY <2>3 DEF Unbind
    <3>2. /\ bindings'[s][num].kind = "none"
          /\ \A n \in Numbers \ {num} : bindings'[s][n] = bindings[s][n]
      BY <1>1, <2>3, UnbindEffect DEF NotBound
    <3> QED  BY <1>1, <3>1, <3>2 DEF SqlTypeAgrees
  <2>4. CASE BindSucceeds(s, num, pair, len, data, indicator)
    <3>1. ipd'[s] = set.imp
      BY <2>4 DEF BindSucceeds, IInv, TypeOK
    <3>2. bindings'[s][num].kind = "bound" => bindings'[s][num].sql = pair[2]
      BY <1>1, <2>4, BindSucceedsEffect DEF NotBound
    <3>3. \A n \in Numbers \ {num} : bindings'[s][n] = bindings[s][n]
      BY <1>1, <2>4, BindSucceedsEffect
    <3> HIDE DEF set
    <3> QED  BY <1>1, <2>1, <2>2, <3>1, <3>2, <3>3 DEF SqlTypeAgrees, Larger, Numbers
  <2>5. CASE BindFails(s, num, pair, len)
    <3>1. ipd'[s] = SetCount(set.imp, ipd[s].count)
      BY <2>5 DEF BindFails, IInv, TypeOK, SetCount
    <3> DEFINE imp == set.imp
    <3>2. ipd'[s].count = ipd[s].count /\ ipd'[s].records = set.imp.records
      <4>1. imp \in DescriptorsOf(ImpRecords) /\ ipd'[s] = [imp EXCEPT !.count = ipd[s].count]
        BY <2>1, <3>1 DEF SetCount
      <4> HIDE DEF imp
      <4>2. ipd'[s].count = ipd[s].count /\ ipd'[s].records = imp.records
        BY <4>1 DEF DescriptorsOf
      <4> QED  BY <4>2 DEF imp
    <3>3. bindings'[s][num].kind # "bound"
      <4>1. CASE num <= apd[s].count
        BY <1>1, <2>5, <4>1, BindFailsEffect
      <4>2. CASE ~(num <= apd[s].count)
        <5>1. apd[s].count < num
          BY <2>2, <4>2 DEF Numbers
        <5> QED  BY <1>1, <2>2, <2>5, <4>2, <5>1, BindFailsEffect
      <4> QED  BY <4>1, <4>2
    <3>4. \A n \in Numbers \ {num} : bindings'[s][n] = bindings[s][n]
      BY <1>1, <2>5, BindFailsEffect
    <3> HIDE DEF set
    <3> QED  BY <1>1, <2>1, <3>2, <3>3, <3>4 DEF SqlTypeAgrees
  <2> QED  BY <1>2, <1>4, <2>3, <2>4, <2>5
<1> QED  BY <1>3, <1>4

LEMMA SqlTypesStep ==
    ASSUME IInv, SqlTypesAgree, [Next]_vars
    PROVE  SqlTypesAgree'
<1>1. CASE UNCHANGED vars
  BY <1>1 DEF SqlTypesAgree, SqlTypeAgrees, vars
<1>2. ASSUME NEW d \in Explicits, AllocDescriptor(d) \/ FreeDescriptor(d) PROVE SqlTypesAgree'
  <2> SUFFICES ASSUME NEW s \in Statements \ exchanged
               PROVE  explicit_apd'[s] = None /\ SqlTypeAgrees(ipd'[s], bindings'[s])
    BY <1>2 DEF SqlTypesAgree, AllocDescriptor, FreeDescriptor
  <2>1. s \in Descriptors \ {d} /\ d \in Descriptors
    BY ExplicitsAssumption DEF Descriptors
  <2>2. bindings'[s] = bindings[s]
    BY <1>2, <2>1, ClearedEffect DEF AllocDescriptor, FreeDescriptor
  <2>3. ipd'[s] = ipd[s] /\ explicit_apd'[s] = None
    BY <1>2 DEF AllocDescriptor, FreeDescriptor, SqlTypesAgree
  <2> QED  BY <2>2, <2>3 DEF SqlTypesAgree
<1>3. ASSUME NEW t \in Statements, ResetParams(t) PROVE SqlTypesAgree'
  <2> SUFFICES ASSUME NEW s \in Statements \ exchanged
               PROVE  explicit_apd'[s] = None /\ SqlTypeAgrees(ipd'[s], bindings'[s])
    BY <1>3 DEF SqlTypesAgree, ResetParams
  <2>1. ipd'[s] = ipd[s] /\ explicit_apd'[s] = None
    BY <1>3 DEF ResetParams, SqlTypesAgree
  <2>2. s \in Descriptors /\ Effective(t) \in Descriptors
    BY OwnDescriptor, EffectiveIsDescriptor DEF IInv
  <2>3. \A n \in Numbers : bindings'[s][n] \in {bindings[s][n], NotBound}
    BY <1>3, <2>2, ClearedEffect
  <2> QED  BY <2>1, <2>3 DEF SqlTypesAgree, SqlTypeAgrees, NotBound
<1>4. ASSUME NEW t \in Statements, SetDescriptor(t) \/ SetBindType(t) PROVE SqlTypesAgree'
  BY <1>4 DEF SqlTypesAgree, SqlTypeAgrees, SetDescriptor, SetBindType, IInv, TypeOK
<1>5. ASSUME NEW t \in Statements, Prepare(t) \/ PrepareFails(t) PROVE SqlTypesAgree'
  <2> SUFFICES ASSUME NEW s \in Statements \ exchanged
               PROVE  SqlTypeAgrees(ipd'[s], bindings[s])
    BY <1>5 DEF SqlTypesAgree, Prepare, PrepareFails
  <2>1. PICK num \in 0..MaxParameters :
           \/ ipd' = [ipd EXCEPT ![t] = RecordsFor(t, num)]
           \/ ipd' = [ipd EXCEPT ![t] = KeptRecords(t)]
    BY <1>5, MaxParametersAssumption DEF Prepare, PrepareFails
  <2>2. CASE s = t
    BY <2>1, <2>2, PreparedKeeps DEF IInv, TypeOK
  <2>3. CASE s # t
    BY <2>1, <2>3 DEF SqlTypesAgree, IInv, TypeOK
  <2> QED  BY <2>2, <2>3
<1> QED  BY <1>1, <1>2, <1>3, <1>4, <1>5, SqlTypesBindStep DEF Next

LEMMA SqlTypesBegin == Init => SqlTypesAgree
BY DEF Init, SqlTypesAgree, SqlTypeAgrees, NotBound, Descriptors

\* A value is sent as the SQL type it was bound with, whatever was prepared, bound or
\* failed to bind between, as long as the statement keeps its own descriptor.
THEOREM SqlTypesAreKept == Spec => []SqlTypeIsKept
<1>1. Init => SqlTypesAgree
  BY SqlTypesBegin
<1>2. IInv /\ SqlTypesAgree /\ [Next]_vars => SqlTypesAgree'
  BY SqlTypesStep
<1>3. IInv /\ SqlTypesAgree => SqlTypeIsKept
  <2> SUFFICES ASSUME IInv, SqlTypesAgree, NEW s \in Statements \ exchanged,
                      NEW num \in Sent(s), Asked(s, num).kind = "bound"
               PROVE  Value(s, num, 0).sql = Asked(s, num).sql
    BY DEF SqlTypeIsKept
  <2>1. num \in Numbers
    BY MaxParametersAssumption DEF Sent, IInv, TypeOK, Numbers
  <2>2. Asked(s, num) = bindings[s][num]
    BY OwnDescriptor DEF Asked, Effective
  <2>3. ipd[s].records[num].type = Asked(s, num).sql
    BY <2>1, <2>2 DEF SqlTypesAgree, SqlTypeAgrees
  <2> QED  BY <2>3 DEF Value
<1> QED  BY Invariance, <1>1, <1>2, <1>3, PTL DEF Spec
=============================================================================
