--------------------------- MODULE LoadDef_proofs ---------------------------
(***************************************************************************)
(* Theorems about the properties of a request, for any texts, sources,     *)
(* scripts and parts.                                                      *)
(***************************************************************************)
EXTENDS LoadDef, TLAPS

USE LoadDefAssumption DEF LoadDefAssumption

Places == Reading \cup {"init", "fill", "pre", "sent", "reported", "raised"}

\* What can become of a part.
Filling == {Literal} \cup UNION {[S -> AllValues] : S \in SUBSET Keys}

-----------------------------------------------------------------------------
\* The parts filled so far and those left are the parts of the request.
FillInv ==
    /\ filled \in Seq(Filling)
    /\ Len(filled) <= Len(request.parts)
    /\ pc \in Reading \cup {"init"} => filled = <<>>
    /\ pc = "fill" => \A j \in 1..Len(todo) :
                         /\ Len(filled) + j \in DOMAIN request.parts
                         /\ todo[j] = request.parts[Len(filled) + j]

\* A part that is left as it is has an error or a conflict; a part that is
\* filled has its values.
LiteralInv ==
    \A i \in DOMAIN filled :
        IF filled[i] = Literal
        THEN errors # {} \/ \E k \in request.parts[i].keys : infile[k] = Conflict
        ELSE \A k \in request.parts[i].keys : filled[i][k] = NoValue => Mistaken(k)

\* A request is sent only without errors.
SentInv == pc = "sent" => errors = {}

IInv == TypeOK /\ FillInv /\ LiteralInv /\ SentInv

-----------------------------------------------------------------------------
\* The request is one that can be made.
LEMMA RequestTyped ==
    ASSUME TypeOK
    PROVE  /\ request \in RequestType /\ Text \in Seq(Occurrence)
           /\ request.imported \in Seq(Occurrence)
           /\ request.text \in Seq(Occurrence) /\ request.init \in Seq(Setting)
           /\ request.pre \in Seq(Setting) /\ request.parts \in Seq(Part)
           /\ request.insecure \in BOOLEAN
           /\ \A s \in Outside : request.given[s] \subseteq Keys
BY DEF TypeOK, RequestType, Text

\* The value of a property is the first offer that is not None.
LEMMA FirstOffer ==
    ASSUME NEW k \in Keys
    PROVE  \/ Value(k) = NoValue /\ \A i \in 1..5 : Offers(k)[i] = NoValue
           \/ Value(k) # NoValue /\ \E i \in 1..5 : Value(k) = Offers(k)[i]
<1> DEFINE o(i) == Offers(k)[i]
           P(i) == o(i) # NoValue /\ \A j \in 1..(i - 1) : o(j) = NoValue
<1>1. CASE \A i \in 1..5 : o(i) = NoValue
  BY <1>1 DEF Value
<1>2. CASE \E i \in 1..5 : o(i) # NoValue
  <2>1. \E i \in 1..5 : P(i)
    <3> HIDE DEF o
    <3>1. CASE o(1) # NoValue
      BY <3>1
    <3>2. CASE o(1) = NoValue /\ o(2) # NoValue
      BY <3>2
    <3>3. CASE o(1) = NoValue /\ o(2) = NoValue /\ o(3) # NoValue
      BY <3>3
    <3>4. CASE o(1) = NoValue /\ o(2) = NoValue /\ o(3) = NoValue /\ o(4) # NoValue
      BY <3>4
    <3>5. CASE o(1) = NoValue /\ o(2) = NoValue /\ o(3) = NoValue /\ o(4) = NoValue /\ o(5) # NoValue
      BY <3>5
    <3> QED
      BY <1>2, <3>1, <3>2, <3>3, <3>4, <3>5
  <2> DEFINE c == CHOOSE i \in 1..5 : P(i)
  <2>2. c \in 1..5 /\ P(c)
    BY <2>1
  <2>3. Value(k) = o(c)
    BY <1>2 DEF Value
  <2> QED
    BY <2>2, <2>3
<1> QED
  BY <1>1, <1>2

\* What an offer can be.
LEMMA OfferTyped ==
    ASSUME TypeOK, NEW k \in Keys
    PROVE  /\ Offers(k)[1] \in Values \cup {"user", NoValue}
           /\ Offers(k)[2] \in {"file", NoValue}
           /\ Offers(k)[3] = infile[k]
           /\ Offers(k)[4] \in {"os", NoValue}
           /\ Offers(k)[5] \in {"command", "disabled", NoValue}
           /\ Offers(k)[1] = line[k]
           /\ Offered("file", k) => Offers(k)[2] # NoValue
           /\ Given("os", k) => Offers(k)[4] # NoValue
           /\ Offered("command", k) => Offers(k)[5] # NoValue
BY DEF TypeOK, Offers, Offered, CommandOutput, Outside

\* A property has a value that can be sent or a conflict.
LEMMA ValueTyped ==
    ASSUME TypeOK, NEW k \in Keys
    PROVE  /\ Value(k) \in AllValues \cup {Conflict}
           /\ Value(k) = Conflict => infile[k] = Conflict
<1>1. infile[k] \in AllValues \cup {Conflict}
  BY DEF TypeOK
<1>2. CASE Value(k) = NoValue
  BY <1>2 DEF AllValues
<1>3. CASE \E i \in 1..5 : Value(k) = Offers(k)[i]
  <2>1. PICK i \in 1..5 : Value(k) = Offers(k)[i]
    BY <1>3
  <2>2. /\ Offers(k)[1] \in AllValues /\ Offers(k)[2] \in AllValues
        /\ Offers(k)[4] \in AllValues /\ Offers(k)[5] \in AllValues
    BY OfferTyped DEF AllValues, Outside
  <2>3. Offers(k)[3] = infile[k]
    BY OfferTyped
  <2>4. Conflict \notin AllValues
    OBVIOUS
  <2>5. i = 1 \/ i = 2 \/ i = 3 \/ i = 4 \/ i = 5
    OBVIOUS
  <2> QED
    BY <1>1, <2>1, <2>2, <2>3, <2>4, <2>5
<1> QED
  BY <1>2, <1>3, FirstOffer

\* An available property has a value, unless its name is mistaken.
LEMMA AvailableValue ==
    ASSUME TypeOK, NEW k \in Keys, k \in Available, Value(k) = NoValue
    PROVE  Mistaken(k)
<1>1. \A i \in 1..5 : Offers(k)[i] = NoValue
  BY FirstOffer
<1>2. /\ line[k] = NoValue /\ infile[k] = NoValue
      /\ ~Offered("file", k) /\ ~Given("os", k) /\ ~Offered("command", k)
  <2>1. /\ Offers(k)[1] = NoValue /\ Offers(k)[2] = NoValue /\ Offers(k)[3] = NoValue
        /\ Offers(k)[4] = NoValue /\ Offers(k)[5] = NoValue
    BY <1>1
  <2> QED
    BY <2>1, OfferTyped
<1>3. k \in {Stripped[h] : h \in request.given["os"]}
  BY <1>2 DEF Available
<1>4. PICK h \in request.given["os"] : Stripped[h] = k
  BY <1>3
<1> QED
  BY <1>2, <1>4 DEF Mistaken, Given

\* The next part, while parts are filled.
LEMMA NextPart ==
    ASSUME TypeOK, FillInv, pc = "fill", todo # <<>>
    PROVE  /\ Len(filled) + 1 \in DOMAIN request.parts
           /\ Head(todo) = request.parts[Len(filled) + 1]
           /\ Head(todo) \in Part /\ Head(todo).keys \subseteq Keys
           /\ Tail(todo) \in Seq(Part)
           /\ Len(Tail(todo)) = Len(todo) - 1
           /\ \A j \in 1..Len(Tail(todo)) : Tail(todo)[j] = todo[j + 1]
           /\ Len(todo) \in Nat \ {0}
           /\ Len(filled) = Len(request.parts) - Len(todo)
<1>1. todo \in Seq(Part)
  BY DEF TypeOK
<1>2. Len(todo) \in Nat \ {0} /\ 1 \in 1..Len(todo) /\ Head(todo) = todo[1]
  BY <1>1
<1>3. Head(todo) \in Part /\ Head(todo).keys \subseteq Keys
  <2>1. Head(todo) \in Part
    BY <1>1, <1>2
  <2> QED
    BY <2>1 DEF Part
<1>4. Len(filled) = Len(request.parts) - Len(todo)
  BY DEF TypeOK
<1>5. Len(filled) + 1 \in DOMAIN request.parts /\ todo[1] = request.parts[Len(filled) + 1]
  BY <1>2 DEF FillInv
<1>6. /\ Tail(todo) \in Seq(Part) /\ Len(Tail(todo)) = Len(todo) - 1
      /\ \A j \in 1..Len(Tail(todo)) : Tail(todo)[j] = todo[j + 1]
  BY <1>1, <1>2
<1> QED
  BY <1>2, <1>3, <1>4, <1>5, <1>6

-----------------------------------------------------------------------------
\* The types hold at the beginning.
LEMMA TypeInit == Init => TypeOK /\ FillInv
<1> SUFFICES ASSUME Init PROVE TypeOK /\ FillInv
  OBVIOUS
<1>1. request \in RequestType
  BY DEF Init
<1>2. request.imported \in Seq(Occurrence) /\ request.parts \in Seq(Part)
  BY <1>1 DEF RequestType
<1>3. FillInv
  BY <1>2 DEF Init, FillInv
<1>4. TypeOK
  BY <1>2 DEF Init, TypeOK, AllValues, Reading
<1> QED
  BY <1>3, <1>4

\* Taking the next part, whatever becomes of it.
LEMMA PartTaken ==
    ASSUME TypeOK, FillInv, pc = "fill", todo # <<>>, NEW f \in Filling,
           filled' = Append(filled, f), todo' = Tail(todo), request' = request, pc' = pc
    PROVE  /\ FillInv'
           /\ Len(filled)' = (Len(request.parts) - Len(todo))'
           /\ DOMAIN filled' = 1..(Len(filled) + 1)
           /\ filled'[Len(filled) + 1] = f
           /\ \A i \in DOMAIN filled : filled'[i] = filled[i]
<1>1. filled \in Seq(Filling) /\ Len(filled) \in Nat
  BY DEF FillInv
<1>2. /\ filled' \in Seq(Filling) /\ Len(filled') = Len(filled) + 1
      /\ DOMAIN filled' = 1..(Len(filled) + 1)
      /\ filled'[Len(filled) + 1] = f
      /\ \A i \in DOMAIN filled : filled'[i] = filled[i]
  BY <1>1
<1>3. request.parts \in Seq(Part) /\ Len(request.parts) \in Nat
  BY RequestTyped
<1>4. Len(filled') <= Len(request.parts)
  BY <1>1, <1>2, <1>3, NextPart
<1>5. ASSUME NEW j \in 1..Len(Tail(todo))
      PROVE  /\ Len(filled') + j \in DOMAIN request.parts
             /\ Tail(todo)[j] = request.parts[Len(filled') + j]
  <2>1. j + 1 \in 1..Len(todo) /\ Tail(todo)[j] = todo[j + 1]
    BY <1>5, NextPart
  <2>2. /\ Len(filled) + (j + 1) \in DOMAIN request.parts
        /\ todo[j + 1] = request.parts[Len(filled) + (j + 1)]
    BY <2>1 DEF FillInv
  <2>3. Len(filled) + (j + 1) = Len(filled') + j
    BY <1>1, <1>2
  <2> QED
    BY <2>1, <2>2, <2>3
<1>6. FillInv'
  BY <1>2, <1>4, <1>5 DEF FillInv, Reading
<1>7. Len(filled)' = (Len(request.parts) - Len(todo))'
  <2>1. Len(filled') = Len(request.parts) - Len(Tail(todo))
    <3>1. /\ Len(todo) \in Nat \ {0} /\ Len(Tail(todo)) = Len(todo) - 1
          /\ Len(filled) = Len(request.parts) - Len(todo)
      BY NextPart
    <3>2. Len(filled') = Len(filled) + 1 /\ Len(request.parts) \in Nat
      BY <1>2, <1>3
    <3> QED
      BY <3>1, <3>2
  <2> QED
    BY <2>1
<1> QED
  BY <1>2, <1>6, <1>7

\* The type of what a part becomes.
LEMMA FilledTyped ==
    ASSUME TypeOK, FillInv, pc = "fill", todo # <<>>, NEW f,
           f = Literal \/ f \in [Head(todo).keys -> AllValues],
           filled' = Append(filled, f), todo' = Tail(todo), request' = request, pc' = pc
    PROVE  /\ f \in Filling
           /\ \A i \in DOMAIN filled' :
                 filled'[i] = Literal \/ filled'[i] \in [request.parts[i].keys -> AllValues]
<1>1. f \in Filling
  BY NextPart DEF Filling
<1>2. ASSUME NEW i \in DOMAIN filled'
      PROVE  filled'[i] = Literal \/ filled'[i] \in [request.parts[i].keys -> AllValues]
  <2>1. CASE i = Len(filled) + 1
    BY <1>1, <2>1, PartTaken, NextPart
  <2>2. CASE i # Len(filled) + 1
    <3>1. i \in DOMAIN filled
      <4>1. filled \in Seq(Filling)
        BY DEF FillInv
      <4>2. i \in 1..(Len(filled) + 1)
        BY <1>1, <1>2, PartTaken
      <4> QED
        BY <2>2, <4>1, <4>2
    <3>2. filled'[i] = filled[i]
      BY <1>1, <3>1, PartTaken
    <3> QED
      BY <3>1, <3>2 DEF TypeOK
  <2> QED
    BY <2>1, <2>2
<1> QED
  BY <1>1, <1>2

-----------------------------------------------------------------------------
\* The next occurrence, while occurrences are loaded.
LEMMA NextOccurrence ==
    ASSUME TypeOK, pc \in Reading, todo # <<>>
    PROVE  /\ Head(todo) \in Occurrence /\ Tail(todo) \in Seq(Occurrence)
           /\ Head(todo).value \in Values \cup {Empty}
           /\ Head(todo).from \in Keys /\ Head(todo).key \in Keys
<1>1. todo \in Seq(Occurrence)
  BY DEF TypeOK
<1>2. Head(todo) \in Occurrence /\ Tail(todo) \in Seq(Occurrence)
  BY <1>1
<1> QED
  BY <1>2 DEF Occurrence

\* Loading an occurrence keeps the types, if the new value has one.
LEMMA LoadingTyped ==
    ASSUME TypeOK, FillInv, NEW forms, NEW k \in Keys, Loading(forms, k),
           pc' \in {pc, "raised"}, errors' \subseteq Keys,
           NEW v \in AllValues \cup {Conflict},
           infile' = infile \/ infile' = [infile EXCEPT ![k] = v]
    PROVE  TypeOK' /\ FillInv'
<1> USE DEF Loading
<1>1. todo' \in Seq(Occurrence) /\ k \in seen' /\ seen' \subseteq Keys
  BY NextOccurrence DEF TypeOK
<1>2. infile' \in [Keys -> AllValues \cup {Conflict}]
  BY DEF TypeOK
<1>3. \A j \in Keys \ seen' : infile'[j] = NoValue
  BY DEF TypeOK
<1>4. /\ filled' = filled /\ request' = request /\ line' = line /\ updated' = updated
      /\ pc \in Reading /\ pc' \in Reading \cup {"raised"}
  OBVIOUS
<1>5. FillInv'
  BY <1>4 DEF FillInv, Reading
<1> QED
  BY <1>1, <1>2, <1>3, <1>4, <1>5 DEF TypeOK, Reading

\* What the steps that load an occurrence do to the property.
LEMMA LoadIs ==
    ASSUME TypeOK, NEW k \in Keys,
           \/ LoadBare(k) \/ LoadVar(k) \/ LoadDefault(k) \/ LoadRandom(k)
           \/ CopyValue(k) \/ MissValue(k) \/ CopyRaises(k)
    PROVE  \E forms :
             /\ Loading(forms, k) /\ pc' \in {pc, "raised"}
             /\ errors \subseteq errors' /\ errors' \subseteq errors \cup {Head(todo).from}
             /\ \E v \in AllValues \cup {Conflict} :
                   infile' = infile \/ infile' = [infile EXCEPT ![k] = v]
<1>h. ASSUME NEW forms, Loading(forms, k)
      PROVE  Head(todo).value \in AllValues /\ Head(todo).from \in Keys
  BY <1>h, NextOccurrence DEF Loading, AllValues
<1>n. NoValue \in AllValues
  BY DEF AllValues
<1>1. CASE LoadBare(k)
  BY <1>1, <1>n DEF LoadBare
<1>2. CASE LoadVar(k)
  BY <1>2, <1>h DEF LoadVar
<1>3. CASE LoadDefault(k)
  <2> DEFINE v == IF k \in seen THEN Merged(infile[k], Head(todo).value) ELSE Head(todo).value
  <2>1. Loading({"default"}, k) /\ pc' = pc /\ errors' = errors
    BY <1>3 DEF LoadDefault
  <2>2. v \in AllValues \cup {Conflict}
    BY <1>h, <2>1 DEF Merged
  <2>3. infile' = [infile EXCEPT ![k] = v]
    BY <1>3 DEF LoadDefault, TypeOK
  <2> HIDE DEF v
  <2> QED
    BY <2>1, <2>2, <2>3
<1>4. CASE LoadRandom(k)
  <2>1. Loading({"random"}, k) /\ pc' = pc /\ errors' = errors
    BY <1>4 DEF LoadRandom
  <2>2. \E v \in AllValues \cup {Conflict} : infile' = infile \/ infile' = [infile EXCEPT ![k] = v]
    BY <1>4, <1>n DEF LoadRandom, AllValues
  <2> QED
    BY <2>1, <2>2
<1>5. CASE CopyValue(k)
  <2>1. /\ Loading({"copy", "id"}, k) /\ pc' = pc /\ errors' = errors
        /\ infile' = [infile EXCEPT ![k] = Value(Head(todo).from)]
    BY <1>5 DEF CopyValue
  <2>2. Value(Head(todo).from) \in AllValues \cup {Conflict}
    BY <1>h, <2>1, ValueTyped
  <2> QED
    BY <2>1, <2>2
<1>6. CASE MissValue(k)
  <2>1. /\ Loading({"copy", "id"}, k) /\ pc' = pc /\ errors' = errors \cup {Head(todo).from}
        /\ infile' = [infile EXCEPT ![k] = Head(todo).value]
    BY <1>6 DEF MissValue
  <2> QED
    BY <1>h, <2>1
<1>7. CASE CopyRaises(k)
  <2>1. /\ Loading({"copy", "id"}, k) /\ pc' \in {pc, "raised"} /\ errors' = errors
        /\ infile' = infile \/ infile' = [infile EXCEPT ![k] = Head(todo).value]
    BY <1>7 DEF CopyRaises
  <2> QED
    BY <1>h, <2>1
<1> QED
  BY <1>1, <1>2, <1>3, <1>4, <1>5, <1>6, <1>7

\* A step that loads an occurrence.
Load ==
    \E k \in Keys :
        \/ LoadBare(k) \/ LoadVar(k) \/ LoadDefault(k) \/ LoadRandom(k)
        \/ CopyValue(k) \/ MissValue(k) \/ CopyRaises(k)

\* It concerns the text only.
LEMMA LoadFrame ==
    ASSUME TypeOK, Load
    PROVE  /\ pc \in Reading /\ todo # <<>> /\ pc' \in {pc, "raised"} /\ todo' = Tail(todo)
           /\ UNCHANGED <<request, line, updated, filled>>
           /\ errors \subseteq errors'
<1>1. PICK k \in Keys :
         \/ LoadBare(k) \/ LoadVar(k) \/ LoadDefault(k) \/ LoadRandom(k)
         \/ CopyValue(k) \/ MissValue(k) \/ CopyRaises(k)
  BY DEF Load
<1>2. PICK forms : /\ Loading(forms, k) /\ pc' \in {pc, "raised"}
                   /\ errors \subseteq errors'
  BY <1>1, LoadIs
<1> QED
  BY <1>2 DEF Loading

\* Every step keeps the types.
LEMMA TypeStep == TypeOK /\ FillInv /\ [Next]_vars => TypeOK' /\ FillInv'
<1> SUFFICES ASSUME TypeOK, FillInv, [Next]_vars PROVE TypeOK' /\ FillInv'
  OBVIOUS
<1> USE DEF result, scanned
<1>0. /\ request.init \in Seq(Setting) /\ request.pre \in Seq(Setting)
      /\ request.text \in Seq(Occurrence)
      /\ request.parts \in Seq(Part) /\ Len(request.parts) \in Nat
  BY RequestTyped
<1>1. CASE Load
  <2>1. PICK k \in Keys :
           \/ LoadBare(k) \/ LoadVar(k) \/ LoadDefault(k) \/ LoadRandom(k)
           \/ CopyValue(k) \/ MissValue(k) \/ CopyRaises(k)
    BY <1>1 DEF Load
  <2>2. PICK forms :
           /\ Loading(forms, k) /\ pc' \in {pc, "raised"}
           /\ errors' \subseteq errors \cup {Head(todo).from}
           /\ \E v \in AllValues \cup {Conflict} :
                 infile' = infile \/ infile' = [infile EXCEPT ![k] = v]
    BY <2>1, LoadIs
  <2>3. errors' \subseteq Keys
    BY <2>2, NextOccurrence DEF Loading, TypeOK
  <2> QED
    BY <2>2, <2>3, LoadingTyped
<1>2. CASE VarRaises
  <2>1. /\ pc \in Reading /\ pc' = "raised"
        /\ UNCHANGED <<request, todo, infile, seen, line, updated, filled, errors>>
    BY <1>2 DEF VarRaises
  <2>2. FillInv'
    BY <2>1 DEF FillInv, Reading
  <2> QED
    BY <2>1, <2>2 DEF TypeOK, Reading
<1>3. CASE ImportsDone
  <2>1. /\ pc = "import" /\ pc' = "scan" /\ todo' = request.text
        /\ UNCHANGED <<request, infile, seen, updated, filled, errors>>
        /\ line' = [k \in Keys |-> IF Given("user", k) THEN "user" ELSE NoValue]
    BY <1>3 DEF ImportsDone
  <2>2. FillInv'
    BY <2>1 DEF FillInv, Reading
  <2> QED
    BY <1>0, <2>1, <2>2 DEF TypeOK, Reading
<1>5. CASE ScanDone
  <2>1. pc = "scan" /\ pc' = "init" /\ todo' = request.init
    BY <1>5 DEF ScanDone
  <2>2. UNCHANGED <<request, infile, seen, line, updated, filled, errors>>
    BY <1>5 DEF ScanDone
  <2>3. FillInv'
    BY <2>1, <2>2 DEF FillInv, Reading
  <2> QED
    BY <1>0, <2>1, <2>2, <2>3 DEF TypeOK, Reading
<1>6. CASE ScriptSets
  <2>1. pc \in {"init", "pre"} /\ todo # <<>> /\ todo \in Seq(Setting)
    BY <1>6 DEF ScriptSets, TypeOK, Reading
  <2>2. Head(todo) \in Setting /\ Tail(todo) \in Seq(Setting)
    BY <2>1
  <2>3. Head(todo).key \in Keys /\ Head(todo).value \in Values
    BY <2>2 DEF Setting
  <2>4. updated' \in [Keys -> Values \cup {NoValue}]
    BY <1>6, <2>3 DEF ScriptSets, TypeOK, Reading
  <2>5. UNCHANGED <<request, pc, infile, seen, line, filled, errors>> /\ todo' = Tail(todo)
    BY <1>6 DEF ScriptSets
  <2>6. FillInv'
    BY <2>1, <2>5 DEF FillInv, Reading
  <2> QED
    BY <2>1, <2>2, <2>4, <2>5, <2>6 DEF TypeOK, Reading
<1>7. CASE ScriptRaises
  <2>1. pc' = "raised" /\ UNCHANGED <<request, todo, infile, seen, line, updated, filled, errors>>
    BY <1>7 DEF ScriptRaises
  <2>2. FillInv'
    BY <2>1 DEF FillInv, Reading
  <2> QED
    BY <2>1, <2>2 DEF TypeOK, Reading
<1>8. CASE InitDone
  <2>1. /\ pc = "init" /\ pc' = "fill" /\ todo' = request.parts /\ filled = <<>>
        /\ UNCHANGED <<request, infile, seen, updated, filled, errors>>
    BY <1>8 DEF InitDone, FillInv, Reading
  <2>2. line' \in [Keys -> Values \cup {"user", NoValue}]
    <3>1. line' = [k \in Keys |-> IF updated[k] # NoValue THEN updated[k] ELSE line[k]]
      BY <1>8 DEF InitDone
    <3> QED
      BY <3>1 DEF TypeOK, Reading
  <2>3. Len(filled) = 0
    BY <2>1
  <2>4. FillInv'
    BY <1>0, <2>1, <2>3 DEF FillInv, Reading
  <2>5. Len(filled') = Len(request'.parts) - Len(todo')
    BY <1>0, <2>1, <2>3
  <2> QED
    BY <1>0, <2>1, <2>2, <2>4, <2>5 DEF TypeOK, Reading
<1>p. ASSUME pc = "fill", todo # <<>>, NEW f,
             f = Literal \/ f \in [Head(todo).keys -> AllValues],
             filled' = Append(filled, f), todo' = Tail(todo),
             UNCHANGED <<request, pc, infile, seen, line, updated>>, errors' \subseteq Keys
      PROVE  TypeOK' /\ FillInv'
  <2>1. f \in Filling
    BY <1>p, FilledTyped
  <2>2. FillInv' /\ Len(filled)' = (Len(request.parts) - Len(todo))'
    BY <1>p, <2>1, PartTaken
  <2>3. \A i \in DOMAIN filled' :
            filled'[i] = Literal \/ filled'[i] \in [request.parts[i].keys -> AllValues]
    BY <1>p, FilledTyped
  <2>4. Tail(todo) \in Seq(Part)
    BY <1>p, NextPart
  <2> QED
    BY <1>p, <2>2, <2>3, <2>4 DEF TypeOK, Reading
<1>9. CASE FillPart
  <2>1. /\ pc = "fill" /\ todo # <<>> /\ ~Conflicting(Head(todo))
        /\ filled' = Append(filled, [k \in Head(todo).keys |-> Value(k)]) /\ todo' = Tail(todo)
        /\ UNCHANGED <<request, pc, infile, seen, line, updated, errors>>
    BY <1>9 DEF FillPart
  <2>2. [k \in Head(todo).keys |-> Value(k)] \in [Head(todo).keys -> AllValues]
    <3>1. Head(todo).keys \subseteq Keys
      BY <2>1, NextPart
    <3>2. \A k \in Head(todo).keys : Value(k) \in AllValues
      BY <2>1, <3>1, ValueTyped DEF Conflicting
    <3> QED
      BY <3>2
  <2>3. errors' \subseteq Keys
    BY <2>1 DEF TypeOK, Reading
  <2> QED
    BY <1>p, <2>1, <2>2, <2>3
<1>10. CASE MissPart
  <2>1. /\ pc = "fill" /\ todo # <<>>
        /\ filled' = Append(filled, Literal) /\ todo' = Tail(todo)
        /\ errors' = errors \cup Missing(Head(todo))
        /\ UNCHANGED <<request, pc, infile, seen, line, updated>>
    BY <1>10 DEF MissPart
  <2>2. errors' \subseteq Keys
    BY <2>1, NextPart DEF TypeOK, Missing
  <2> QED
    BY <1>p, <2>1, <2>2
<1>11. CASE ConflictInPart
  <2>1. /\ pc = "fill" /\ todo # <<>>
        /\ UNCHANGED <<request, infile, seen, line, updated, errors>>
    BY <1>11 DEF ConflictInPart
  <2>2. errors' \subseteq Keys
    BY <2>1 DEF TypeOK, Reading
  <2>3. CASE filled' = Append(filled, Literal) /\ todo' = Tail(todo) /\ UNCHANGED pc
    BY <1>p, <2>1, <2>2, <2>3
  <2>4. CASE pc' = "raised" /\ UNCHANGED <<filled, todo>>
    <3>1. FillInv'
      BY <2>1, <2>4 DEF FillInv, Reading
    <3> QED
      BY <2>1, <2>4, <3>1 DEF TypeOK, Reading
  <2> QED
    BY <1>11, <2>3, <2>4 DEF ConflictInPart
<1>12. CASE PartsDone
  <2>1. /\ pc = "fill" /\ todo = <<>> /\ pc' = "pre" /\ todo' = request.pre
        /\ UNCHANGED <<request, infile, seen, line, updated, filled, errors>>
    BY <1>12 DEF PartsDone
  <2>2. Len(filled) = Len(request.parts)
    <3>1. Len(filled) = Len(request.parts) - Len(todo) /\ Len(todo) = 0
      BY <2>1 DEF TypeOK, Reading
    <3> QED
      BY <1>0, <3>1
  <2>3. FillInv'
    BY <2>1 DEF FillInv, Reading
  <2> QED
    BY <1>0, <2>1, <2>2, <2>3 DEF TypeOK, Reading
<1>13. CASE Send
  <2>1. /\ pc = "pre" /\ pc' \in {"sent", "reported"}
        /\ UNCHANGED <<request, todo, infile, seen, line, updated, filled, errors>>
    BY <1>13 DEF Send
  <2>2. Len(filled) = Len(request.parts)
    BY <2>1 DEF TypeOK, Reading
  <2>3. FillInv'
    BY <2>1 DEF FillInv, Reading
  <2> QED
    BY <2>1, <2>2, <2>3 DEF TypeOK, Reading
<1>14. CASE UNCHANGED vars
  BY <1>14 DEF vars, TypeOK, FillInv
<1> QED
  BY <1>1, <1>2, <1>3, <1>5, <1>6, <1>7, <1>8, <1>9, <1>10, <1>11, <1>12, <1>13, <1>14
     DEF Next, Load

\* Type correctness for any requests.
THEOREM TypeCorrect == Spec => []TypeOK
<1>1. TypeOK /\ FillInv /\ [Next]_vars => TypeOK' /\ FillInv'
  BY TypeStep
<1> QED
  BY <1>1, TypeInit, PTL DEF Spec

-----------------------------------------------------------------------------
\* While the text is loaded there are no parts yet.
LEMMA LiteralEarly == FillInv /\ pc \in Reading \cup {"init"} => LiteralInv
BY DEF FillInv, LiteralInv

\* What becomes of the next part decides; earlier ones keep what they have.
LEMMA LiteralTaken ==
    ASSUME TypeOK, FillInv, LiteralInv, pc = "fill", todo # <<>>, NEW f \in Filling,
           filled' = Append(filled, f), todo' = Tail(todo),
           UNCHANGED <<request, pc, infile>>, errors # {} => errors' # {},
           IF f = Literal
           THEN errors' # {} \/ \E k \in Head(todo).keys : infile[k] = Conflict
           ELSE \A k \in Head(todo).keys : f[k] = NoValue => Mistaken(k)
    PROVE  LiteralInv'
<1>1. filled \in Seq(Filling)
  BY DEF FillInv
<1>m. \A k : Mistaken(k)' = Mistaken(k)
  BY DEF Mistaken
<1>2. ASSUME NEW i \in DOMAIN filled'
      PROVE  IF filled'[i] = Literal
             THEN errors' # {} \/ \E k \in request.parts[i].keys : infile[k] = Conflict
             ELSE \A k \in request.parts[i].keys : filled'[i][k] = NoValue => Mistaken(k)
  <2>1. CASE i = Len(filled) + 1
    <3>1. filled'[i] = f /\ request.parts[i] = Head(todo)
      BY <2>1, PartTaken, NextPart
    <3> QED
      BY <3>1
  <2>2. CASE i # Len(filled) + 1
    <3>1. i \in DOMAIN filled
      <4>1. i \in 1..(Len(filled) + 1)
        BY <1>2, PartTaken
      <4> QED
        BY <1>1, <2>2, <4>1
    <3>2. filled'[i] = filled[i]
      BY <3>1, PartTaken
    <3> QED
      BY <3>1, <3>2 DEF LiteralInv
  <2> QED
    BY <2>1, <2>2
<1>3. request' = request /\ infile' = infile
  OBVIOUS
<1> QED
  BY <1>m, <1>2, <1>3 DEF LiteralInv

\* Every step keeps what is known of the parts.
LEMMA LiteralStep == TypeOK /\ FillInv /\ LiteralInv /\ SentInv /\ [Next]_vars
                        => LiteralInv' /\ SentInv'
<1> SUFFICES ASSUME TypeOK, FillInv, LiteralInv, SentInv, [Next]_vars
             PROVE  LiteralInv' /\ SentInv'
  OBVIOUS
<1> USE DEF result, scanned
<1>f. FillInv'
  BY TypeStep
<1>s. ASSUME pc' # "sent" PROVE SentInv'
  BY <1>s DEF SentInv
<1>u. ASSUME UNCHANGED <<request, infile, filled, errors>> PROVE LiteralInv'
  BY <1>u DEF LiteralInv, Mistaken
<1>1. CASE Load
  <2>1. pc \in Reading /\ pc' \in {pc, "raised"} /\ filled' = filled
    BY <1>1, LoadFrame
  <2>2. filled = <<>>
    BY <2>1 DEF FillInv
  <2>3. LiteralInv'
    BY <2>1, <2>2 DEF LiteralInv
  <2> QED
    BY <1>s, <2>1, <2>3 DEF Reading
<1>2. CASE VarRaises \/ ImportsDone
  BY <1>2, <1>s, <1>u DEF VarRaises, ImportsDone
<1>3. CASE ScanDone
  BY <1>3, <1>s, <1>u DEF ScanDone
<1>4. CASE ScriptSets
  BY <1>4, <1>s, <1>u DEF ScriptSets
<1>5. CASE ScriptRaises
  BY <1>5, <1>s, <1>u DEF ScriptRaises
<1>6. CASE InitDone
  BY <1>6, <1>s, <1>u DEF InitDone
<1>7. CASE FillPart
  <2> DEFINE f == [k \in Head(todo).keys |-> Value(k)]
  <2>1. /\ pc = "fill" /\ todo # <<>> /\ Missing(Head(todo)) = {} /\ ~Conflicting(Head(todo))
        /\ filled' = Append(filled, f) /\ todo' = Tail(todo)
        /\ UNCHANGED <<request, pc, infile, errors>>
    BY <1>7 DEF FillPart
  <2>2. Head(todo).keys \subseteq Keys
    BY <2>1, NextPart
  <2>3. f \in [Head(todo).keys -> AllValues]
    BY <2>1, <2>2, ValueTyped DEF Conflicting
  <2>4. f \in Filling /\ f # Literal
    BY <2>2, <2>3 DEF Filling
  <2>5. \A k \in Head(todo).keys : f[k] = NoValue => Mistaken(k)
    <3>1. \A k \in Head(todo).keys : k \in Available
      BY <2>1 DEF Missing
    <3> QED
      BY <2>2, <3>1, AvailableValue
  <2> HIDE DEF f
  <2>6. LiteralInv'
    BY <2>1, <2>4, <2>5, LiteralTaken
  <2> QED
    BY <1>s, <2>1, <2>6
<1>8. CASE MissPart
  <2>1. /\ pc = "fill" /\ todo # <<>> /\ Missing(Head(todo)) # {}
        /\ filled' = Append(filled, Literal) /\ todo' = Tail(todo)
        /\ errors' = errors \cup Missing(Head(todo))
        /\ UNCHANGED <<request, pc, infile>>
    BY <1>8 DEF MissPart
  <2>2. Literal \in Filling /\ errors' # {}
    BY <2>1 DEF Filling
  <2>3. LiteralInv'
    BY <2>1, <2>2, LiteralTaken
  <2> QED
    BY <1>s, <2>1, <2>3
<1>9. CASE ConflictInPart
  <2>1. /\ pc = "fill" /\ todo # <<>> /\ Conflicting(Head(todo))
        /\ UNCHANGED <<request, infile, errors>>
    BY <1>9 DEF ConflictInPart
  <2>2. CASE filled' = Append(filled, Literal) /\ todo' = Tail(todo) /\ UNCHANGED pc
    <3>1. Literal \in Filling
      BY DEF Filling
    <3>2. \E k \in Head(todo).keys : infile[k] = Conflict
      BY <2>1, NextPart, ValueTyped DEF Conflicting
    <3>3. LiteralInv'
      BY <2>1, <2>2, <3>1, <3>2, LiteralTaken
    <3> QED
      BY <1>s, <2>1, <2>2, <3>3
  <2>3. CASE pc' = "raised" /\ UNCHANGED <<filled, todo>>
    BY <1>s, <1>u, <2>1, <2>3
  <2> QED
    BY <1>9, <2>2, <2>3 DEF ConflictInPart
<1>10. CASE PartsDone
  BY <1>10, <1>s, <1>u DEF PartsDone
<1>11. CASE Send
  BY <1>11, <1>u DEF Send, SentInv
<1>12. CASE UNCHANGED vars
  BY <1>12, <1>u DEF vars, SentInv
<1> QED
  BY <1>1, <1>2, <1>3, <1>4, <1>5, <1>6, <1>7, <1>8, <1>9, <1>10, <1>11, <1>12 DEF Next, Load

LEMMA InitIInv == Init => IInv
<1> SUFFICES ASSUME Init PROVE IInv
  OBVIOUS
<1>1. TypeOK /\ FillInv /\ pc = "import"
  BY TypeInit DEF Init
<1> QED
  BY <1>1, LiteralEarly DEF IInv, SentInv, Reading

LEMMA StepIInv == IInv /\ [Next]_vars => IInv'
BY TypeStep, LiteralStep DEF IInv

-----------------------------------------------------------------------------
\* How many occurrences have been loaded.
Read ==
    IF pc = "import" THEN Len(request.imported) - Len(todo)
    ELSE IF pc = "scan" THEN Len(Text) - Len(todo) ELSE Len(Text)

\* What is left of the imports, and then of the text, comes next.
PosInv ==
    /\ Read \in Nat
    /\ pc = "scan" => Read >= Len(request.imported)
    /\ pc \in Reading => \A j \in 1..Len(todo) :
                            Read + j \in DOMAIN Text /\ todo[j] = Text[Read + j]

\* The forms and the defaults of k among those loaded.
FormsRead(k) == {Text[i].form : i \in {i \in 1..Read : Text[i].key = k}}
DefaultsRead(k) ==
    {Text[i].value : i \in {i \in 1..Read : Text[i].key = k /\ Text[i].form = "default"}}

\* What the text gives k, by what has been loaded of it.
KeyInv(k) ==
    /\ k \in seen <=> FormsRead(k) # {}
    /\ infile[k] = NoValue => NotInText(Read, k)
    /\ (FormsRead(k) \subseteq {"bare", "default"} /\ infile[k] # Conflict)
          => DefaultsRead(k) \subseteq {infile[k], Empty}
    /\ FormsRead(k) = {"random"} => infile[k] \in Draws
    /\ FormsRead(k) \subseteq {"bare"} => infile[k] = NoValue
    /\ FormsRead(k) \cap {"copy", "id"} = {} => infile[k] \in Values \cup Draws \cup Specials

ScanInv == PosInv /\ (pc # "raised" => \A k \in Keys : KeyInv(k))

\* v is what the first n settings of the init script make of k.
SetTo(k, n, v) ==
    \/ v = NoValue /\ \A i \in 1..n : request.init[i].key # k
    \/ \E i \in 1..n :
          /\ request.init[i].key = k /\ request.init[i].value = v
          /\ \A j \in 1..n : request.init[j].key = k => j <= i

UserLine(k) == IF Given("user", k) THEN "user" ELSE NoValue

\* The command line has what the init script set, and else what the user gave.
LineInv ==
    /\ pc \in Reading => \A k \in Keys :
          updated[k] = NoValue /\ line[k] = (IF pc = "import" THEN NoValue ELSE UserLine(k))
    /\ pc = "init" =>
          /\ Len(todo) <= Len(request.init)
          /\ \A j \in 1..Len(todo) :
                todo[j] = request.init[Len(request.init) - Len(todo) + j]
          /\ \A k \in Keys :
                /\ SetTo(k, Len(request.init) - Len(todo), updated[k])
                /\ line[k] = UserLine(k)
    /\ pc \in {"fill", "pre", "sent", "reported"} =>
          \A k \in Keys :
             IF SetByInit(k) = {} THEN line[k] = UserLine(k)
             ELSE SetTo(k, Len(request.init), line[k])

\* A variable loaded so far uses what was known, or there is an error.
CopyInv ==
    pc # "raised" => \A i \in 1..Read : Copies(i) => Known(i) \/ errors # {}

-----------------------------------------------------------------------------
\* Two sequences, one after the other.
LEMMA Concatenated ==
    ASSUME NEW S, NEW s \in Seq(S), NEW t \in Seq(S)
    PROVE  /\ s \o t \in Seq(S) /\ Len(s \o t) = Len(s) + Len(t)
           /\ \A j \in 1..Len(s) : (s \o t)[j] = s[j]
           /\ \A j \in 1..Len(t) : (s \o t)[Len(s) + j] = t[j]
<1>1. s \o t \in Seq(S) /\ Len(s \o t) = Len(s) + Len(t)
  OBVIOUS
<1>2. \A j \in 1..Len(s) : (s \o t)[j] = s[j]
  OBVIOUS
<1>3. ASSUME NEW j \in 1..Len(t) PROVE (s \o t)[Len(s) + j] = t[j]
  <2>1. Len(s) + j \in 1..(Len(s) + Len(t)) /\ ~(Len(s) + j <= Len(s))
    OBVIOUS
  <2>2. (Len(s) + j) - Len(s) = j
    OBVIOUS
  <2> QED
    BY <2>1, <2>2
<1> QED
  BY <1>1, <1>2, <1>3

LEMMA SequenceIs == ASSUME NEW S, NEW s \in Seq(S) PROVE Len(s) \in Nat /\ DOMAIN s = 1..Len(s)
  OBVIOUS

\* What the text is made of.
LEMMA TextTyped ==
    ASSUME TypeOK
    PROVE  /\ Len(Text) \in Nat /\ DOMAIN Text = 1..Len(Text)
           /\ Len(request.imported) \in Nat /\ Len(request.text) \in Nat
           /\ Len(Text) = Len(request.imported) + Len(request.text)
           /\ \A j \in 1..Len(request.imported) : Text[j] = request.imported[j]
           /\ \A j \in 1..Len(request.text) :
                 Text[Len(request.imported) + j] = request.text[j]
           /\ \A i \in DOMAIN Text :
                 /\ Text[i].form \in {"bare", "random", "default", "var", "copy", "id"}
                 /\ Text[i].key \in Keys /\ Text[i].value \in Values \cup {Empty}
                 /\ Text[i].from \in Keys
           /\ Text \in Seq(Occurrence)
<1>1. /\ Text \in Seq(Occurrence) /\ request.imported \in Seq(Occurrence)
      /\ request.text \in Seq(Occurrence)
  BY RequestTyped
<1>2. /\ Len(Text) = Len(request.imported) + Len(request.text)
      /\ \A j \in 1..Len(request.imported) : Text[j] = request.imported[j]
      /\ \A j \in 1..Len(request.text) : Text[Len(request.imported) + j] = request.text[j]
  <2> DEFINE a == request.imported
             b == request.text
  <2>1. Text = a \o b
    BY DEF Text
  <2>2. a \in Seq(Occurrence) /\ b \in Seq(Occurrence)
    BY <1>1
  <2> HIDE DEF a, b
  <2>3. /\ Len(a \o b) = Len(a) + Len(b)
        /\ \A j \in 1..Len(a) : (a \o b)[j] = a[j]
        /\ \A j \in 1..Len(b) : (a \o b)[Len(a) + j] = b[j]
    BY <2>2, Concatenated
  <2> QED
    BY <2>1, <2>3 DEF a, b
<1>3. /\ Len(Text) \in Nat /\ DOMAIN Text = 1..Len(Text)
      /\ Len(request.imported) \in Nat /\ Len(request.text) \in Nat
  <2>1. Len(Text) \in Nat /\ DOMAIN Text = 1..Len(Text)
    BY <1>1, SequenceIs
  <2>2. Len(request.imported) \in Nat
    BY <1>1
  <2>3. Len(request.text) \in Nat
    BY <1>1
  <2> QED
    BY <2>1, <2>2, <2>3
<1>4. ASSUME NEW i \in DOMAIN Text
      PROVE  /\ Text[i].form \in {"bare", "random", "default", "var", "copy", "id"}
             /\ Text[i].key \in Keys /\ Text[i].value \in Values \cup {Empty}
             /\ Text[i].from \in Keys
  <2>1. Text[i] \in Occurrence
    BY <1>1, <1>3
  <2> QED
    BY <2>1 DEF Occurrence
<1> QED
  BY <1>1, <1>2, <1>3, <1>4

\* What has been loaded of the text.
LEMMA ReadTyped ==
    ASSUME TypeOK, PosInv
    PROVE  /\ Read \in Nat /\ Read <= Len(Text) /\ 1..Read \subseteq DOMAIN Text
           /\ \A k : "default" \notin FormsRead(k) => DefaultsRead(k) = {}
           /\ \A k : DefaultsRead(k) \subseteq Values \cup {Empty}
<1>1. Read \in Nat /\ Read <= Len(Text)
  <2>1. Read \in Nat
    BY DEF PosInv
  <2>2. CASE pc = "import"
    <3>1. todo \in Seq(Occurrence)
      BY <2>2 DEF TypeOK, Reading
    <3>2. Len(todo) \in Nat /\ Read = Len(request.imported) - Len(todo)
      BY <2>2, <3>1 DEF Read
    <3>3. /\ Len(request.imported) \in Nat /\ Len(request.text) \in Nat
          /\ Len(Text) = Len(request.imported) + Len(request.text)
      BY TextTyped
    <3> DEFINE m == Len(request.imported)
               n == Len(request.text)
               t == Len(todo)
               l == Len(Text)
    <3>4. m \in Nat /\ n \in Nat /\ t \in Nat /\ l = m + n /\ Read = m - t
      BY <3>2, <3>3
    <3> HIDE DEF m, n, t, l
    <3>5. Read <= l
      BY <3>4
    <3> QED
      BY <2>1, <3>5 DEF l
  <2>3. CASE pc = "scan"
    <3>1. todo \in Seq(Occurrence)
      BY <2>3 DEF TypeOK, Reading
    <3>2. Len(todo) \in Nat /\ Read = Len(Text) - Len(todo)
      <4>1. Len(todo) \in Nat
        BY <3>1
      <4> QED
        BY <2>3, <4>1, TextTyped DEF Read
    <3> QED
      BY <2>1, <2>3, <3>2, TextTyped
  <2>4. CASE pc \notin Reading
    BY <2>1, <2>4, TextTyped DEF Read, Reading
  <2> QED
    BY <2>2, <2>3, <2>4 DEF Reading
<1>2. 1..Read \subseteq DOMAIN Text
  BY <1>1, TextTyped
<1> QED
  BY <1>1, <1>2, TextTyped DEF FormsRead, DefaultsRead

\* Loading an occurrence.
LEMMA ReadNext ==
    ASSUME TypeOK, PosInv, NEW forms, NEW k \in Keys, Loading(forms, k)
    PROVE  /\ Read \in Nat /\ Read + 1 \in DOMAIN Text /\ Text[Read + 1] = Head(todo)
           /\ IsOwn(Read + 1) <=> pc = "scan"
           /\ Text' = Text
           /\ pc' = pc => Read' = Read + 1 /\ PosInv'
<1>1. /\ pc \in Reading /\ todo # <<>> /\ todo' = Tail(todo) /\ request' = request
      /\ todo \in Seq(Occurrence)
  BY DEF Loading, TypeOK
<1>2. /\ Len(todo) \in Nat \ {0} /\ 1 \in 1..Len(todo) /\ Head(todo) = todo[1]
      /\ Len(todo') = Len(todo) - 1
      /\ \A j \in 1..Len(todo') : todo'[j] = todo[j + 1]
  BY <1>1
<1>3. /\ Read \in Nat
      /\ \A j \in 1..Len(todo) : Read + j \in DOMAIN Text /\ todo[j] = Text[Read + j]
  BY <1>1 DEF PosInv
<1>4. Text' = Text
  BY <1>1 DEF Text
<1>5. Read + 1 \in DOMAIN Text /\ Text[Read + 1] = Head(todo)
  BY <1>2, <1>3
<1>6. IsOwn(Read + 1) <=> pc = "scan"
  <2>1. CASE pc = "scan"
    <3>1. Read >= Len(request.imported)
      BY <2>1 DEF PosInv
    <3> QED
      BY <1>3, <2>1, <3>1, TextTyped DEF IsOwn
  <2>2. CASE pc = "import"
    <3>1. Read = Len(request.imported) - Len(todo)
      BY <2>2 DEF Read
    <3> QED
      BY <1>2, <2>2, <3>1, TextTyped DEF IsOwn
  <2> QED
    BY <1>1, <2>1, <2>2 DEF Reading
<1>7. ASSUME pc' = pc PROVE Read' = Read + 1 /\ PosInv'
  <2>1. Read' = Read + 1
    <3>1. CASE pc = "import"
      <4>1. Read = Len(request.imported) - Len(todo) /\ Read' = Len(request.imported) - Len(todo')
        BY <1>1, <1>7, <3>1 DEF Read
      <4> QED
        BY <1>2, <4>1, TextTyped
    <3>2. CASE pc = "scan"
      <4>1. Read = Len(Text) - Len(todo) /\ Read' = Len(Text) - Len(todo')
        BY <1>4, <1>7, <3>2 DEF Read
      <4> QED
        BY <1>2, <4>1, TextTyped
    <3> QED
      BY <1>1, <3>1, <3>2 DEF Reading
  <2>2. pc = "scan" => Read' >= Len(request.imported)
    BY <1>3, <2>1, TextTyped DEF PosInv
  <2>3. ASSUME NEW j \in 1..Len(todo')
        PROVE  Read' + j \in DOMAIN Text /\ todo'[j] = Text[Read' + j]
    <3>1. j + 1 \in 1..Len(todo) /\ todo'[j] = todo[j + 1] /\ Read' + j = Read + (j + 1)
      BY <1>2, <1>3, <2>1, <2>3
    <3> QED
      BY <1>3, <3>1
  <2>4. Read' \in Nat
    BY <1>3, <2>1
  <2> QED
    BY <1>1, <1>4, <1>7, <2>1, <2>2, <2>3, <2>4 DEF PosInv
<1> QED
  BY <1>3, <1>4, <1>5, <1>6, <1>7

\* It adds its form, and its value if it is a default, to what has been
\* loaded of its key, and nothing to any other key.
LEMMA ReadGrows ==
    ASSUME TypeOK, PosInv, NEW forms, NEW k \in Keys, Loading(forms, k), pc' = pc
    PROVE  /\ FormsRead(k)' = FormsRead(k) \cup {Head(todo).form}
           /\ DefaultsRead(k)' = DefaultsRead(k) \cup
                 (IF Head(todo).form = "default" THEN {Head(todo).value} ELSE {})
           /\ \A j \in Keys \ {k} :
                 FormsRead(j)' = FormsRead(j) /\ DefaultsRead(j)' = DefaultsRead(j)
<1> DEFINE n == Read + 1
<1>1. /\ Read \in Nat /\ n \in DOMAIN Text /\ Text[n] = Head(todo) /\ Text' = Text
      /\ Read' = n
  BY ReadNext
<1>2. 1..Read' = (1..Read) \cup {n}
  BY <1>1
<1>3. Text[n].key = k /\ Text[n].form = Head(todo).form /\ Text[n].value = Head(todo).value
  BY <1>1 DEF Loading
<1> HIDE DEF n
<1>11. \A j, x : x \in FormsRead(j)' <=>
          (x \in FormsRead(j) \/ (Text[n].key = j /\ x = Text[n].form))
  <2> SUFFICES ASSUME NEW j, NEW x
               PROVE  x \in FormsRead(j)' <=>
                         (x \in FormsRead(j) \/ (Text[n].key = j /\ x = Text[n].form))
    OBVIOUS
  <2>1. x \in FormsRead(j)' <=> \E i \in 1..Read' : Text[i].key = j /\ x = Text[i].form
    BY <1>1 DEF FormsRead
  <2>2. x \in FormsRead(j) <=> \E i \in 1..Read : Text[i].key = j /\ x = Text[i].form
    BY DEF FormsRead
  <2> QED
    BY <1>2, <2>1, <2>2
<1>12. \A j, x : x \in DefaultsRead(j)' <=>
          \/ x \in DefaultsRead(j)
          \/ Text[n].key = j /\ Text[n].form = "default" /\ x = Text[n].value
  <2> SUFFICES ASSUME NEW j, NEW x
               PROVE  x \in DefaultsRead(j)' <=>
                        \/ x \in DefaultsRead(j)
                        \/ Text[n].key = j /\ Text[n].form = "default" /\ x = Text[n].value
    OBVIOUS
  <2>1. x \in DefaultsRead(j)' <=>
           \E i \in 1..Read' : Text[i].key = j /\ Text[i].form = "default" /\ x = Text[i].value
    BY <1>1 DEF DefaultsRead
  <2>2. x \in DefaultsRead(j) <=>
           \E i \in 1..Read : Text[i].key = j /\ Text[i].form = "default" /\ x = Text[i].value
    BY DEF DefaultsRead
  <2> QED
    BY <1>2, <2>1, <2>2
<1>13. FormsRead(k)' = FormsRead(k) \cup {Head(todo).form}
  BY <1>3, <1>11
<1>14. DefaultsRead(k)' = DefaultsRead(k) \cup
          (IF Head(todo).form = "default" THEN {Head(todo).value} ELSE {})
  BY <1>3, <1>12
<1>15. ASSUME NEW j \in Keys \ {k} PROVE FormsRead(j)' = FormsRead(j)
  <2>1. \A x : x \in FormsRead(j)' <=> x \in FormsRead(j)
    BY <1>3, <1>11
  <2> QED
    BY <2>1
<1>16. \A j \in Keys \ {k} : DefaultsRead(j)' = DefaultsRead(j)
  BY <1>3, <1>12
<1> QED
  BY <1>13, <1>14, <1>15, <1>16

\* An occurrence that gives k no value leaves it without one.
LEMMA StillNotInText ==
    ASSUME TypeOK, NEW k, NEW n \in Nat, n + 1 \in DOMAIN Text, NotInText(n, k),
           \/ Text[n + 1].key # k
           \/ Text[n + 1].form = "bare"
           \/ Text[n + 1].form = "random" /\ \E h \in 1..n : Text[h].key = k
    PROVE  NotInText(n + 1, k)
<1>1. \A j \in 1..(n + 1) : j \in 1..n \/ j = n + 1
  OBVIOUS
<1>2. \A j \in 1..n : j \in 1..(n + 1)
  OBVIOUS
<1>3. 1..((n + 1) - 1) = 1..n
  OBVIOUS
<1> QED
  BY <1>1, <1>2, <1>3 DEF NotInText

\* Loading concerns one key.
LEMMA KeyLoaded ==
    ASSUME TypeOK, ScanInv, NEW forms, NEW k \in Keys, Loading(forms, k), pc' = pc,
           NEW form, form = Head(todo).form,
           \A j \in Keys \ {k} : infile'[j] = infile[j],
           form = "bare" => infile'[k] = infile[k],
           infile'[k] = NoValue =>
              \/ infile[k] = NoValue /\ form = "bare"
              \/ infile[k] = NoValue /\ form = "random" /\ k \in seen
              \/ form \in {"copy", "id"} /\ Mistaken(Head(todo).from),
           (/\ FormsRead(k) \subseteq {"bare", "default"} /\ form = "default"
            /\ infile'[k] # Conflict)
               => DefaultsRead(k) \cup {Head(todo).value} \subseteq {infile'[k], Empty},
           (form = "random" /\ FormsRead(k) \subseteq {"random"}) => infile'[k] \in Draws,
           (form \notin {"copy", "id"} /\ infile[k] \in Values \cup Draws \cup Specials)
               => infile'[k] \in Values \cup Draws \cup Specials
    PROVE  ScanInv'
<1> DEFINE v == infile'[k]
           n == Read + 1
<1>p. PosInv /\ pc # "raised"
  BY DEF ScanInv, Loading, Reading
<1>1. /\ FormsRead(k)' = FormsRead(k) \cup {form}
      /\ DefaultsRead(k)' =
            DefaultsRead(k) \cup (IF form = "default" THEN {Head(todo).value} ELSE {})
      /\ \A j \in Keys \ {k} :
            FormsRead(j)' = FormsRead(j) /\ DefaultsRead(j)' = DefaultsRead(j)
  BY <1>p, ReadGrows
<1>2. infile'[k] = v /\ \A j \in Keys \ {k} : infile'[j] = infile[j]
  OBVIOUS
<1>3. seen' = seen \cup {k} /\ request' = request
  BY DEF Loading
<1>n. /\ Read \in Nat /\ n \in DOMAIN Text /\ Text[n] = Head(todo) /\ Text' = Text
      /\ Read' = n /\ PosInv'
  BY <1>p, ReadNext
<1>m. Text[n].key = k /\ Text[n].form = form /\ Text[n].from = Head(todo).from
  BY <1>n DEF Loading
<1>t. \A i, j : NotInText(i, j)' <=> NotInText(i, j)
  BY <1>3, <1>n DEF NotInText, Copies, Mistaken
<1>4. ASSUME NEW j \in Keys \ {k} PROVE KeyInv(j)'
  <2>1. KeyInv(j)
    BY <1>p DEF ScanInv
  <2>2. NotInText(Read, j) => NotInText(n, j)
    BY <1>m, <1>n, StillNotInText
  <2>3. infile'[j] = NoValue => NotInText(Read, j)'
    BY <1>2, <1>n, <1>t, <2>1, <2>2 DEF KeyInv
  <2> QED
    BY <1>1, <1>2, <1>3, <2>1, <2>3 DEF KeyInv
<1>5. KeyInv(k)
  BY <1>p DEF ScanInv
<1>6. KeyInv(k)'
  <2>1. k \in seen' /\ FormsRead(k)' # {}
    BY <1>1, <1>3
  <2>2. ASSUME v = NoValue PROVE NotInText(n, k)
    <3>1. CASE infile[k] = NoValue /\ form = "bare"
      BY <1>5, <1>m, <1>n, <3>1, StillNotInText DEF KeyInv
    <3>2. CASE infile[k] = NoValue /\ form = "random" /\ k \in seen
      <4>1. FormsRead(k) # {}
        BY <1>5, <3>2 DEF KeyInv
      <4>2. \E h \in 1..Read : Text[h].key = k
        BY <4>1 DEF FormsRead
      <4>3. NotInText(Read, k)
        BY <1>5, <3>2 DEF KeyInv
      <4> QED
        BY <1>m, <1>n, <3>2, <4>2, <4>3, StillNotInText
    <3>3. CASE form \in {"copy", "id"} /\ Mistaken(Head(todo).from)
      <4>1. n \in 1..n
        BY <1>n
      <4> QED
        BY <1>m, <3>3, <4>1 DEF NotInText, Copies
    <3> QED
      BY <2>2, <3>1, <3>2, <3>3
  <2>a. v = NoValue => NotInText(Read, k)'
    BY <1>n, <1>t, <2>2
  <2>3. (FormsRead(k)' \subseteq {"bare", "default"} /\ v # Conflict)
           => DefaultsRead(k)' \subseteq {v, Empty}
    BY <1>1, <1>5 DEF KeyInv
  <2>4. FormsRead(k)' = {"random"} => v \in Draws
    BY <1>1
  <2>5. FormsRead(k)' \subseteq {"bare"} => v = NoValue
    BY <1>1, <1>5 DEF KeyInv
  <2>6. FormsRead(k)' \cap {"copy", "id"} = {} => v \in Values \cup Draws \cup Specials
    BY <1>1, <1>5 DEF KeyInv
  <2> HIDE DEF v
  <2> QED
    BY <1>2, <2>1, <2>a, <2>3, <2>4, <2>5, <2>6 DEF KeyInv
<1> QED
  BY <1>4, <1>6, <1>n DEF ScanInv

\* Where what has been loaded stays, so does what is known of it.
LEMMA ScanStays ==
    ASSUME TypeOK, ScanInv, UNCHANGED <<request, infile, seen>>, Read' = Read, PosInv',
           pc # "raised"
    PROVE  ScanInv'
<1>1. Text' = Text
  BY DEF Text
<1>2. \A k : FormsRead(k)' = FormsRead(k) /\ DefaultsRead(k)' = DefaultsRead(k)
  BY <1>1 DEF FormsRead, DefaultsRead
<1>3. \A i, k : NotInText(i, k)' <=> NotInText(i, k)
  BY <1>1 DEF NotInText, Copies, Mistaken
<1>4. \A k \in Keys : KeyInv(k)
  BY DEF ScanInv
<1>5. ASSUME NEW k \in Keys PROVE KeyInv(k)'
  <2>1. KeyInv(k)
    BY <1>4
  <2>2. infile'[k] = NoValue => NotInText(Read, k)'
    BY <1>3, <2>1 DEF KeyInv
  <2> QED
    BY <1>2, <2>1, <2>2 DEF KeyInv
<1> QED
  BY <1>5 DEF ScanInv

\* After the last occurrence of the imports comes the text, and after that
\* what has been loaded stays.
LEMMA PosStep ==
    ASSUME TypeOK, PosInv, [Next]_vars
    PROVE  /\ PosInv'
           /\ ~Load /\ pc' # "raised" => Read' = Read
<1> USE DEF result, scanned
<1>o. ASSUME pc' \notin Reading, request' = request
      PROVE  PosInv' /\ Read' = Len(Text)
  <2>1. Text' = Text
    BY <1>o DEF Text
  <2>2. Read' = Len(Text)
    BY <1>o, <2>1 DEF Read, Reading
  <2> QED
    BY <1>o, <2>1, <2>2, TextTyped DEF PosInv, Reading
<1>l. pc \notin Reading => Read = Len(Text)
  BY DEF Read, Reading
<1>1. CASE Load
  <2>1. PICK k \in Keys :
           \/ LoadBare(k) \/ LoadVar(k) \/ LoadDefault(k) \/ LoadRandom(k)
           \/ CopyValue(k) \/ MissValue(k) \/ CopyRaises(k)
    BY <1>1 DEF Load
  <2>2. PICK forms : Loading(forms, k) /\ pc' \in {pc, "raised"}
    BY <2>1, LoadIs
  <2>3. CASE pc' = pc
    BY <1>1, <2>2, <2>3, ReadNext
  <2>4. CASE pc' = "raised"
    BY <1>1, <1>o, <2>2, <2>4 DEF Loading, Reading
  <2> QED
    BY <2>2, <2>3, <2>4
<1>2. CASE VarRaises \/ ScriptRaises
  BY <1>2, <1>o DEF VarRaises, ScriptRaises, Reading
<1>3. CASE ImportsDone
  <2>1. /\ pc = "import" /\ todo = <<>> /\ pc' = "scan" /\ todo' = request.text
        /\ request' = request
    BY <1>3 DEF ImportsDone
  <2>2. Text' = Text
    BY <2>1 DEF Text
  <2> DEFINE m == Len(request.imported)
             n == Len(request.text)
  <2>3. /\ m \in Nat /\ n \in Nat /\ Len(Text) = m + n
        /\ DOMAIN Text = 1..Len(Text)
        /\ \A j \in 1..n : Text[m + j] = request.text[j]
    BY TextTyped
  <2>4. Read = m - Len(todo) /\ Len(todo) = 0
    BY <2>1 DEF Read
  <2>5. Read = m
    BY <2>3, <2>4
  <2>6. Read' = Len(Text) - n
    BY <2>1, <2>2 DEF Read
  <2>7. Read' = m
    <3>1. \A x, y \in Nat : (x + y) - y = x
      OBVIOUS
    <3> QED
      BY <2>3, <2>6, <3>1
  <2>8. ASSUME NEW j \in 1..n PROVE m + j \in DOMAIN Text
    <3>1. m + j \in 1..(m + n)
      <4> HIDE DEF m, n
      <4> QED
        BY <2>3
    <3> QED
      BY <2>3, <3>1
  <2> HIDE DEF m, n
  <2>9. Read' \in Nat /\ Read' >= m
    BY <2>3, <2>7
  <2>10. \A j \in 1..n : Read' + j \in DOMAIN Text /\ request.text[j] = Text[Read' + j]
    BY <2>3, <2>7, <2>8
  <2> QED
    BY <2>1, <2>2, <2>5, <2>7, <2>9, <2>10 DEF PosInv, m, n
<1>4. CASE ScanDone
  <2>1. /\ pc = "scan" /\ todo = <<>> /\ pc' = "init" /\ request' = request
    BY <1>4 DEF ScanDone
  <2>2. Read = Len(Text) - Len(todo) /\ Len(todo) = 0
    BY <2>1 DEF Read
  <2>3. Read = Len(Text)
    BY <2>2, TextTyped
  <2> QED
    BY <1>o, <2>1, <2>3 DEF Reading
<1>5. CASE pc \notin Reading /\ pc' \notin Reading /\ request' = request
  BY <1>l, <1>o, <1>5
<1>6. CASE ScriptSets \/ InitDone
  BY <1>5, <1>6 DEF ScriptSets, InitDone, Reading
<1>7. CASE FillPart \/ MissPart \/ ConflictInPart \/ PartsDone \/ Send
  BY <1>5, <1>7 DEF FillPart, MissPart, ConflictInPart, PartsDone, Send, Reading
<1>8. CASE UNCHANGED vars
  <2>1. Text' = Text
    BY <1>8 DEF vars, Text
  <2>2. Read' = Read
    BY <1>8, <2>1 DEF vars, Read
  <2> QED
    BY <1>8, <2>1, <2>2 DEF vars, PosInv
<1> QED
  BY <1>1, <1>2, <1>3, <1>4, <1>6, <1>7, <1>8 DEF Next, Load

\* Every step keeps what is known of the text.
LEMMA ScanStep == TypeOK /\ ScanInv /\ [Next]_vars => ScanInv'
<1> SUFFICES ASSUME TypeOK, ScanInv, [Next]_vars PROVE ScanInv'
  OBVIOUS
<1>0. /\ infile \in [Keys -> AllValues \cup {Conflict}]
      /\ \A k \in Keys \ seen : infile[k] = NoValue
      /\ PosInv
  BY DEF TypeOK, ScanInv
<1>r. ASSUME pc' = "raised" PROVE ScanInv'
  BY <1>0, <1>r, PosStep DEF ScanInv
<1>k. pc # "raised" => \A k \in Keys : KeyInv(k)
  BY DEF ScanInv
<1>v. ASSUME NEW forms, NEW k \in Keys, Loading(forms, k)
      PROVE  /\ Head(todo).value \in Values \cup {Empty} /\ Head(todo).from \in Keys
             /\ Head(todo).value \notin {NoValue, Conflict} /\ Head(todo).form \in forms
             /\ pc # "raised"
  BY <1>v, NextOccurrence DEF Loading, AllValues, Reading
<1>1. ASSUME NEW k \in Keys, LoadBare(k) PROVE ScanInv'
  <2>1. Loading({"bare"}, k) /\ infile' = infile /\ pc' = pc /\ Head(todo).form = "bare"
    BY <1>1 DEF LoadBare, Loading
  <2> QED
    BY <2>1, KeyLoaded
<1>2. ASSUME NEW k \in Keys, LoadVar(k) PROVE ScanInv'
  <2>1. /\ Loading({"var"}, k) /\ infile' = [infile EXCEPT ![k] = Head(todo).value]
        /\ pc' = pc /\ Head(todo).form = "var"
    BY <1>2 DEF LoadVar, Loading
  <2>2. infile'[k] = Head(todo).value /\ \A j \in Keys \ {k} : infile'[j] = infile[j]
    BY <1>0, <2>1
  <2>3. infile'[k] # NoValue /\ infile'[k] \in Values \cup Draws \cup Specials
    BY <1>v, <2>1, <2>2 DEF Specials
  <2> QED
    BY <2>1, <2>2, <2>3, KeyLoaded
<1>3. ASSUME NEW k \in Keys, LoadDefault(k) PROVE ScanInv'
  <2> DEFINE new == Head(todo).value
             v == IF k \in seen THEN Merged(infile[k], new) ELSE new
  <2>1. /\ Loading({"default"}, k) /\ infile' = [infile EXCEPT ![k] = v]
        /\ pc' = pc /\ Head(todo).form = "default"
    BY <1>0, <1>3 DEF LoadDefault, Loading
  <2>2. new \in Values \cup {Empty} /\ new # Conflict
    BY <1>v, <2>1
  <2>3. v # NoValue /\ v \in Values \cup Draws \cup Specials
    BY <2>2 DEF Merged, AllValues, Specials
  <2>4. ASSUME FormsRead(k) \subseteq {"bare", "default"}, v # Conflict
        PROVE  DefaultsRead(k) \cup {new} \subseteq {v, Empty}
    <3>k. KeyInv(k)
      BY <1>k, <1>v, <2>1
    <3>1. CASE k \notin seen
      <4>1. FormsRead(k) = {}
        BY <3>k, <3>1 DEF KeyInv
      <4>2. DefaultsRead(k) = {}
        BY <1>0, <4>1, ReadTyped
      <4> QED
        BY <3>1, <4>2
    <3>2. CASE k \in seen
      <4>1. infile[k] \in {NoValue, Empty, new} /\ v = new
        BY <2>4, <3>2 DEF Merged
      <4>2. DefaultsRead(k) \subseteq Values \cup {Empty}
        BY <1>0, ReadTyped
      <4>3. infile[k] # Conflict
        BY <2>2, <4>1 DEF AllValues
      <4>4. DefaultsRead(k) \subseteq {infile[k], Empty}
        BY <3>k, <2>4, <4>3 DEF KeyInv
      <4> QED
        BY <4>1, <4>2, <4>4
    <3> QED
      BY <3>1, <3>2
  <2>5. infile'[k] = v /\ \A j \in Keys \ {k} : infile'[j] = infile[j]
    BY <1>0, <2>1
  <2> HIDE DEF v
  <2> QED
    BY <2>1, <2>3, <2>4, <2>5, KeyLoaded
<1>4. ASSUME NEW k \in Keys, LoadRandom(k) PROVE ScanInv'
  <2>1. Loading({"random"}, k) /\ pc' = pc /\ Head(todo).form = "random"
    BY <1>4 DEF LoadRandom, Loading
  <2>2. CASE k \notin seen
    <3>1. PICK d \in Draws : infile' = [infile EXCEPT ![k] = d]
      BY <1>4, <2>2 DEF LoadRandom
    <3>2. infile'[k] = d /\ \A j \in Keys \ {k} : infile'[j] = infile[j]
      BY <1>0, <3>1
    <3>3. d # NoValue
      OBVIOUS
    <3> QED
      BY <2>1, <3>2, <3>3, KeyLoaded
  <2>3. CASE k \in seen
    <3>1. infile' = infile
      BY <1>4, <2>3 DEF LoadRandom
    <3>2. FormsRead(k) \subseteq {"random"} => infile[k] \in Draws
      BY <1>k, <1>v, <2>1, <2>3 DEF KeyInv
    <3> QED
      BY <2>1, <2>3, <3>1, <3>2, KeyLoaded
  <2> QED
    BY <2>2, <2>3
<1>c. ASSUME NEW k \in Keys, Loading({"copy", "id"}, k), pc' = pc, NEW v,
             infile' = [infile EXCEPT ![k] = v],
             v = NoValue => Mistaken(Head(todo).from)
      PROVE  ScanInv'
  <2>1. infile'[k] = v /\ \A j \in Keys \ {k} : infile'[j] = infile[j]
    BY <1>0, <1>c
  <2>2. Head(todo).form \in {"copy", "id"}
    BY <1>c, <1>v
  <2> QED
    BY <1>c, <2>1, <2>2, KeyLoaded
<1>5. ASSUME NEW k \in Keys, CopyValue(k) PROVE ScanInv'
  <2> DEFINE y == Head(todo).from
  <2>1. /\ Loading({"copy", "id"}, k) /\ pc' = pc /\ y \in Available
        /\ infile' = [infile EXCEPT ![k] = Value(y)]
    BY <1>5 DEF CopyValue
  <2>2. Value(y) = NoValue => Mistaken(y)
    BY <1>v, <2>1, AvailableValue
  <2> QED
    BY <1>c, <2>1, <2>2
<1>6. ASSUME NEW k \in Keys, MissValue(k) PROVE ScanInv'
  <2>1. /\ Loading({"copy", "id"}, k) /\ pc' = pc
        /\ infile' = [infile EXCEPT ![k] = Head(todo).value]
    BY <1>6 DEF MissValue
  <2>2. Head(todo).value # NoValue
    BY <1>v, <2>1
  <2> QED
    BY <1>c, <2>1, <2>2
<1>7. ASSUME NEW k \in Keys, CopyRaises(k) PROVE ScanInv'
  <2>1. /\ Loading({"copy", "id"}, k)
        /\ \/ pc' = pc /\ infile' = [infile EXCEPT ![k] = Head(todo).value]
           \/ pc' = "raised"
    BY <1>7 DEF CopyRaises
  <2>2. Head(todo).value # NoValue
    BY <1>v, <2>1
  <2> QED
    BY <1>c, <1>r, <2>1, <2>2
<1>u. ASSUME ~Load, pc # "raised", UNCHANGED <<request, infile, seen>> PROVE ScanInv'
  <2>1. CASE pc' = "raised"
    BY <1>r, <2>1
  <2>2. CASE pc' # "raised"
    BY <1>0, <1>u, <2>2, PosStep, ScanStays
  <2> QED
    BY <2>1, <2>2
<1>8. CASE ~Load /\ Next
  <2>1. UNCHANGED <<request, infile, seen>> /\ pc # "raised"
    BY <1>8 DEF Next, Load, VarRaises, ImportsDone, ScanDone, ScriptSets, ScriptRaises, InitDone,
                FillPart, MissPart, ConflictInPart, PartsDone, Send, scanned, result, Reading
  <2> QED
    BY <1>8, <1>u, <2>1
<1>9. CASE UNCHANGED vars
  <2>1. CASE pc = "raised"
    BY <1>9, <1>r, <2>1 DEF vars
  <2>2. CASE pc # "raised"
    <3>1. Read' = Read
      BY <1>9 DEF vars, Read, Text
    <3> QED
      BY <1>0, <1>9, <2>2, <3>1, PosStep, ScanStays DEF vars
  <2> QED
    BY <2>1, <2>2
<1> QED
  BY <1>1, <1>2, <1>3, <1>4, <1>5, <1>6, <1>7, <1>8, <1>9 DEF Load

-----------------------------------------------------------------------------
\* The next setting of the init script.
LEMMA NextSetting ==
    ASSUME TypeOK, LineInv, pc = "init", todo # <<>>
    PROVE  LET n == Len(request.init) - Len(todo) + 1 IN
           /\ n \in 1..Len(request.init) /\ Head(todo) = request.init[n]
           /\ Len(Tail(todo)) <= Len(request.init)
           /\ Len(request.init) - Len(Tail(todo)) = n
           /\ \A j \in 1..Len(Tail(todo)) : Tail(todo)[j] = request.init[n + j]
           /\ Head(todo).key \in Keys /\ Head(todo).value \in Values
<1>1. todo \in Seq(Setting) /\ request.init \in Seq(Setting)
  BY RequestTyped DEF TypeOK, Reading
<1>2. /\ Len(request.init) \in Nat /\ Len(todo) \in Nat \ {0}
      /\ 1 \in 1..Len(todo) /\ Head(todo) = todo[1] /\ Head(todo) \in Setting
      /\ Len(Tail(todo)) = Len(todo) - 1
      /\ \A j \in 1..Len(Tail(todo)) : Tail(todo)[j] = todo[j + 1]
  BY <1>1
<1>3. /\ Len(todo) <= Len(request.init)
      /\ \A j \in 1..Len(todo) :
            todo[j] = request.init[Len(request.init) - Len(todo) + j]
  BY DEF LineInv, Reading
<1>4. Head(todo).key \in Keys /\ Head(todo).value \in Values
  BY <1>2 DEF Setting
<1> QED
  BY <1>2, <1>3, <1>4

\* The command line after the init script: once a script is done, only the
\* properties reported to the editor change.
LEMMA LineStep == TypeOK /\ LineInv /\ [Next]_vars => LineInv'
<1> SUFFICES ASSUME TypeOK, LineInv, [Next]_vars PROVE LineInv'
  OBVIOUS
<1> USE DEF result, scanned, Reading
<1>0. /\ updated \in [Keys -> Values \cup {NoValue}]
      /\ request.init \in Seq(Setting) /\ Len(request.init) \in Nat
  BY RequestTyped DEF TypeOK
<1>s. ASSUME pc \in Reading, pc' \in {pc, "raised"}, UNCHANGED <<request, line, updated>>
      PROVE  LineInv'
  <2>1. CASE pc' = pc
    BY <1>s, <2>1 DEF LineInv, UserLine, Given
  <2>2. CASE pc' = "raised"
    BY <2>2 DEF LineInv
  <2> QED
    BY <1>s, <2>1, <2>2
<1>1. CASE Load \/ VarRaises
  BY <1>1, <1>s, LoadFrame DEF VarRaises
<1>2. CASE ImportsDone
  <2>1. /\ pc = "import" /\ pc' = "scan" /\ UNCHANGED <<request, updated>>
        /\ \A k \in Keys : line'[k] = UserLine(k)
    BY <1>2 DEF ImportsDone, UserLine
  <2>2. \A k \in Keys : updated'[k] = NoValue /\ line'[k] = UserLine(k)'
    BY <2>1 DEF LineInv, UserLine, Given
  <2> QED
    BY <2>1, <2>2 DEF LineInv
<1>3. CASE ScanDone
  <2>1. /\ pc = "scan" /\ pc' = "init" /\ todo' = request.init
        /\ UNCHANGED <<request, line, updated>>
    BY <1>3 DEF ScanDone
  <2>2. Len(request.init) - Len(todo') = 0
    BY <1>0, <2>1
  <2>3. \A k : SetTo(k, 0, NoValue)
    BY DEF SetTo
  <2>4. \A j \in 1..Len(todo') : todo'[j] = request'.init[Len(request'.init) - Len(todo') + j]
    BY <1>0, <2>1
  <2>5. \A k \in Keys : /\ SetTo(k, Len(request.init) - Len(todo), updated[k])'
                        /\ line'[k] = UserLine(k)'
    BY <2>1, <2>2, <2>3 DEF LineInv, SetTo, UserLine, Given
  <2>6. Len(todo') <= Len(request'.init)
    BY <1>0, <2>1
  <2> QED
    BY <2>1, <2>4, <2>5, <2>6 DEF LineInv
<1>4. CASE ScriptSets /\ pc = "init"
  <2> DEFINE n == Len(request.init) - Len(todo) + 1
  <2>1. /\ pc = "init" /\ pc' = "init" /\ todo # <<>> /\ todo' = Tail(todo)
        /\ UNCHANGED <<request, line>>
        /\ updated' = [updated EXCEPT ![Head(todo).key] = Head(todo).value]
    BY <1>4 DEF ScriptSets
  <2>2. /\ n \in 1..Len(request.init) /\ Head(todo) = request.init[n]
        /\ Len(Tail(todo)) <= Len(request.init)
        /\ Len(request.init) - Len(Tail(todo)) = n
        /\ \A j \in 1..Len(Tail(todo)) : Tail(todo)[j] = request.init[n + j]
        /\ Head(todo).key \in Keys /\ Head(todo).value \in Values
    BY <2>1, NextSetting
  <2>3. ASSUME NEW k \in Keys PROVE SetTo(k, n, updated'[k])
    <3>1. SetTo(k, n - 1, updated[k])
      BY <2>1 DEF LineInv
    <3>2. n - 1 \in Nat /\ 1..n = 1..(n - 1) \cup {n}
      BY <1>0, <2>2
    <3>3. CASE request.init[n].key = k
      <4>1. updated'[k] = request.init[n].value
        BY <1>0, <2>1, <2>2, <3>3
      <4>2. \A j \in 1..n : j <= n
        BY <2>2
      <4> QED
        BY <2>2, <3>2, <3>3, <4>1, <4>2 DEF SetTo
    <3>4. CASE request.init[n].key # k
      <4>1. updated'[k] = updated[k]
        BY <1>0, <2>1, <2>2, <3>4
      <4> HIDE DEF n
      <4> QED
        BY <3>1, <3>2, <3>4, <4>1 DEF SetTo
    <3> QED
      BY <3>3, <3>4
  <2> HIDE DEF n
  <2>4. \A k \in Keys : /\ SetTo(k, Len(request.init) - Len(todo), updated[k])'
                        /\ line'[k] = UserLine(k)'
    <3>1. \A k \in Keys : line'[k] = UserLine(k)'
      BY <2>1 DEF LineInv, UserLine, Given
    <3>2. ASSUME NEW k \in Keys PROVE SetTo(k, Len(request.init) - Len(todo), updated[k])'
      <4>1. (Len(request.init) - Len(todo))' = n /\ request' = request
        BY <2>1, <2>2
      <4>2. SetTo(k, n, updated'[k])
        BY <2>3
      <4> QED
        BY <4>1, <4>2 DEF SetTo
    <3> QED
      BY <3>1, <3>2
  <2> QED
    BY <2>1, <2>2, <2>4 DEF LineInv
<1>5. CASE ScriptSets /\ pc = "pre"
  <2>1. pc = "pre" /\ pc' = "pre" /\ UNCHANGED <<request, line>>
    BY <1>5 DEF ScriptSets
  <2> QED
    BY <2>1 DEF LineInv, SetTo, SetByInit, UserLine, Given
<1>6. CASE ScriptRaises
  BY <1>6 DEF ScriptRaises, LineInv
<1>7. CASE InitDone
  <2>1. /\ pc = "init" /\ pc' = "fill" /\ todo = <<>> /\ request' = request
        /\ line' = [k \in Keys |-> IF updated[k] # NoValue THEN updated[k] ELSE line[k]]
    BY <1>7 DEF InitDone
  <2>2. Len(request.init) - Len(todo) = Len(request.init)
    BY <1>0, <2>1
  <2>3. ASSUME NEW k \in Keys
        PROVE  IF SetByInit(k) = {} THEN line'[k] = UserLine(k)
               ELSE SetTo(k, Len(request.init), line'[k])
    <3>1. SetTo(k, Len(request.init), updated[k]) /\ line[k] = UserLine(k)
      BY <2>1, <2>2 DEF LineInv
    <3>2. line'[k] = IF updated[k] # NoValue THEN updated[k] ELSE line[k]
      BY <2>1
    <3>3. CASE SetByInit(k) = {}
      <4>1. \A i \in 1..Len(request.init) : request.init[i].key # k
        BY <1>0, <3>3 DEF SetByInit
      <4>2. updated[k] = NoValue
        BY <3>1, <4>1 DEF SetTo
      <4> QED
        BY <3>1, <3>2, <3>3, <4>2
    <3>4. CASE SetByInit(k) # {}
      <4>1. PICK i \in 1..Len(request.init) : request.init[i].key = k /\ request.init[i].value = updated[k]
        BY <1>0, <3>1, <3>4 DEF SetTo, SetByInit
      <4>2. request.init[i] \in Setting
        BY <1>0, <4>1
      <4>3. updated[k] # NoValue
        BY <4>1, <4>2 DEF Setting
      <4> QED
        BY <3>1, <3>2, <3>4, <4>3
    <3> QED
      BY <3>3, <3>4
  <2> QED
    BY <2>1, <2>3 DEF LineInv, SetTo, SetByInit, UserLine, Given
<1>8. CASE /\ pc \in {"fill", "pre"} /\ pc' \in {"fill", "pre", "sent", "reported", "raised"}
           /\ UNCHANGED <<request, line>>
  BY <1>8 DEF LineInv, SetTo, SetByInit, UserLine, Given
<1>9. CASE FillPart \/ MissPart \/ ConflictInPart \/ PartsDone \/ Send
  BY <1>8, <1>9 DEF FillPart, MissPart, ConflictInPart, PartsDone, Send
<1>10. CASE UNCHANGED vars
  BY <1>10 DEF vars, LineInv, SetTo, SetByInit, UserLine, Given
<1>11. ScriptSets => pc \in {"init", "pre"}
  BY DEF ScriptSets
<1> QED
  BY <1>1, <1>2, <1>3, <1>4, <1>5, <1>6, <1>7, <1>9, <1>10, <1>11 DEF Next, Load

-----------------------------------------------------------------------------
\* The sources in the order in which they count.
LEMMA ValueIs ==
    ASSUME TypeOK, NEW k \in Keys
    PROVE  Value(k) = IF line[k] # NoValue THEN line[k]
                      ELSE IF Offered("file", k) THEN "file"
                      ELSE IF infile[k] # NoValue THEN infile[k]
                      ELSE IF Offered("os", k) THEN "os"
                      ELSE CommandOutput(k)
<1> DEFINE o(i) == Offers(k)[i]
           P(i) == o(i) # NoValue /\ \A j \in 1..(i - 1) : o(j) = NoValue
           c == CHOOSE i \in 1..5 : P(i)
<1>1. /\ o(1) = line[k] /\ o(2) = (IF Offered("file", k) THEN "file" ELSE NoValue)
      /\ o(3) = infile[k] /\ o(4) = (IF Offered("os", k) THEN "os" ELSE NoValue)
      /\ o(5) = CommandOutput(k)
  BY DEF Offers
<1>2. "file" # NoValue /\ "os" # NoValue
  BY DEF Outside
<1>3. Value(k) = IF \A i \in 1..5 : o(i) = NoValue THEN NoValue ELSE o(c)
  BY DEF Value
<1>4. ASSUME NEW n \in 1..5, P(n) PROVE Value(k) = o(n)
  <2>1. \A i \in 1..5 : P(i) => i = n
    <3> HIDE DEF o
    <3> QED
      BY <1>4
  <2>2. c = n
    <3> HIDE DEF P
    <3> QED
      BY <1>4, <2>1
  <2> QED
    BY <1>3, <1>4, <2>2
<1> HIDE DEF o, c
<1>5. CASE o(1) # NoValue
  BY <1>1, <1>4, <1>5
<1>6. CASE o(1) = NoValue /\ o(2) # NoValue
  <2>1. P(2)
    BY <1>6
  <2> QED
    BY <1>1, <1>4, <1>6, <2>1
<1>7. CASE o(1) = NoValue /\ o(2) = NoValue /\ o(3) # NoValue
  <2>1. P(3)
    BY <1>7
  <2> QED
    BY <1>1, <1>2, <1>4, <1>7, <2>1
<1>8. CASE o(1) = NoValue /\ o(2) = NoValue /\ o(3) = NoValue /\ o(4) # NoValue
  <2>1. P(4)
    BY <1>8
  <2> QED
    BY <1>1, <1>2, <1>4, <1>8, <2>1
<1>9. CASE o(1) = NoValue /\ o(2) = NoValue /\ o(3) = NoValue /\ o(4) = NoValue
  <2>1. CASE o(5) # NoValue
    <3>1. P(5)
      BY <1>9, <2>1
    <3> QED
      BY <1>1, <1>2, <1>4, <1>9, <2>1, <3>1
  <2>2. CASE o(5) = NoValue
    <3>1. \A i \in 1..5 : o(i) = NoValue
      BY <1>9, <2>2
    <3> QED
      BY <1>1, <1>2, <1>3, <1>9, <2>2, <3>1
  <2> QED
    BY <2>1, <2>2
<1> QED
  BY <1>5, <1>6, <1>7, <1>8, <1>9

-----------------------------------------------------------------------------
\* What is available while the text is loaded, somebody gave before.
LEMMA AvailableIsKnown ==
    ASSUME TypeOK, ScanInv, LineInv, NEW forms, NEW k \in Keys, Loading(forms, k),
           Head(todo).from \in Available
    PROVE  Known(Read + 1)
<1> DEFINE y == Head(todo).from
<1>1. /\ pc \in Reading /\ pc # "raised" /\ y \in Keys /\ PosInv
  BY NextOccurrence DEF Loading, Reading, ScanInv
<1>2. Read \in Nat /\ Text[Read + 1].from = y /\ (IsOwn(Read + 1) <=> pc = "scan")
  BY <1>1, ReadNext
<1>3. CASE line[y] # NoValue
  <2>1. pc = "scan" /\ Given("user", y)
    BY <1>1, <1>3 DEF LineInv, UserLine, Reading
  <2> QED
    BY <1>2, <2>1 DEF Known
<1>4. CASE infile[y] # NoValue
  <2>1. y \in seen
    BY <1>1, <1>4 DEF TypeOK
  <2>2. FormsRead(y) # {}
    BY <1>1, <2>1 DEF ScanInv, KeyInv
  <2>3. PICK j \in 1..Read : Text[j].key = y
    BY <2>2 DEF FormsRead
  <2>4. j \in 1..((Read + 1) - 1)
    BY <1>2, <2>3
  <2> QED
    BY <1>2, <2>3, <2>4 DEF Known
<1>5. CASE Offered("file", y) \/ Offered("command", y)
  <2>1. pc = "scan" /\ (Given("file", y) \/ Given("command", y))
    BY <1>1, <1>5 DEF Offered, Reading
  <2> QED
    BY <1>2, <2>1 DEF Known
<1>6. CASE \E h \in request.given["os"] : Stripped[h] = y
  BY <1>2, <1>6 DEF Known
<1>7. \/ line[y] # NoValue \/ infile[y] # NoValue
      \/ Offered("file", y) \/ Offered("command", y)
      \/ \E h \in request.given["os"] : Stripped[h] = y
  BY DEF Available
<1> QED
  BY <1>3, <1>4, <1>5, <1>6, <1>7

\* What is not available while the text is loaded is missing there.
LEMMA MissingWhenLoaded ==
    ASSUME TypeOK, ScanInv, LineInv, NEW forms, NEW k \in Keys, Loading(forms, k),
           forms = {"copy", "id"}, Head(todo).from \notin Available
    PROVE  /\ Read + 1 \in DOMAIN Text
           /\ MissingToVar(Read + 1, Head(todo).from)
<1> DEFINE y == Head(todo).from
           n == Read + 1
<1>1. /\ pc \in Reading /\ pc # "raised" /\ y \in Keys /\ PosInv
      /\ Head(todo).form \in {"copy", "id"}
  BY NextOccurrence DEF Loading, Reading, ScanInv
<1>2. /\ Read \in Nat /\ n \in DOMAIN Text /\ Text[n] = Head(todo) /\ (IsOwn(n) <=> pc = "scan")
  BY <1>1, ReadNext
<1>3. /\ line[y] = NoValue /\ infile[y] = NoValue
      /\ ~Offered("file", y) /\ ~Offered("command", y)
      /\ ~\E h \in request.given["os"] : Stripped[h] = y
  BY <1>1 DEF Available
<1>4. NotInText(Read, y)
  BY <1>1, <1>3 DEF ScanInv, KeyInv
<1>5. n - 1 = Read
  BY <1>2
<1>6. NotInText(n - 1, y)
  BY <1>4, <1>5
<1>7. ASSUME IsOwn(n) PROVE NotOutside(y)
  <2>1. pc = "scan"
    BY <1>2, <1>7
  <2>2. ~Given("user", y)
    BY <1>1, <1>3, <2>1 DEF LineInv, UserLine, Outside
  <2>3. ~Given("file", y) /\ ~Given("command", y)
    BY <1>3, <2>1 DEF Offered
  <2> QED
    BY <2>2, <2>3 DEF NotOutside
<1>8. NotInEnvironment(y)
  BY <1>3 DEF NotInEnvironment, Given
<1>9. Copies(n) /\ Text[n].from = y
  BY <1>1, <1>2 DEF Copies
<1> HIDE DEF n
<1> QED
  BY <1>2, <1>6, <1>7, <1>8, <1>9 DEF MissingToVar, n

\* Every step keeps that variables use what is known, or leave an error.
LEMMA CopyStep == TypeOK /\ ScanInv /\ LineInv /\ CopyInv /\ [Next]_vars => CopyInv'
<1> SUFFICES ASSUME TypeOK, ScanInv, LineInv, CopyInv, [Next]_vars, pc' # "raised"
             PROVE  CopyInv'
  BY DEF CopyInv
<1> USE DEF result, scanned
<1>p. PosInv
  BY DEF ScanInv
<1>s. ASSUME request' = request
      PROVE  \A i : (Copies(i)' <=> Copies(i)) /\ (Known(i)' <=> Known(i))
  <2>1. Text' = Text
    BY <1>s DEF Text
  <2> QED
    BY <1>s, <2>1 DEF Copies, Known, IsOwn, Given
<1>1. CASE Load
  <2>1. PICK k \in Keys :
           \/ LoadBare(k) \/ LoadVar(k) \/ LoadDefault(k) \/ LoadRandom(k)
           \/ CopyValue(k) \/ MissValue(k) \/ CopyRaises(k)
    BY <1>1 DEF Load
  <2>2. PICK forms : Loading(forms, k) /\ pc' = pc
    BY <2>1, LoadIs
  <2>3. /\ request' = request /\ errors \subseteq errors' /\ pc # "raised"
    BY <1>1, LoadFrame DEF Reading
  <2>4. /\ Read \in Nat /\ Read' = Read + 1 /\ Text[Read + 1] = Head(todo)
    BY <1>p, <2>2, ReadNext
  <2>5. \A i \in 1..Read : Copies(i) => Known(i) \/ errors # {}
    BY <2>3 DEF CopyInv
  <2>6. Copies(Read + 1) => Known(Read + 1) \/ errors' # {}
    <3>1. CASE CopyValue(k) \/ CopyRaises(k)
      <4>1. Loading({"copy", "id"}, k) /\ Head(todo).from \in Available
        BY <3>1 DEF CopyValue, CopyRaises
      <4> QED
        BY <4>1, AvailableIsKnown
    <3>2. CASE MissValue(k)
      <4>1. errors' = errors \cup {Head(todo).from}
        BY <3>2 DEF MissValue
      <4> QED
        BY <4>1
    <3>3. CASE LoadBare(k) \/ LoadVar(k) \/ LoadDefault(k) \/ LoadRandom(k)
      BY <2>4, <3>3 DEF LoadBare, LoadVar, LoadDefault, LoadRandom, Loading, Copies
    <3> QED
      BY <2>1, <3>1, <3>2, <3>3
  <2>7. \A i \in 1..Read' : i \in 1..Read \/ i = Read + 1
    BY <2>4
  <2>8. \A i \in 1..Read' : Copies(i) => Known(i) \/ errors' # {}
    BY <2>3, <2>5, <2>6, <2>7
  <2> QED
    BY <1>s, <2>3, <2>8 DEF CopyInv
<1>2. CASE ~Load
  <2>1. Read' = Read
    BY <1>p, <1>2, PosStep
  <2>2. request' = request /\ errors \subseteq errors' /\ (pc = "raised" => pc' = "raised")
    BY <1>2 DEF Next, Load, VarRaises, ImportsDone, ScanDone, ScriptSets, ScriptRaises, InitDone,
                FillPart, MissPart, ConflictInPart, PartsDone, Send, Reading, vars
  <2>3. \A i \in 1..Read' : Copies(i) => Known(i) \/ errors' # {}
    BY <2>1, <2>2 DEF CopyInv
  <2> QED
    BY <1>s, <2>2, <2>3 DEF CopyInv
<1> QED
  BY <1>1, <1>2

-----------------------------------------------------------------------------
\* v is the value of the first source that gives k one.
InOrder(k, v) ==
    IF SetByInit(k) # {} THEN v = request.init[LastSet(k)].value
    ELSE IF Given("user", k) THEN v = "user"
    ELSE IF Given("file", k) THEN v = "file"
    ELSE IF Forms(k) \subseteq {"bare", "default"} /\ Defaults(k) # {}
    THEN Defaults(k) \subseteq {v, Empty}
    ELSE IF Forms(k) = {"random"} THEN v \in Draws
    ELSE IF Forms(k) \subseteq {"bare"} /\ Given("os", k) THEN v = "os"
    ELSE Forms(k) \cap {"copy", "id"} = {} => v \notin {"user", "file"}

\* The parts have the values the sources give in this order.
OrderInv ==
    \A i \in DOMAIN filled : filled[i] # Literal =>
        \A k \in request.parts[i].keys :
            filled[i][k] = Value(k) /\ InOrder(k, Value(k))

\* Once the text is loaded, what has been loaded is the text.
LEMMA AllRead ==
    ASSUME TypeOK, ScanInv, pc \notin Reading, pc # "raised", NEW k \in Keys
    PROVE  /\ infile[k] = NoValue => NotInText(Len(Text), k)
           /\ (infile[k] = NoValue /\ Forms(k) \cap {"copy", "id"} = {})
                  => Forms(k) \subseteq {"bare", "random"}
           /\ ((Forms(k) \subseteq {"bare", "default"} /\ infile[k] # Conflict)
                  => Defaults(k) \subseteq {infile[k], Empty})
           /\ (Forms(k) = {"random"} => infile[k] \in Draws)
           /\ (Forms(k) \subseteq {"bare"} => infile[k] = NoValue)
           /\ (Forms(k) \cap {"copy", "id"} = {} => infile[k] \in Values \cup Draws \cup Specials)
           /\ (Defaults(k) # {} => "default" \in Forms(k))
<1>p. PosInv /\ KeyInv(k)
  BY DEF ScanInv
<1>l. Read = Len(Text) /\ 1..Read = DOMAIN Text
  BY TextTyped DEF Read, Reading
<1>1. FormsRead(k) = Forms(k) /\ DefaultsRead(k) = Defaults(k)
  BY <1>l DEF FormsRead, DefaultsRead, Forms, Defaults
<1>2. Defaults(k) # {} => "default" \in Forms(k)
  BY <1>1, <1>p, ReadTyped
<1>3. infile[k] = NoValue => NotInText(Len(Text), k)
  BY <1>l, <1>p DEF KeyInv
<1>4. ASSUME infile[k] = NoValue, Forms(k) \cap {"copy", "id"} = {}
      PROVE  Forms(k) \subseteq {"bare", "random"}
  <2>1. NotInText(Read, k)
    BY <1>4, <1>p DEF KeyInv
  <2>2. \A j \in 1..Read : Text[j].key = k => ~Copies(j)
    BY <1>4, <1>l DEF Forms, Copies
  <2>3. \A j \in 1..Read : Text[j].key = k => Text[j].form \in {"bare", "random"}
    BY <2>1, <2>2 DEF NotInText
  <2> QED
    BY <1>l, <2>3 DEF Forms
<1> QED
  BY <1>1, <1>2, <1>3, <1>4, <1>p DEF KeyInv

\* The command line has what the init script set last.
LEMMA LastSetIs ==
    ASSUME TypeOK, LineInv, pc = "fill", NEW k \in Keys, SetByInit(k) # {}
    PROVE  line[k] = request.init[LastSet(k)].value /\ line[k] \in Values
<1>1. request.init \in Seq(Setting) /\ DOMAIN request.init = 1..Len(request.init)
  BY RequestTyped
<1>2. SetTo(k, Len(request.init), line[k])
  BY DEF LineInv
<1>3. PICK i \in 1..Len(request.init) :
         /\ request.init[i].key = k /\ request.init[i].value = line[k]
         /\ \A j \in 1..Len(request.init) : request.init[j].key = k => j <= i
  BY <1>1, <1>2 DEF SetTo, SetByInit
<1>4. i \in SetByInit(k) /\ \A j \in SetByInit(k) : j <= i
  BY <1>1, <1>3 DEF SetByInit
<1>5. \A h \in SetByInit(k) : (\A j \in SetByInit(k) : j <= h) => h = i
  <2>1. \A h \in SetByInit(k) : h \in Int
    BY <1>1 DEF SetByInit
  <2> QED
    BY <1>4, <2>1
<1>6. LastSet(k) = i
  BY <1>4, <1>5 DEF LastSet
<1>7. request.init[i] \in Setting
  BY <1>1, <1>3
<1> QED
  BY <1>3, <1>6, <1>7 DEF Setting

\* While parts are filled, the value of a property is that of the first
\* source that gives one.
LEMMA ValueInOrder ==
    ASSUME TypeOK, ScanInv, LineInv, pc = "fill", NEW k \in Keys, Value(k) # Conflict
    PROVE  InOrder(k, Value(k))
<1>1. CASE SetByInit(k) # {}
  <2>1. line[k] = request.init[LastSet(k)].value /\ line[k] # NoValue
    BY <1>1, LastSetIs
  <2> QED
    BY <1>1, <2>1, ValueIs DEF InOrder
<1>2. CASE SetByInit(k) = {}
  <2>1. line[k] = UserLine(k)
    BY <1>2 DEF LineInv
  <2>2. CASE Given("user", k)
    BY <1>2, <2>1, <2>2, ValueIs DEF InOrder, UserLine, Outside
  <2>3. CASE ~Given("user", k)
    <3>1. line[k] = NoValue
      BY <2>1, <2>3 DEF UserLine
    <3>o. \A s : Offered(s, k) <=> Given(s, k)
      BY DEF Offered
    <3>2. CASE Given("file", k)
      BY <1>2, <2>3, <3>o, <3>1, <3>2, ValueIs DEF InOrder
    <3>3. CASE ~Given("file", k)
      <4>1. Value(k) = IF infile[k] # NoValue THEN infile[k]
                       ELSE IF Given("os", k) THEN "os" ELSE CommandOutput(k)
        BY <3>o, <3>1, <3>3, ValueIs
      <4>2. ASSUME Forms(k) \cap {"copy", "id"} = {} PROVE Value(k) \notin {"user", "file"}
        <5>1. infile[k] \in Values \cup Draws \cup Specials
          BY <4>2, AllRead DEF Reading
        <5>2. infile[k] # NoValue => infile[k] \in Values \cup Draws \cup {Empty}
          BY <4>1, <5>1 DEF Specials
        <5>3. infile[k] # NoValue => infile[k] \notin {"user", "file"}
          BY <5>2 DEF Outside
        <5>4. CommandOutput(k) \notin {"user", "file"}
          BY DEF CommandOutput, Outside
        <5> QED
          BY <4>1, <5>3, <5>4
      <4>3. ASSUME Forms(k) \subseteq {"bare", "default"}, Defaults(k) # {}
            PROVE  Defaults(k) \subseteq {Value(k), Empty}
        <5>1. infile[k] # NoValue
          BY <4>3, AllRead DEF Reading
        <5> QED
          BY <4>1, <4>3, <5>1, AllRead DEF Reading
      <4>4. ASSUME Forms(k) = {"random"} PROVE Value(k) \in Draws
        BY <4>1, <4>4, AllRead DEF Reading
      <4>5. ASSUME Forms(k) \subseteq {"bare"}, Given("os", k) PROVE Value(k) = "os"
        BY <4>1, <4>5, AllRead DEF Reading
      <4> QED
        BY <1>2, <2>3, <3>3, <4>2, <4>3, <4>4, <4>5 DEF InOrder
    <3> QED
      BY <3>2, <3>3
  <2> QED
    BY <2>2, <2>3
<1> QED
  BY <1>1, <1>2

\* A property found missing is missing.
LEMMA MissingIsMissing ==
    ASSUME TypeOK, ScanInv, LineInv, pc = "fill", NEW k \in Keys, k \notin Available
    PROVE  MissingToPart(k)
<1>1. /\ line[k] = NoValue /\ infile[k] = NoValue
      /\ ~Given("file", k) /\ ~Given("command", k) /\ (Given("os", k) => Stripped[k] # k)
  BY DEF Available, Given, Offered
<1>2. SetByInit(k) = {}
  BY <1>1, LastSetIs
<1>3. ~Given("user", k)
  BY <1>1, <1>2 DEF LineInv, UserLine, Outside
<1>4. \A i \in DOMAIN request.init : request.init[i].key # k
  BY <1>2 DEF SetByInit
<1>5. NotInText(Len(Text), k)
  BY <1>1, AllRead DEF Reading
<1> QED
  BY <1>1, <1>3, <1>4, <1>5 DEF MissingToPart, NotOutside, NotInEnvironment

-----------------------------------------------------------------------------
\* While the text, the command line and the request stay, so do the values
\* and what is right for them.
LEMMA OrderStays ==
    ASSUME UNCHANGED <<request, line, infile>>, pc \notin Reading, pc' \notin Reading, NEW k
    PROVE  /\ Value(k)' = Value(k)
           /\ InOrder(k, Value(k)) => (InOrder(k, Value(k)))'
<1>1. Value(k)' = Value(k)
  BY DEF Value, Offers, Offered, Given, CommandOutput, Reading
<1>2. SetByInit(k)' = SetByInit(k) /\ request' = request
  BY DEF SetByInit
<1>3. LastSet(k)' = LastSet(k)
  BY <1>2 DEF LastSet
<1>4. Forms(k)' = Forms(k) /\ Defaults(k)' = Defaults(k)
  BY DEF Forms, Defaults, Text
<1>5. \A s : Given(s, k)' = Given(s, k)
  BY DEF Given
<1> QED
  BY <1>1, <1>2, <1>3, <1>4, <1>5 DEF InOrder

\* What becomes of a part, when only the values of its properties matter.
LEMMA OrderTaken ==
    ASSUME TypeOK, FillInv, OrderInv, pc = "fill", todo # <<>>, NEW f \in Filling,
           filled' = Append(filled, f), todo' = Tail(todo),
           UNCHANGED <<request, pc, line, infile>>,
           f # Literal => \A k \in Head(todo).keys : f[k] = Value(k) /\ InOrder(k, Value(k))
    PROVE  OrderInv'
<1>1. \A k : Value(k)' = Value(k) /\ (InOrder(k, Value(k)) => (InOrder(k, Value(k)))')
  BY OrderStays DEF Reading
<1>2. ASSUME NEW i \in DOMAIN filled', filled'[i] # Literal, NEW k \in request.parts[i].keys
      PROVE  filled'[i][k] = Value(k) /\ InOrder(k, Value(k))
  <2>1. CASE i = Len(filled) + 1
    <3>1. filled'[i] = f /\ request.parts[i] = Head(todo)
      BY <2>1, PartTaken, NextPart
    <3> QED
      BY <1>2, <3>1
  <2>2. CASE i # Len(filled) + 1
    <3>1. i \in DOMAIN filled
      <4>1. i \in 1..(Len(filled) + 1)
        BY <1>2, PartTaken
      <4>2. filled \in Seq(Filling)
        BY DEF FillInv
      <4> QED
        BY <2>2, <4>1, <4>2
    <3>2. filled'[i] = filled[i]
      BY <3>1, PartTaken
    <3> QED
      BY <1>2, <3>1, <3>2 DEF OrderInv
  <2> QED
    BY <2>1, <2>2
<1>3. request' = request
  OBVIOUS
<1> QED
  BY <1>1, <1>2, <1>3 DEF OrderInv

\* Every step keeps the order of the sources.
LEMMA OrderStep ==
    TypeOK /\ FillInv /\ ScanInv /\ LineInv /\ OrderInv /\ [Next]_vars => OrderInv'
<1> SUFFICES ASSUME TypeOK, FillInv, ScanInv, LineInv, OrderInv, [Next]_vars PROVE OrderInv'
  OBVIOUS
<1> USE DEF result, scanned, Reading
<1>e. filled' = <<>> => OrderInv'
  BY DEF OrderInv
<1>f. pc \in {"import", "scan", "init"} => filled = <<>>
  BY DEF FillInv
<1>u. ASSUME UNCHANGED <<request, line, infile, filled>>, pc \in Reading => pc' = pc \/ pc' = "raised",
             pc \notin Reading => pc' \notin Reading
      PROVE  OrderInv'
  <2>1. CASE pc \in Reading
    BY <1>e, <1>f, <1>u, <2>1
  <2>2. CASE pc \notin Reading
    <3>1. \A k : Value(k)' = Value(k) /\ (InOrder(k, Value(k)) => (InOrder(k, Value(k)))')
      BY <1>u, <2>2, OrderStays
    <3> QED
      BY <1>u, <3>1 DEF OrderInv
  <2> QED
    BY <2>1, <2>2
<1>1. CASE Load
  BY <1>1, <1>e, <1>f, LoadFrame
<1>2. CASE VarRaises \/ ImportsDone \/ ScanDone \/ InitDone
  BY <1>2, <1>e, <1>f DEF VarRaises, ImportsDone, ScanDone, InitDone
<1>3. CASE ScriptSets \/ ScriptRaises
  BY <1>3, <1>u DEF ScriptSets, ScriptRaises
<1>4. CASE FillPart
  <2> DEFINE f == [k \in Head(todo).keys |-> Value(k)]
  <2>1. /\ pc = "fill" /\ todo # <<>> /\ ~Conflicting(Head(todo))
        /\ filled' = Append(filled, f) /\ todo' = Tail(todo)
        /\ UNCHANGED <<request, pc, line, infile>>
    BY <1>4 DEF FillPart
  <2>2. Head(todo).keys \subseteq Keys
    BY <2>1, NextPart
  <2>3. f \in [Head(todo).keys -> AllValues]
    BY <2>1, <2>2, ValueTyped DEF Conflicting
  <2>4. f \in Filling
    BY <2>2, <2>3 DEF Filling
  <2>5. \A k \in Head(todo).keys : f[k] = Value(k) /\ InOrder(k, Value(k))
    BY <2>1, <2>2, ValueInOrder DEF Conflicting
  <2> HIDE DEF f
  <2> QED
    BY <2>1, <2>4, <2>5, OrderTaken
<1>5. CASE MissPart
  <2>1. /\ pc = "fill" /\ todo # <<>>
        /\ filled' = Append(filled, Literal) /\ todo' = Tail(todo)
        /\ UNCHANGED <<request, pc, line, infile>>
    BY <1>5 DEF MissPart
  <2> QED
    BY <2>1, OrderTaken DEF Filling
<1>6. CASE ConflictInPart
  <2>1. pc = "fill" /\ todo # <<>> /\ UNCHANGED <<request, line, infile>>
    BY <1>6 DEF ConflictInPart
  <2>2. CASE filled' = Append(filled, Literal) /\ todo' = Tail(todo) /\ UNCHANGED pc
    BY <2>1, <2>2, OrderTaken DEF Filling
  <2>3. CASE pc' = "raised" /\ UNCHANGED <<filled, todo>>
    BY <1>u, <2>1, <2>3
  <2> QED
    BY <1>6, <2>2, <2>3 DEF ConflictInPart
<1>7. CASE PartsDone \/ Send
  BY <1>7, <1>u DEF PartsDone, Send
<1>8. CASE UNCHANGED vars
  BY <1>8, <1>u DEF vars
<1> QED
  BY <1>1, <1>2, <1>3, <1>4, <1>5, <1>6, <1>7, <1>8 DEF Next, Load

\* Every step keeps the reasons for the errors.
LEMMA ReportedStep ==
    /\ TypeOK /\ FillInv /\ ScanInv /\ LineInv /\ ReportedIsMissing /\ [Next]_vars
    => ReportedIsMissing'
<1> SUFFICES ASSUME TypeOK, FillInv, ScanInv, LineInv, ReportedIsMissing, [Next]_vars
             PROVE  ReportedIsMissing'
  OBVIOUS
<1> USE DEF result, scanned
<1> DEFINE Lacks(k) == MissingToPart(k) \/ \E i \in DOMAIN Text : MissingToVar(i, k)
<1>1. ASSUME request' = request, \A k \in errors' : Lacks(k) PROVE ReportedIsMissing'
  <2>1. Text' = Text
    BY <1>1 DEF Text
  <2>2. \A i, k : NotInText(i, k)' <=> NotInText(i, k)
    BY <1>1, <2>1 DEF NotInText, Copies, Mistaken
  <2>3. \A k : (NotOutside(k)' <=> NotOutside(k)) /\ (NotInEnvironment(k)' <=> NotInEnvironment(k))
    BY <1>1 DEF NotOutside, NotInEnvironment, Given
  <2>4. \A k : MissingToPart(k)' <=> MissingToPart(k)
    <3> SUFFICES ASSUME NEW k PROVE MissingToPart(k)' <=> MissingToPart(k)
      OBVIOUS
    <3>1. NotInText(Len(Text), k)' <=> NotInText(Len(Text), k)
      BY <2>1, <2>2
    <3> QED
      BY <1>1, <2>3, <3>1 DEF MissingToPart
  <2>5. \A i, k : MissingToVar(i, k)' <=> MissingToVar(i, k)
    <3> SUFFICES ASSUME NEW i, NEW k PROVE MissingToVar(i, k)' <=> MissingToVar(i, k)
      OBVIOUS
    <3>1. NotInText(i - 1, k)' <=> NotInText(i - 1, k)
      BY <2>2
    <3>2. (Copies(i)' <=> Copies(i)) /\ (IsOwn(i)' <=> IsOwn(i))
      BY <1>1, <2>1 DEF Copies, IsOwn
    <3> QED
      BY <2>1, <2>3, <3>1, <3>2 DEF MissingToVar
  <2> QED
    BY <1>1, <2>1, <2>4, <2>5 DEF ReportedIsMissing
<1>2. \A k \in errors : Lacks(k)
  BY DEF ReportedIsMissing
<1> HIDE DEF Lacks
<1>u. ASSUME UNCHANGED <<request, errors>> PROVE ReportedIsMissing'
  BY <1>1, <1>2, <1>u
<1>3. CASE Load
  <2>1. PICK k \in Keys :
           \/ LoadBare(k) \/ LoadVar(k) \/ LoadDefault(k) \/ LoadRandom(k)
           \/ CopyValue(k) \/ MissValue(k) \/ CopyRaises(k)
    BY <1>3 DEF Load
  <2>2. CASE MissValue(k)
    <3>1. /\ Loading({"copy", "id"}, k) /\ Head(todo).from \notin Available
          /\ errors' = errors \cup {Head(todo).from} /\ request' = request
      BY <2>2 DEF MissValue, Loading
    <3>2. Lacks(Head(todo).from)
      BY <3>1, MissingWhenLoaded DEF Lacks
    <3> QED
      BY <1>1, <1>2, <3>1, <3>2
  <2>3. CASE ~MissValue(k)
    BY <1>u, <2>1, <2>3 DEF LoadBare, LoadVar, LoadDefault, LoadRandom, CopyValue, CopyRaises,
                            Loading
  <2> QED
    BY <2>2, <2>3
<1>4. CASE VarRaises \/ ImportsDone \/ ScanDone \/ InitDone \/ ScriptSets \/ ScriptRaises
  BY <1>4, <1>u DEF VarRaises, ImportsDone, ScanDone, InitDone, ScriptSets, ScriptRaises
<1>5. CASE FillPart \/ ConflictInPart \/ PartsDone \/ Send
  BY <1>5, <1>u DEF FillPart, ConflictInPart, PartsDone, Send
<1>6. CASE MissPart
  <2>1. /\ pc = "fill" /\ todo # <<>> /\ request' = request
        /\ errors' = errors \cup Missing(Head(todo))
    BY <1>6 DEF MissPart
  <2>2. \A k \in Missing(Head(todo)) : k \in Keys /\ k \notin Available
    BY <2>1, NextPart DEF Missing
  <2>3. \A k \in Missing(Head(todo)) : Lacks(k)
    BY <2>1, <2>2, MissingIsMissing DEF Lacks
  <2> QED
    BY <1>1, <1>2, <2>1, <2>3
<1>7. CASE UNCHANGED vars
  BY <1>7, <1>u DEF vars
<1> QED
  BY <1>3, <1>4, <1>5, <1>6, <1>7 DEF Next, Load

\* What is known of the sources while a request is loaded.
SourceInv == ScanInv /\ LineInv /\ CopyInv /\ OrderInv /\ ReportedIsMissing

LEMMA SourceInit == Init => SourceInv
<1> SUFFICES ASSUME Init PROVE SourceInv
  OBVIOUS
<1>1. /\ TypeOK /\ FillInv /\ pc = "import" /\ filled = <<>> /\ errors = {}
      /\ todo = request.imported
  BY TypeInit DEF Init
<1>2. Read = 0
  <2>1. Read = Len(request.imported) - Len(request.imported)
    BY <1>1 DEF Read
  <2>2. \A n \in Nat : n - n = 0
    OBVIOUS
  <2> QED
    BY <1>1, <2>1, <2>2, TextTyped
<1>3. PosInv
  <2>1. Len(request.imported) \in Nat /\ Len(request.text) \in Nat
    BY <1>1, TextTyped
  <2>2. ASSUME NEW j \in 1..Len(request.imported)
        PROVE  0 + j \in DOMAIN Text /\ request.imported[j] = Text[0 + j]
    <3>1. 0 + j = j /\ j \in 1..(Len(request.imported) + Len(request.text))
      <4>1. \A m, n \in Nat : \A x \in 1..m : 0 + x = x /\ x \in 1..(m + n)
        OBVIOUS
      <4> QED
        BY <2>1, <4>1
    <3>2. DOMAIN Text = 1..(Len(request.imported) + Len(request.text))
      BY <1>1, TextTyped
    <3>3. Text[j] = request.imported[j]
      BY <1>1, TextTyped
    <3>4. j \in DOMAIN Text
      BY <3>1, <3>2
    <3> QED
      BY <3>1, <3>3, <3>4
  <2> QED
    BY <1>1, <1>2, <2>2 DEF PosInv
<1>4. ScanInv
  <2>1. 1..Read = {}
    BY <1>2
  <2>2. \A k : FormsRead(k) = {} /\ DefaultsRead(k) = {} /\ NotInText(Read, k)
    BY <2>1 DEF FormsRead, DefaultsRead, NotInText
  <2>3. \A k \in Keys : KeyInv(k)
    BY <2>2 DEF KeyInv, Init, Specials
  <2> QED
    BY <1>3, <2>3 DEF ScanInv
<1>5. LineInv
  BY DEF Init, LineInv
<1>6. CopyInv
  BY <1>2 DEF CopyInv
<1> QED
  BY <1>1, <1>4, <1>5, <1>6 DEF SourceInv, OrderInv, ReportedIsMissing

LEMMA SourceInvariance == Spec => [](IInv /\ SourceInv)
<1>1. IInv /\ SourceInv /\ [Next]_vars => SourceInv'
  BY ScanStep, LineStep, CopyStep, OrderStep, ReportedStep DEF IInv, SourceInv
<1> QED
  BY <1>1, SourceInit, InitIInv, StepIInv, PTL DEF Spec

\* Whatever sources, scripts and parts a request has, it is not sent with a
\* property that nobody gives, in a part or in a variable evaluated while the
\* text is loaded (property_util.py:241-258, 384-399; basic_handlers.py:127).
THEOREM SentIsComplete == Spec => []SentIsValued
<1>1. ASSUME IInv, SourceInv, pc = "sent" PROVE SentIsValued
  <2>1. errors = {} /\ LiteralInv
    BY <1>1 DEF IInv, SentInv
  <2>2. Read = Len(Text) /\ 1..Read = DOMAIN Text
    BY <1>1, TextTyped DEF Read, IInv
  <2>3. \A i \in DOMAIN Text : Copies(i) => Known(i)
    BY <1>1, <2>1, <2>2 DEF SourceInv, CopyInv
  <2> QED
    BY <2>1, <2>3 DEF LiteralInv, SentIsValued
<1>2. IInv /\ SourceInv => SentIsValued
  BY <1>1 DEF SentIsValued
<1> QED
  BY <1>2, SourceInvariance, PTL

\* A property reported missing was missing where it was needed: given by
\* nobody when the parts are filled, or not yet given when a variable that
\* uses it was evaluated, for any text, script and sources
\* (property_util.py:210-224, 256-258, 294-303; parse/__init__.py:373-376).
THEOREM ReportsAreTrue == Spec => []ReportedIsMissing
  BY SourceInvariance, PTL DEF SourceInv

\* Every part gets the value of the first source that gives one, and all
\* parts the same, for any text, script and sources
\* (property_util.py:384-401).
THEOREM SourcesAreInOrder == Spec => []SourcesInOrder
<1>1. SourceInv => SourcesInOrder
  <2> SUFFICES ASSUME OrderInv PROVE SourcesInOrder
    BY DEF SourceInv
  <2>1. ASSUME NEW i \in DOMAIN filled, filled[i] # Literal, NEW k \in request.parts[i].keys
        PROVE  /\ \A j \in DOMAIN filled :
                     (filled[j] # Literal /\ k \in request.parts[j].keys)
                        => filled[j][k] = filled[i][k]
               /\ InOrder(k, filled[i][k])
    BY <2>1 DEF OrderInv
  <2> QED
    BY <2>1 DEF SourcesInOrder, InOrder
<1> QED
  BY <1>1, SourceInvariance, PTL
=============================================================================
