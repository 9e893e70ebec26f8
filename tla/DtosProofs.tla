------------------------------- MODULE DtosProofs -------------------------------
(***************************************************************************)
(* Proofs about Dtos: every class carries its fields, for any document and *)
(* not only those CarriesFields looks at, and for any number of ticks in a *)
(* second.                                                                 *)
(*                                                                         *)
(* What the conversions do is proved once, of any class whose fields are   *)
(* of the known kinds (WellFormed), and of a class it only remains to show *)
(* that it is one.                                                         *)
(***************************************************************************)
EXTENDS Dtos, TLAPS

FieldKinds == {"int", "string", "bool", "time", "strings"}

WellFormed(dto) ==
    /\ \A f \in DOMAIN dto.fields : dto.fields[f] \in FieldKinds
    /\ DOMAIN dto.constant \cap DOMAIN dto.fields = {}
    /\ dto.required \subseteq DOMAIN dto.fields
    /\ \A f \in dto.filled : f \in DOMAIN dto.fields /\ dto.fields[f] = "string"

(* A value of a field, of a type fromJson() takes.                         *)
Fits(kind, value) ==
    /\ value \notin {Absent, Null, Wrong}
    /\ IF kind \in {"int", "time"} THEN value \in Int \cup DOMAIN Cut ELSE value \notin DOMAIN Cut

DocumentFor(dto, doc) ==
    /\ DOMAIN doc \subseteq DOMAIN dto.fields
    /\ \A f \in DOMAIN doc : doc[f] \in {Null, Wrong} \/ Fits(dto.fields[f], doc[f])

(* int64_t holds its own range and folds the rest into it.                 *)
LEMMA LongHolds == \A x \in Longs : Long(x) = x
<1> SUFFICES ASSUME NEW x \in Longs PROVE Long(x) = x
  OBVIOUS
<1>1. LongHalf \in Nat /\ LongHalf > 0 /\ x \in Int /\ -LongHalf <= x /\ x < LongHalf
  BY LongAssumption DEF Longs
<1> DEFINE n == x + LongHalf
           m == 2 * LongHalf
<1>2. n \in Int /\ 0 <= n /\ n < m /\ m \in Int /\ m > 0 /\ n - LongHalf = x
  BY <1>1
<1>3. Long(x) = (n % m) - LongHalf
  BY DEF Long
<1> HIDE DEF n, m
<1>4. n % m = n
  BY <1>2
<1>5. QED
  BY <1>2, <1>3, <1>4

LEMMA LongIsLong == \A x \in Int : Long(x) \in Longs
<1> SUFFICES ASSUME NEW x \in Int PROVE Long(x) \in Longs
  OBVIOUS
<1> DEFINE n == x + LongHalf
           m == 2 * LongHalf
<1>1. LongHalf \in Nat /\ LongHalf > 0 /\ n \in Int /\ m \in Int /\ m > 0 /\ m - LongHalf = LongHalf
  BY LongAssumption
<1>2. Long(x) = (n % m) - LongHalf
  BY DEF Long
<1> HIDE DEF n, m
<1>3. n % m \in 0 .. m - 1
  BY <1>1
<1>4. QED
  BY <1>1, <1>2, <1>3 DEF Longs

(* A time point's whole seconds come back, whatever it counts.             *)
LEMMA SecondsOf ==
    ASSUME NEW time \in Longs
    PROVE  LET s == TimePointToSeconds(time)
           IN  /\ s \in Longs /\ s * Ticks \in Longs
               /\ TimePointToSeconds(SecondsToTimePoint(s)) = s
<1> DEFINE s == TimePointToSeconds(time)
<1>1. /\ Ticks \in Nat /\ Ticks >= 1 /\ LongHalf \in Nat /\ time \in Int
      /\ -LongHalf <= time /\ time < LongHalf
  BY TicksAssumption, LongAssumption DEF Longs
<1>2. CASE time >= 0
  <2> DEFINE q == time \div Ticks
  <2>1. q \in Nat /\ q * Ticks <= time /\ q <= q * Ticks /\ s = q
    BY <1>1, <1>2 DEF TimePointToSeconds
  <2>2. q * Ticks \in Int /\ 0 <= q * Ticks /\ (q * Ticks) \div Ticks = q
    BY <1>1, <2>1
  <2> HIDE DEF q, s
  <2>3. s \in Longs /\ s * Ticks \in Longs
    BY <1>1, <1>2, <2>1, <2>2 DEF Longs
  <2>4. SecondsToTimePoint(s) = q * Ticks
    BY <2>1, <2>3, LongHolds DEF SecondsToTimePoint
  <2>5. TimePointToSeconds(SecondsToTimePoint(s)) = s
    BY <2>1, <2>2, <2>4 DEF TimePointToSeconds
  <2>6. QED
    BY <2>3, <2>5 DEF s
<1>3. CASE time < 0
  <2> DEFINE q == (-time) \div Ticks
  <2>1. q \in Nat /\ q * Ticks <= -time /\ q <= q * Ticks /\ s = -q
    BY <1>1, <1>3 DEF TimePointToSeconds
  <2>2. /\ q * Ticks \in Int /\ 0 <= q * Ticks /\ (q * Ticks) \div Ticks = q
        /\ (-q) * Ticks = -(q * Ticks) /\ -(-(q * Ticks)) = q * Ticks
    BY <1>1, <2>1
  <2> HIDE DEF q, s
  <2>3. s \in Longs /\ s * Ticks \in Longs
    BY <1>1, <1>3, <2>1, <2>2 DEF Longs
  <2>4. SecondsToTimePoint(s) = -(q * Ticks)
    BY <2>1, <2>2, <2>3, LongHolds DEF SecondsToTimePoint
  <2>5. TimePointToSeconds(-(q * Ticks)) = -q
    <3>1. CASE q * Ticks = 0
      BY <1>1, <2>1, <2>2, <3>1 DEF TimePointToSeconds
    <3>2. CASE q * Ticks > 0
      BY <1>1, <2>1, <2>2, <3>2 DEF TimePointToSeconds
    <3>3. QED
      BY <2>2, <3>1, <3>2
  <2>6. QED
    BY <2>1, <2>3, <2>4, <2>5 DEF s
<1>4. QED
  BY <1>1, <1>2, <1>3

(* Seconds whose ticks an int64_t holds.                                   *)
LEMMA ThereAndBack ==
    ASSUME NEW x \in Int, x * Ticks \in Longs
    PROVE  SecondsToTimePoint(x) = x * Ticks /\ TimePointToSeconds(x * Ticks) = x
<1>1. Ticks \in Nat /\ Ticks >= 1
  BY TicksAssumption
<1>2. SecondsToTimePoint(x) = x * Ticks
  BY LongHolds DEF SecondsToTimePoint
<1>3. CASE x >= 0
  <2>1. x * Ticks \in Int /\ x * Ticks >= 0 /\ (x * Ticks) \div Ticks = x
    BY <1>1, <1>3
  <2>2. QED
    BY <1>2, <2>1 DEF TimePointToSeconds
<1>4. CASE x < 0
  <2> DEFINE y == -x
  <2>1. y \in Nat /\ y >= 1 /\ x = -y
    BY <1>4
  <2> HIDE DEF y
  <2>2. y * Ticks \in Int /\ y * Ticks > 0 /\ (y * Ticks) \div Ticks = y /\ (-y) * Ticks = -(y * Ticks)
    BY <1>1, <2>1
  <2>3. TimePointToSeconds(-(y * Ticks)) = -y
    BY <2>2 DEF TimePointToSeconds
  <2>4. QED
    BY <1>2, <2>1, <2>2, <2>3
<1>5. QED
  BY <1>3, <1>4

LEMMA WholeIsLong == \A v \in Int \cup DOMAIN Cut : Whole(v) \in Longs
BY LongIsLong, CutAssumption DEF Whole

(* What toJson() writes of a value fromJson() read.                        *)
LEMMA ReadWritten ==
    ASSUME NEW kind \in FieldKinds, NEW value, Fits(kind, value)
    PROVE  LET read == Read(kind, value)
               out  == Write(kind, read)
           IN  /\ read # Absent /\ out \notin {Absent, Null, Wrong}
               /\ Exact(kind, Rounded(value)) => out = Rounded(value)
               /\ Read(kind, out) # Absent /\ Write(kind, Read(kind, out)) = out
               /\ kind = "strings" => /\ read = Listed(value) /\ out = Listed(value)
                                      /\ Read(kind, out) = out
<1> DEFINE read == Read(kind, value)
           out  == Write(kind, read)
<1>1. CASE kind = "int"
  <2>1. read = Whole(value) /\ out = read /\ read \in Longs
    BY <1>1, WholeIsLong DEF Fits, Read, Write
  <2>2. read \in Int /\ read \notin DOMAIN Cut
    BY <2>1, LongAssumption, CutAssumption DEF Longs
  <2>3. Read(kind, read) = read
    BY <1>1, <2>1, <2>2, LongHolds DEF Read, Whole
  <2>4. Rounded(value) \in Longs => read = Rounded(value)
    BY <2>1, LongHolds DEF Whole, Rounded
  <2>5. QED
    BY <1>1, <2>1, <2>2, <2>3, <2>4, MarksAssumption DEF Exact, Write
<1>2. CASE kind = "time"
  <2> DEFINE w == Whole(value)
  <2>0. value \in Int \cup DOMAIN Cut
    BY <1>2 DEF Fits
  <2>1. w \in Longs /\ w \in Int /\ Ticks \in Int
    <3>1. w \in Longs
      BY <2>0, WholeIsLong
    <3>2. QED
      BY <3>1, TicksAssumption, LongAssumption DEF Longs
  <2>2. read = SecondsToTimePoint(w) /\ out = TimePointToSeconds(read)
    BY <1>2 DEF Read, Write
  <2>3. (Rounded(value) \in Longs) => w = Rounded(value)
    BY LongHolds DEF Whole, Rounded
  <2> HIDE DEF w
  <2>4. w * Ticks \in Int
    BY <2>1
  <2>5. read \in Longs /\ read \in Int
    BY <2>2, <2>4, LongIsLong, LongAssumption DEF SecondsToTimePoint, Longs
  <2> HIDE DEF read, out
  <2>6. out \in Longs /\ TimePointToSeconds(SecondsToTimePoint(out)) = out
    BY <2>2, <2>5, SecondsOf
  <2>7. out \in Int /\ out \notin DOMAIN Cut
    BY <2>6, LongAssumption, CutAssumption DEF Longs
  <2>8. Read(kind, out) = SecondsToTimePoint(out)
    BY <1>2, <2>6, <2>7, LongHolds DEF Read, Whole
  <2>9. out * Ticks \in Int
    BY <2>1, <2>7
  <2>10. SecondsToTimePoint(out) \in Int
    BY <2>9, LongIsLong, LongAssumption DEF SecondsToTimePoint, Longs
  <2>11. w * Ticks \in Longs => out = w
    BY <2>1, <2>2, ThereAndBack
  <2>12. QED
    BY <1>2, <2>3, <2>5, <2>6, <2>7, <2>8, <2>10, <2>11, MarksAssumption DEF Exact, Write, read, out
<1>3. CASE kind \notin {"int", "time"}
  <2>1. read = (IF kind = "strings" THEN Listed(value) ELSE value) /\ out = read
    BY <1>3 DEF Read, Write, FieldKinds
  <2>2. Rounded(value) = value
    BY <1>3 DEF Fits, Rounded
  <2>3. kind = "strings" => Listed(value) \notin {Absent, Null, Wrong} \cup DOMAIN Single
    BY SingleAssumption DEF Listed, Fits
  <2>4. kind = "strings" /\ value \notin DOMAIN Single => Listed(value) = value
    BY DEF Listed
  <2>5. Read(kind, out) = out /\ Write(kind, out) = out
    BY <1>3, <2>1, <2>3 DEF Read, Write, Listed, FieldKinds
  <2>6. out \notin {Absent, Null, Wrong}
    BY <2>1, <2>3 DEF Fits
  <2>7. QED
    BY <2>1, <2>2, <2>4, <2>5, <2>6 DEF Exact
<1>4. QED
  BY <1>1, <1>2, <1>3

(* fromJson() and toJson() after it, field by field.                       *)
LEMMA Converted ==
    ASSUME NEW dto, WellFormed(dto), NEW doc, DocumentFor(dto, doc), NEW f \in DOMAIN dto.fields
    PROVE  LET obj  == Construct(dto, doc)
               kind == dto.fields[f]
               out  == Write(kind, obj[f])
           IN  /\ obj[f] # Absent <=> f \in DOMAIN doc /\ doc[f] \notin {Null, Wrong}
               /\ obj[f] # Absent =>
                     /\ out \notin {Absent, Null, Wrong}
                     /\ Exact(kind, Rounded(doc[f])) => out = Rounded(doc[f])
                     /\ Read(kind, out) # Absent /\ Write(kind, Read(kind, out)) = out
                     /\ kind = "strings" => obj[f] = Listed(doc[f]) /\ out = Listed(doc[f])
                                            /\ Read(kind, out) = out
<1> DEFINE obj  == Construct(dto, doc)
           kind == dto.fields[f]
<1>1. obj[f] = IF ~IsSet(doc, f) THEN Absent
               ELSE IF doc[f] = Wrong THEN Absent ELSE Read(kind, doc[f])
  BY DEF Construct, FromJson, Blank
<1>2. kind \in FieldKinds /\ (f \in DOMAIN doc => doc[f] \in {Null, Wrong} \/ Fits(kind, doc[f]))
  BY DEF DocumentFor, WellFormed
<1> HIDE DEF obj, kind
<1>3. f \in DOMAIN doc /\ doc[f] \notin {Null, Wrong} => Fits(kind, doc[f]) /\ obj[f] = Read(kind, doc[f])
  BY <1>1, <1>2 DEF IsSet
<1>4. ~(f \in DOMAIN doc /\ doc[f] \notin {Null, Wrong}) => obj[f] = Absent
  BY <1>1 DEF IsSet
<1>5. CASE f \in DOMAIN doc /\ doc[f] \notin {Null, Wrong}
  BY <1>2, <1>3, <1>5, ReadWritten DEF obj, kind
<1>6. CASE ~(f \in DOMAIN doc /\ doc[f] \notin {Null, Wrong})
  BY <1>4, <1>6 DEF obj, kind
<1>7. QED
  BY <1>5, <1>6

(* The fields written of an object that was read are those that could be.  *)
LEMMA WrittenTold ==
    ASSUME NEW dto, WellFormed(dto), NEW doc, DocumentFor(dto, doc)
    PROVE  /\ Written(dto, Construct(dto, doc)) = Told(dto, doc)
           /\ Told(dto, doc) \subseteq DOMAIN dto.fields
           /\ Told(dto, doc) \cap DOMAIN dto.constant = {}
<1> DEFINE obj == Construct(dto, doc)
<1>1. \A f \in DOMAIN dto.fields : f \in Written(dto, obj) <=> f \in Told(dto, doc)
  <2> HIDE DEF obj
  <2>1. QED
    BY Converted DEF Written, Told, obj
<1>2. Told(dto, doc) \subseteq DOMAIN dto.fields
  BY DEF Told, DocumentFor
<1>3. Written(dto, obj) \subseteq DOMAIN dto.fields
  BY DEF Written
<1>4. QED
  BY <1>1, <1>2, <1>3 DEF WellFormed

(* What is read and written again, and once more.                          *)
LEMMA ThereAndBackAgain ==
    ASSUME NEW dto, WellFormed(dto), NEW doc, DocumentFor(dto, doc)
    PROVE  LET sent == ToJson(dto, Construct(dto, doc))
               own  == DOMAIN sent \ DOMAIN dto.constant
           IN  /\ own = Told(dto, doc)
               /\ \A f \in own : Exact(dto.fields[f], Rounded(doc[f])) => sent[f] = Rounded(doc[f])
               /\ ToJson(dto, Construct(dto, sent)) = sent
<1> DEFINE obj   == Construct(dto, doc)
           sent  == ToJson(dto, obj)
           again == Construct(dto, sent)
           told  == Told(dto, doc)
<1>1. /\ DOMAIN sent = told \cup DOMAIN dto.constant /\ told \cap DOMAIN dto.constant = {}
      /\ told \subseteq DOMAIN dto.fields
  BY WrittenTold DEF ToJson
<1>2. ASSUME NEW f \in told
      PROVE  /\ obj[f] # Absent /\ sent[f] = Write(dto.fields[f], obj[f])
             /\ dto.fields[f] = "strings" => obj[f] # << >>
  <2>1. f \in Written(dto, obj) /\ f \notin DOMAIN dto.constant
    BY <1>1, WrittenTold
  <2>2. QED
    BY <2>1 DEF ToJson, Written
<1>3. \A f \in DOMAIN dto.constant : sent[f] = dto.constant[f]
  BY DEF ToJson
<1> HIDE DEF sent, obj
<1>4. ASSUME NEW f \in told
      PROVE  /\ sent[f] \notin {Null, Wrong}
             /\ Exact(dto.fields[f], Rounded(doc[f])) => sent[f] = Rounded(doc[f])
             /\ Read(dto.fields[f], sent[f]) # Absent
             /\ Write(dto.fields[f], Read(dto.fields[f], sent[f])) = sent[f]
             /\ dto.fields[f] = "strings" => Read(dto.fields[f], sent[f]) # << >>
  BY <1>1, <1>2, Converted DEF obj
<1>5. \A f \in DOMAIN dto.fields :
         again[f] = IF f \in told THEN Read(dto.fields[f], sent[f]) ELSE Absent
  BY <1>1, <1>4 DEF Construct, FromJson, Blank, IsSet, WellFormed
<1> HIDE DEF again
<1>6. Written(dto, again) = told
  BY <1>1, <1>4, <1>5 DEF Written
<1>7. ToJson(dto, again) = [f \in told \cup DOMAIN dto.constant |->
          IF f \in DOMAIN dto.constant THEN dto.constant[f] ELSE Write(dto.fields[f], again[f])]
  BY <1>6 DEF ToJson
<1>8. \A f \in told \cup DOMAIN dto.constant : ToJson(dto, again)[f] = sent[f]
  BY <1>1, <1>3, <1>4, <1>5, <1>7
<1>9. sent = [f \in DOMAIN sent |-> sent[f]]
  BY DEF sent, ToJson
<1>10. ToJson(dto, again) = sent
  BY <1>1, <1>7, <1>8, <1>9
<1>11. QED
  BY <1>1, <1>4, <1>10 DEF sent, obj, again

(* A value of the wrong type leaves its field as it was, and costs no      *)
(* other field its value.                                                  *)
LEMMA WrongStays ==
    ASSUME NEW dto, NEW doc, NEW old, NEW f \in DOMAIN dto.fields
    PROVE  FromJson(dto, doc, old)[f] =
              IF f \in DOMAIN doc /\ doc[f] = Wrong THEN old[f] ELSE Construct(dto, doc)[f]
BY MarksAssumption DEF FromJson, Construct, Blank, IsSet

(* An object that is written and read again is the same but for the        *)
(* fractions of its seconds.                                               *)
LEMMA ObjectReturns ==
    ASSUME NEW dto, WellFormed(dto), NEW f \in DOMAIN dto.fields
    PROVE  LET back == Construct(dto, ToJson(dto, Older(dto)))
           IN  /\ back[f] = IF dto.fields[f] = "time" THEN Ticks ELSE Older(dto)[f]
               /\ back[f] # Absent
               /\ dto.fields[f] = "string" => back[f] # ""
<1> DEFINE old  == Older(dto)
           doc  == ToJson(dto, old)
           kind == dto.fields[f]
<1>1. Ticks \in Nat /\ Ticks > 0
  BY TicksAssumption
<1>2. kind \in FieldKinds
  BY DEF WellFormed
<1>3. old[f] = IF kind = "time" THEN 2 * Ticks - 1 ELSE Typical[kind]
  BY DEF Older
<1>4. kind # "time" => old[f] \notin {Absent, Null, Wrong}
  BY <1>2, <1>3, MarksAssumption DEF Typical, FieldKinds
<1>5. kind = "time" => old[f] \in Int /\ TimePointToSeconds(old[f]) = 1
  <2>1. (2 * Ticks - 1) \div Ticks = 1
    BY <1>1
  <2>2. QED
    BY <1>1, <1>3, <2>1 DEF TimePointToSeconds
<1>6. kind = "strings" => old[f] # << >>
  BY <1>3 DEF Typical
<1>7. kind = "string" => old[f] # ""
  BY <1>3 DEF Typical
<1> HIDE DEF kind
<1>8. old[f] # Absent
  BY <1>4, <1>5, MarksAssumption
<1> HIDE DEF old
<1>9. f \in Written(dto, old) /\ f \notin DOMAIN dto.constant
  BY <1>6, <1>8 DEF Written, WellFormed, kind
<1>10. f \in DOMAIN doc /\ doc[f] = Write(kind, old[f])
  BY <1>9 DEF ToJson, kind
<1> HIDE DEF doc
<1>11. doc[f] \notin {Null, Wrong} /\ (kind = "time" => doc[f] = 1)
  BY <1>4, <1>5, <1>10, MarksAssumption DEF Write
<1>12. Construct(dto, doc)[f] = Read(kind, doc[f])
  BY <1>10, <1>11 DEF Construct, FromJson, IsSet, kind
<1>13. Construct(dto, doc)[f] = IF kind = "time" THEN Ticks ELSE old[f]
  <2>1. Whole(7) = 7 /\ SecondsToTimePoint(Whole(1)) = Ticks
    <3>1. 7 \in Longs /\ 1 \in Longs /\ Ticks \in Longs /\ 1 * Ticks = Ticks
      BY <1>1, LongAssumption DEF Longs
    <3>2. 7 \notin DOMAIN Cut /\ 1 \notin DOMAIN Cut
      BY CutAssumption
    <3>3. QED
      BY <3>1, <3>2, LongHolds DEF Whole, SecondsToTimePoint
  <2>2. kind # "time" => doc[f] = Typical[kind] /\ old[f] = Typical[kind]
    BY <1>3, <1>10 DEF Write
  <2>3. kind = "strings" => Listed(Typical[kind]) = Typical[kind]
    BY MarksAssumption DEF Listed
  <2>4. kind = "int" => Typical[kind] = 7
    BY DEF Typical
  <2>5. QED
    BY <1>2, <1>11, <1>12, <2>1, <2>2, <2>3, <2>4 DEF Read, FieldKinds
<1>14. Ticks # Absent
  BY <1>1, MarksAssumption
<1>15. QED
  BY <1>7, <1>8, <1>13, <1>14 DEF kind, doc, old

LEMMA OddFits ==
    ASSUME NEW kind \in FieldKinds, NEW value \in Odd(kind) \cup {Typical[kind]}, value # Absent
    PROVE  value \in {Null, Wrong} \/ Fits(kind, value)
<1> SUFFICES ASSUME value \notin {Null, Wrong} PROVE Fits(kind, value)
  OBVIOUS
<1>1. kind \in DOMAIN Typical /\ value \in {Typical[kind]} \cup Samples[kind]
  BY DEF Odd, Typical, FieldKinds
<1>2. LongHalf \in Int
  BY LongAssumption
<1>3. CASE kind = "int"
  BY <1>1, <1>2, <1>3 DEF Fits, Typical, Samples
<1>4. CASE kind = "time"
  BY <1>1, <1>2, <1>4 DEF Fits, Typical, Samples
<1>5. CASE kind \in {"string", "bool", "strings"}
  BY <1>1, <1>5, MarksAssumption DEF Fits
<1>6. QED
  BY <1>3, <1>4, <1>5 DEF FieldKinds

LEMMA OddDocument ==
    ASSUME NEW dto, WellFormed(dto), NEW g \in DOMAIN dto.fields, NEW h \in DOMAIN dto.fields,
           NEW v \in Odd(dto.fields[g]), NEW w \in Odd(dto.fields[h])
    PROVE  DocumentFor(dto, DocumentOf(dto, g, h, v, w))
<1> DEFINE doc == DocumentOf(dto, g, h, v, w)
           all == [f \in DOMAIN dto.fields |->
                      IF f = g THEN v ELSE IF f = h THEN w ELSE Typical[dto.fields[f]]]
<1>1. DOMAIN doc \subseteq DOMAIN dto.fields /\ \A f \in DOMAIN doc : doc[f] = all[f] /\ all[f] # Absent
  BY DEF DocumentOf, Restrict
<1>2. ASSUME NEW f \in DOMAIN doc
      PROVE  doc[f] \in {Null, Wrong} \/ Fits(dto.fields[f], doc[f])
  <2>1. f \in DOMAIN dto.fields /\ dto.fields[f] \in FieldKinds
    BY <1>1 DEF WellFormed
  <2>2. doc[f] \in Odd(dto.fields[f]) \cup {Typical[dto.fields[f]]} /\ doc[f] # Absent
    BY <1>1, <2>1
  <2>3. QED
    BY <2>1, <2>2, OddFits
<1>3. QED
  BY <1>1, <1>2 DEF DocumentFor

(* Whatever document it is.                                                *)
LEMMA EveryPasses ==
    ASSUME NEW dto, WellFormed(dto), NEW doc, DocumentFor(dto, doc)
    PROVE  Passes(dto, doc)
<1> DEFINE kept == FromJson(dto, doc, Older(dto))
<1>1. DOMAIN kept = DOMAIN dto.fields
  BY DEF FromJson
<1>2. \A f \in DOMAIN dto.fields :
         kept[f] = IF f \in DOMAIN doc /\ doc[f] = Wrong THEN Older(dto)[f] ELSE Construct(dto, doc)[f]
  BY WrongStays
<1> HIDE DEF kept
<1>3. \A f \in DOMAIN kept :
         kept[f] = IF f \in DOMAIN doc /\ doc[f] = Wrong THEN Older(dto)[f] ELSE Construct(dto, doc)[f]
  BY <1>1, <1>2
<1>4. QED
  BY <1>3, ThereAndBackAgain DEF Passes, kept

LEMMA WellFormedCarries ==
    ASSUME NEW dto, WellFormed(dto)
    PROVE  CarriesFields(dto)
<1>1. \A f, g \in DOMAIN dto.fields : \A v \in Odd(dto.fields[f]), w \in Odd(dto.fields[g]) :
         Passes(dto, DocumentOf(dto, f, g, v, w))
  BY OddDocument, EveryPasses
<1>2. LET back == Construct(dto, ToJson(dto, Older(dto)))
      IN  /\ IsValid(dto, back)
          /\ \A f \in DOMAIN back :
                back[f] = IF dto.fields[f] = "time" THEN Ticks ELSE Older(dto)[f]
  <2> DEFINE back == Construct(dto, ToJson(dto, Older(dto)))
  <2>1. DOMAIN back = DOMAIN dto.fields
    BY DEF Construct, FromJson
  <2>2. \A f \in DOMAIN dto.fields :
           /\ back[f] = IF dto.fields[f] = "time" THEN Ticks ELSE Older(dto)[f]
           /\ back[f] # Absent
           /\ dto.fields[f] = "string" => back[f] # ""
    BY ObjectReturns
  <2> HIDE DEF back
  <2>3. IsValid(dto, back)
    BY <2>2 DEF IsValid, WellFormed
  <2>4. QED
    BY <2>1, <2>2, <2>3 DEF back
<1>3. QED
  BY <1>1, <1>2 DEF CarriesFields

LEMMA ClassesWellFormed == \A dto \in Classes : WellFormed(dto)
<1> USE DEF WellFormed, FieldKinds, Dto
<1>1. WellFormed(AuthRequest)
  BY DEF AuthRequest
<1>2. WellFormed(AuthResponse)
  BY DEF AuthResponse
<1>3. WellFormed(Board)
  BY DEF Board
<1>4. WellFormed(BoardColumn)
  BY DEF BoardColumn
<1>5. WellFormed(ChangePasswordRequest)
  BY DEF ChangePasswordRequest
<1>6. WellFormed(Comment)
  BY DEF Comment
<1>7. WellFormed(CommentDocument)
  BY DEF CommentDocument
<1>8. WellFormed(Document)
  BY DEF Document
<1>9. WellFormed(Edge)
  BY DEF Edge
<1>10. WellFormed(ErrorResponse)
  BY DEF ErrorResponse
<1>11. WellFormed(FieldType)
  BY DEF FieldType
<1>12. WellFormed(FieldTypePossibleValue)
  BY DEF FieldTypePossibleValue
<1>13. WellFormed(Item)
  BY DEF Item
<1>14. WellFormed(ItemDocument)
  BY DEF ItemDocument
<1>15. WellFormed(ItemField)
  BY DEF ItemField
<1>16. WellFormed(ItemHistory)
  BY DEF ItemHistory
<1>17. WellFormed(ItemLink)
  BY DEF ItemLink
<1>18. WellFormed(ItemType)
  BY DEF ItemType
<1>19. WellFormed(ItemUserState)
  BY DEF ItemUserState
<1>20. WellFormed(LinkType)
  BY DEF LinkType
<1>21. WellFormed(PageResponse)
  BY DEF PageResponse
<1>22. WellFormed(Phase)
  BY DEF Phase
<1>23. WellFormed(PrivateMessage)
  BY DEF PrivateMessage
<1>24. WellFormed(Project)
  BY DEF Project
<1>25. WellFormed(ProjectTeam)
  BY DEF ProjectTeam
<1>26. WellFormed(Role)
  BY DEF Role
<1>27. WellFormed(RoleMenuItem)
  BY DEF RoleMenuItem
<1>28. WellFormed(Rule)
  BY DEF Rule
<1>29. WellFormed(RuleItemType)
  BY DEF RuleItemType
<1>30. WellFormed(RuleProject)
  BY DEF RuleProject
<1>31. WellFormed(RuleState)
  BY DEF RuleState
<1>32. WellFormed(SpecialDay)
  BY DEF SpecialDay
<1>33. WellFormed(StandardDay)
  BY DEF StandardDay
<1>34. WellFormed(State)
  BY DEF State
<1>35. WellFormed(Team)
  BY DEF Team
<1>36. WellFormed(TeamMessage)
  BY DEF TeamMessage
<1>37. WellFormed(User)
  BY DEF User
<1>38. WellFormed(UserAction)
  BY DEF UserAction
<1>39. WellFormed(UserDay)
  BY DEF UserDay
<1>40. WellFormed(UserNotification)
  BY DEF UserNotification
<1>41. WellFormed(UserTeamRole)
  BY DEF UserTeamRole
<1>42. WellFormed(UserTodo)
  BY DEF UserTodo
<1>43. WellFormed(Workflow)
  BY DEF Workflow
<1>44. QED
  <2> HIDE DEF WellFormed, FieldKinds, Dto
  <2>1. QED
    BY <1>1, <1>2, <1>3, <1>4, <1>5, <1>6, <1>7, <1>8, <1>9, <1>10, <1>11, <1>12, <1>13, <1>14, <1>15,
       <1>16, <1>17, <1>18, <1>19, <1>20, <1>21, <1>22, <1>23, <1>24, <1>25, <1>26, <1>27,
       <1>28, <1>29, <1>30, <1>31, <1>32, <1>33, <1>34, <1>35, <1>36, <1>37, <1>38, <1>39,
       <1>40, <1>41, <1>42, <1>43
    DEF Classes

(* The DTOs of common/dto, for any 64-bit range and any clock: of every      *)
(* document CarriesFields looks at a class hands on the fields that could be *)
(* read and no others, exact but for fractions where an object can hold the  *)
(* value at all; a wrong or missing one costs no other its value, and an     *)
(* object written and read again loses only the fractions of its seconds.    *)
THEOREM ClassesCarry == \A dto \in Classes : CarriesFields(dto)
BY ClassesWellFormed, WellFormedCarries

(* The same of any document whatever: numbers with fractions or beyond 64     *)
(* bits, seconds the clock cannot count and strings in the place of lists    *)
(* included, and any number of fields null, of a wrong type or missing.      *)
(* Those values are changed (fromJson() refuses none of them), but no other  *)
(* field is, and what was changed is not changed a second time.              *)
THEOREM DocumentsReturn ==
    ASSUME NEW dto \in Classes, NEW doc, DocumentFor(dto, doc)
    PROVE  Passes(dto, doc)
BY ClassesWellFormed, EveryPasses
================================================================================
