--------------------------- MODULE ShapefileProofs ---------------------------
(***************************************************************************)
(* Theorems about ST_ReadSHP, for any shapefile, any columns and any size  *)
(* of the vectors.                                                         *)
(***************************************************************************)
EXTENDS ShapefileRead, SequenceTheorems, WellFoundedInduction, TLAPS

-----------------------------------------------------------------------------
(* The names.  A column is renamed from the name it was given, at most     *)
(* once, with a number that no other column of that name gets: either the  *)
(* loop is still at the first column of that name, and the number is below *)
(* the next one, or it has passed that column, which keeps the name.       *)
Columns == Len(attributes) + 1

Given(n) == IF n = Columns THEN GeometryName ELSE attributes[n]

Kept(n) == names[n] = Given(n)

NamesShape ==
  /\ Len(attributes) \in Nat /\ DOMAIN attributes = 1..Len(attributes)
  /\ \E S : names \in Seq(S)
  /\ Len(names) = Columns
  /\ i \in 1..Columns + 1 /\ j \in Nat /\ i < j
  /\ count \in 1..j - i

(* The hypothesis of DistinctUnlessSuffixed.                               *)
NoneSuffixed ==
  \A m, n, k \in 1..Columns : Given(m) # Suffixed(Given(n), k)

NumberUsed(n, k) ==
  \/ k < count /\ i <= Columns /\ names[i] = Given(n)
  \/ \E m \in 1..Columns : m < i /\ names[m] = Given(n)

RenamedOnce ==
  \A n \in 1..Columns :
    Kept(n) \/ \E k \in 1..Columns : names[n] = Suffixed(Given(n), k) /\ NumberUsed(n, k)

Compared(m, n) == m < i \/ (m = i /\ n < j) \/ (~Kept(m) /\ ~Kept(n))

Apart ==
  \A m, n \in 1..Columns : m < n /\ Compared(m, n) => names[m] # names[n]

SuffixesApart ==
  \A m, n, k, l \in 1..Columns :
    Suffixed(Given(m), k) = Suffixed(Given(n), l) => Given(m) = Given(n) /\ k = l

NamesInv ==
  NamesShape /\ SuffixesApart /\ (NoneSuffixed => RenamedOnce /\ Apart)

LEMMA FieldNames ==
  ASSUME Init
  PROVE  /\ Len(attributes) \in Nat /\ DOMAIN attributes = 1..Len(attributes)
         /\ \E S : attributes \in Seq(S)
         /\ SuffixesApart
<1>1. /\ read \in Reads
      /\ attributes = [f \in DOMAIN read.file.fields |-> read.file.fields[f].name]
  BY DEF Init, file
<1>2. /\ Len(read.file.fields) \in Nat
      /\ DOMAIN read.file.fields = 1..Len(read.file.fields)
  BY <1>1, ReadsAssumption DEF Listed
<1>3. attributes \in Seq({read.file.fields[f].name : f \in 1..Len(read.file.fields)})
  BY <1>1, <1>2
<1>4. Len(attributes) = Len(read.file.fields)
  BY <1>1, <1>2
<1>5. DOMAIN attributes = 1..Len(attributes)
  BY <1>1, <1>2, <1>4
<1>6. SuffixesApart
  <2> DEFINE given == {read.file.fields[f].name : f \in DOMAIN read.file.fields} \cup {GeometryName}
  <2>1. \A n \in 1..Columns : Given(n) \in given
    BY SMTT(30), <1>1, <1>2, <1>4 DEF Columns, Given
  <2>2. \A m, n \in given : \A k, l \in 1..Columns :
          Suffixed(m, k) = Suffixed(n, l) => m = n /\ k = l
    <3>1. \A m, n \in given : \A k, l \in 1..Len(read.file.fields) + 1 :
            Suffixed(m, k) = Suffixed(n, l) => m = n /\ k = l
      BY Zenon, <1>1, SuffixAssumption
    <3> HIDE DEF given
    <3> QED
      BY <1>4, <3>1 DEF Columns
  <2> HIDE DEF given
  <2> QED
    BY <2>1, <2>2 DEF SuffixesApart
<1> QED
  BY <1>2, <1>3, <1>4, <1>5, <1>6

LEMMA NamesStart == Init => NamesInv
<1> SUFFICES ASSUME Init PROVE NamesInv
  OBVIOUS
<1>1. names = Append(attributes, GeometryName) /\ i = 1 /\ j = 2 /\ count = 1
  BY DEF Init, NamesInit
<1> PICK S : attributes \in Seq(S)
  BY FieldNames
<1>2. /\ Len(attributes) \in Nat /\ DOMAIN attributes = 1..Len(attributes)
      /\ SuffixesApart
  BY FieldNames
<1>3. /\ names \in Seq(S \cup {GeometryName}) /\ Len(names) = Columns
      /\ \A n \in 1..Columns : names[n] = Given(n)
  <2>1. attributes \in Seq(S \cup {GeometryName})
    OBVIOUS
  <2> QED
    BY <1>1, <2>1, AppendProperties DEF Columns, Given
<1>4. NamesShape
  BY <1>1, <1>2, <1>3 DEF NamesShape, Columns
<1>5. RenamedOnce
  BY <1>3 DEF RenamedOnce, Kept
<1>6. Apart
  BY <1>1, <1>2, <1>3 DEF Apart, Compared, Kept
<1> QED
  BY <1>2, <1>4, <1>5, <1>6 DEF NamesInv

LEMMA NamesSame == NamesInv /\ UNCHANGED namesVars => NamesInv'
BY DEF NamesInv, namesVars, NamesShape, SuffixesApart, NoneSuffixed, RenamedOnce,
       Apart, Compared, NumberUsed, Kept, Given, Columns

(* The column that is renamed and the one it is compared with have the     *)
(* names they were given, and the new name is one that no column has.      *)
LEMMA NewNameIsNew ==
  ASSUME NamesInv, NoneSuffixed, InnerLoop, SameName
  PROVE  /\ names[i] = Given(j) /\ names[j] = Given(j)
         /\ i \in 1..Columns /\ j \in 1..Columns /\ count \in 1..Columns
         /\ \A n \in 1..Columns : n # j => names[n] # Suffixed(Given(j), count)
<1>1. NamesShape /\ SuffixesApart /\ RenamedOnce /\ Apart
  BY DEF NamesInv
<1>2. /\ i \in 1..Columns /\ j \in 1..Columns /\ i < j /\ count \in 1..Columns
      /\ names[i] = names[j] /\ Columns \in Nat
  BY <1>1 DEF NamesShape, InnerLoop, SameName, Columns
<1>3. Kept(i) /\ Kept(j)
  <2>1. Kept(i) \/ Kept(j)
    BY <1>1, <1>2 DEF Apart, Compared
  <2>2. ASSUME Kept(i), ~Kept(j) PROVE FALSE
    BY <1>1, <1>2, <2>2 DEF RenamedOnce, Kept, NoneSuffixed
  <2>3. ASSUME Kept(j), ~Kept(i) PROVE FALSE
    BY <1>1, <1>2, <2>3 DEF RenamedOnce, Kept, NoneSuffixed
  <2> QED
    BY <2>1, <2>2, <2>3
<1>4. names[i] = Given(j) /\ names[j] = Given(j)
  BY <1>2, <1>3 DEF Kept
<1>5. ASSUME NEW n \in 1..Columns, n # j, names[n] = Suffixed(Given(j), count)
      PROVE  FALSE
  <2>1. ~Kept(n)
    BY <1>2, <1>5 DEF Kept, NoneSuffixed
  <2>2. PICK k \in 1..Columns : names[n] = Suffixed(Given(n), k) /\ NumberUsed(n, k)
    BY <1>1, <2>1 DEF RenamedOnce
  <2>3. Given(n) = Given(j) /\ k = count
    <3>1. Suffixed(Given(n), k) = Suffixed(Given(j), count)
      BY Zenon, <1>5, <2>2
    <3> QED
      BY Zenon, <1>1, <1>2, <3>1 DEF SuffixesApart
  <2>4. PICK m \in 1..Columns : m < i /\ names[m] = Given(n)
    BY <1>2, <2>2, <2>3 DEF NumberUsed
  <2> QED
    BY <1>1, <1>2, <1>4, <2>3, <2>4 DEF Apart, Compared
<1> QED
  BY <1>2, <1>4, <1>5

LEMMA AddSuffixKeeps == NamesInv /\ AddSuffix => NamesInv'
<1> SUFFICES ASSUME NamesInv, AddSuffix PROVE NamesInv'
  OBVIOUS
<1>1. /\ InnerLoop /\ SameName
      /\ names' = [names EXCEPT ![j] = Suffixed(names[j], count)]
      /\ count' = count + 1 /\ j' = j + 1 /\ i' = i /\ attributes' = attributes
  BY DEF AddSuffix
<1>2. NamesShape /\ SuffixesApart
  BY DEF NamesInv
<1> PICK S : names \in Seq(S)
  BY <1>2 DEF NamesShape
<1>3. /\ i \in 1..Columns /\ j \in 1..Columns /\ i < j /\ Columns \in Nat
      /\ count \in 1..j - i
  BY <1>1, <1>2 DEF NamesShape, InnerLoop, Columns
<1>4. /\ names' \in Seq(S \cup {Suffixed(names[j], count)}) /\ Len(names') = Columns
      /\ names'[j] = Suffixed(names[j], count)
      /\ \A n \in 1..Columns : n # j => names'[n] = names[n]
  <2>1. names \in Seq(S \cup {Suffixed(names[j], count)}) /\ Len(names) = Columns
    BY <1>2 DEF NamesShape
  <2> QED
    BY <1>1, <1>3, <2>1, ExceptSeq
<1>5. NamesShape'
  BY <1>1, <1>2, <1>3, <1>4 DEF NamesShape, Columns
<1>6. Columns' = Columns /\ \A n : Given(n)' = Given(n)
  BY <1>1 DEF Columns, Given
<1>7. SuffixesApart' /\ (NoneSuffixed' => NoneSuffixed)
  BY <1>2, <1>6 DEF SuffixesApart, NoneSuffixed
<1>8. ASSUME NoneSuffixed PROVE RenamedOnce' /\ Apart'
  <2>1. /\ names[i] = Given(j) /\ names[j] = Given(j) /\ count \in 1..Columns
        /\ \A n \in 1..Columns : n # j => names[n] # Suffixed(Given(j), count)
    BY <1>1, <1>8, NewNameIsNew
  <2>2. RenamedOnce /\ Apart
    BY <1>8 DEF NamesInv
  <2>3. RenamedOnce'
    <3> SUFFICES ASSUME NEW n \in 1..Columns
                 PROVE  \/ Kept(n)'
                        \/ \E k \in 1..Columns : /\ names'[n] = Suffixed(Given(n), k)
                                                 /\ NumberUsed(n, k)'
      BY <1>6 DEF RenamedOnce
    <3>1. \A k \in 1..Columns : NumberUsed(n, k) => NumberUsed(n, k)'
      BY <1>1, <1>3, <1>4, <1>6 DEF NumberUsed
    <3>2. CASE n = j
      <4> PICK k \in 1..Columns : k = count
        BY <2>1
      <4>1. names'[n] = Suffixed(Given(n), k) /\ names[i] = Given(n)
        BY <1>4, <2>1, <3>2
      <4>2. NumberUsed(n, k)'
        BY <1>1, <1>3, <1>4, <1>6, <4>1 DEF NumberUsed
      <4> QED
        BY <4>1, <4>2
    <3>3. CASE n # j
      BY <1>4, <1>6, <2>2, <3>1, <3>3 DEF RenamedOnce, Kept
    <3> QED
      BY <3>2, <3>3
  <2>4. Apart'
    <3> SUFFICES ASSUME NEW m \in 1..Columns, NEW n \in 1..Columns, m < n, Compared(m, n)'
                 PROVE  names'[m] # names'[n]
      BY <1>6 DEF Apart
    <3>1. CASE m = j \/ n = j
      BY <1>4, <2>1, <3>1
    <3>2. CASE m # j /\ n # j
      <4>1. Compared(m, n)
        BY <1>1, <1>3, <1>4, <1>6, <3>2 DEF Compared, Kept
      <4> QED
        BY <1>4, <2>2, <3>2, <4>1 DEF Apart
    <3> QED
      BY <3>1, <3>2
  <2> QED
    BY <2>3, <2>4
<1> QED
  BY <1>5, <1>7, <1>8 DEF NamesInv

LEMMA PassColumnKeeps == NamesInv /\ PassColumn => NamesInv'
<1> SUFFICES ASSUME NamesInv, PassColumn PROVE NamesInv'
  OBVIOUS
<1>1. /\ i <= Len(names) /\ j <= Len(names) /\ names[i] # names[j]
      /\ j' = j + 1 /\ UNCHANGED <<attributes, names, i, count>>
  BY DEF PassColumn, InnerLoop, SameName
<1>2. NamesShape /\ SuffixesApart
  BY DEF NamesInv
<1>3. NamesShape'
  BY <1>1, <1>2 DEF NamesShape, Columns
<1>4. /\ Columns' = Columns /\ (\A n : Given(n)' = Given(n)) /\ (\A n : Kept(n)' = Kept(n))
  BY <1>1 DEF Columns, Given, Kept
<1>5. SuffixesApart' /\ (NoneSuffixed' => NoneSuffixed) /\ (RenamedOnce => RenamedOnce')
  BY <1>1, <1>2, <1>4 DEF SuffixesApart, NoneSuffixed, RenamedOnce, NumberUsed
<1>6. Apart => Apart'
  BY <1>1, <1>2, <1>4 DEF Apart, Compared, NamesShape, Columns
<1> QED
  BY <1>3, <1>5, <1>6 DEF NamesInv

LEMMA NextColumnKeeps == NamesInv /\ NextColumn => NamesInv'
<1> SUFFICES ASSUME NamesInv, NextColumn PROVE NamesInv'
  OBVIOUS
<1>1. /\ i <= Len(names) /\ j > Len(names) /\ i' = i + 1 /\ j' = i + 2 /\ count' = 1
      /\ UNCHANGED <<attributes, names>>
  BY DEF NextColumn
<1>2. NamesShape /\ SuffixesApart
  BY DEF NamesInv
<1>3. NamesShape'
  BY <1>1, <1>2 DEF NamesShape, Columns
<1>4. /\ Columns' = Columns /\ (\A n : Given(n)' = Given(n)) /\ (\A n : Kept(n)' = Kept(n))
  BY <1>1 DEF Columns, Given, Kept
<1>5. SuffixesApart' /\ (NoneSuffixed' => NoneSuffixed)
  BY <1>2, <1>4 DEF SuffixesApart, NoneSuffixed
<1>6. i \in 1..Columns /\ Columns \in Nat /\ j > Columns /\ j \in Nat
  BY <1>1, <1>2 DEF NamesShape, Columns
<1>7. RenamedOnce => RenamedOnce'
  <2>1. \A n, k \in 1..Columns : NumberUsed(n, k) => NumberUsed(n, k)'
    BY <1>1, <1>4, <1>6 DEF NumberUsed
  <2> QED
    BY <1>1, <1>4, <2>1 DEF RenamedOnce
<1>8. Apart => Apart'
  BY <1>1, <1>4, <1>6 DEF Apart, Compared
<1> QED
  BY <1>3, <1>5, <1>7, <1>8 DEF NamesInv

LEMMA NamesKept == NamesInv /\ [Next]_vars => NamesInv'
<1> SUFFICES ASSUME NamesInv, [Next]_vars PROVE NamesInv'
  OBVIOUS
<1>1. CASE NamesStep
  BY <1>1, AddSuffixKeeps, PassColumnKeeps, NextColumnKeeps DEF NamesStep
<1>2. CASE UNCHANGED namesVars
  BY <1>2, NamesSame
<1> QED
  BY <1>1, <1>2 DEF Next, vars

LEMMA NamesAreDistinct == NamesInv => DistinctUnlessSuffixed
<1> DEFINE given    == {attributes[n] : n \in DOMAIN attributes} \cup {GeometryName}
<1> SUFFICES ASSUME NamesInv, i > Len(names),
                    \A m, n \in given : \A k \in DOMAIN names : m # Suffixed(n, k)
             PROVE  NoDuplicate
  BY Zenon DEF DistinctUnlessSuffixed, Deduplicated
<1>1. NamesShape
  BY DEF NamesInv
<1>2. DOMAIN names = 1..Columns /\ i > Columns /\ i \in Nat /\ Columns \in Nat
  BY <1>1 DEF NamesShape, Columns
<1>3. DOMAIN attributes = 1..Len(attributes)
  BY <1>1 DEF NamesShape
<1>4. \A n \in 1..Columns : Given(n) \in given
  BY <1>1, <1>3 DEF Given, Columns, NamesShape
<1>5. NoneSuffixed
  <2> HIDE DEF given
  <2> QED
    BY <1>2, <1>4 DEF NoneSuffixed
<1>6. Apart
  BY <1>5 DEF NamesInv
<1>7. ASSUME NEW m \in 1..Columns, NEW n \in 1..Columns, m # n
      PROVE  names[m] # names[n]
  <2>1. m < n \/ n < m
    BY <1>2, <1>7
  <2> QED
    BY <1>2, <1>6, <2>1 DEF Apart, Compared
<1> QED
  BY <1>2, <1>7 DEF NoDuplicate

(* The nested loops that rename the columns of a shapefile leave no two    *)
(* with one name, however many there are, as long as none looks like       *)
(* another one with a number appended (read_shapefile.cpp:162).            *)
THEOREM NamesDistinct == Spec => []DistinctUnlessSuffixed
<1> QED
  BY NamesStart, NamesKept, NamesAreDistinct, PTL DEF Spec

-----------------------------------------------------------------------------
(* The scan.  Each row given is the conversion of the record in its place, *)
(* by the types that Bind chose for the columns, and no part of it was one *)
(* that cannot be converted.                                               *)
Typed ==
  /\ BindAccepted
  /\ attribute_encoding = Encoding
  /\ attribute_types = [f \in DOMAIN file.fields |-> AttributeType(file.fields[f])]

Convertible(r) ==
  /\ file.shape_type # "NULL" /\ GeometryRead => ~ShapeLost(r)
  /\ \A f \in Projected \cap DOMAIN file.fields :
       Cell(r, f) # Null => ~AttributeRejected(attribute_types[f], Cell(r, f))

RowsListed ==
  /\ \E S : rows \in Seq(S)
  /\ Len(rows) = shape_idx
  /\ shape_idx \in 0..shape_count

RowsFollow ==
  \A r \in 1..shape_idx : rows[r] = Row(r) /\ Convertible(r)

ScanInv ==
  /\ read \in Reads
  /\ stage = "bind" => shape_idx = 0
  /\ stage \in {"bound", "open"} \/ shape_idx # 0 => Typed
  /\ stage = "done" => shape_idx = shape_count
  /\ RowsListed /\ RowsFollow

LEMMA Counted ==
  ASSUME read \in Reads
  PROVE  /\ shape_count \in Nat
         /\ Len(file.fields) \in Nat /\ DOMAIN file.fields = 1..Len(file.fields)
BY ReadsAssumption DEF Listed, file, shape_count

LEMMA ScanStart == Init => ScanInv
<1> SUFFICES ASSUME Init PROVE ScanInv
  OBVIOUS
<1>1. read \in Reads /\ stage = "bind" /\ shape_idx = 0 /\ rows = <<>>
  BY DEF Init, ScanInit
<1>2. rows \in Seq({}) /\ Len(rows) = 0 /\ 0 \in 0..shape_count
  BY <1>1, Counted
<1>3. RowsListed
  BY <1>1, <1>2 DEF RowsListed
<1>4. RowsFollow
  BY <1>1 DEF RowsFollow
<1> QED
  BY <1>1, <1>3, <1>4 DEF ScanInv

(* What a record is converted to does not change.                          *)
LEMMA RowSame ==
  ASSUME UNCHANGED <<read, attribute_encoding, attribute_types>>, NEW r
  PROVE  Row(r)' = Row(r) /\ (Convertible(r)' <=> Convertible(r))
<1>1. read' = read /\ attribute_encoding' = attribute_encoding
      /\ attribute_types' = attribute_types /\ file' = file
  BY DEF file
<1>2. \A f : Cell(r, f)' = Cell(r, f)
  BY <1>1 DEF Cell
<1>3. \A id : GeometryColumn(id)' <=> GeometryColumn(id)
  BY <1>1 DEF GeometryColumn
<1>4. \A bytes : Text(bytes)' = Text(bytes)
  BY <1>1 DEF Text
<1>5. \A type, cell : ConvertAttribute(type, cell)' = ConvertAttribute(type, cell)
  BY <1>4 DEF ConvertAttribute
<1>6. \A type, cell : AttributeRejected(type, cell)' <=> AttributeRejected(type, cell)
  BY <1>4 DEF AttributeRejected
<1>7. \A f : Attribute(r, f)' = Attribute(r, f)
  BY <1>1, <1>2, <1>5 DEF Attribute
<1>8. Geometry(r)' = Geometry(r)
  BY <1>1 DEF Geometry
<1>9. \A id : Value(r, id)' = Value(r, id)
  BY <1>3, <1>7, <1>8 DEF Value
<1>10. Row(r)' = Row(r)
  BY <1>1, <1>9 DEF Row
<1>11. Projected' = Projected
  BY <1>1 DEF Projected
<1>12. (ShapeLost(r)' <=> ShapeLost(r)) /\ (GeometryRead' <=> GeometryRead)
  BY <1>1, <1>3, <1>11 DEF ShapeLost, GeometryRead
<1> QED
  BY <1>1, <1>2, <1>6, <1>10, <1>11, <1>12 DEF Convertible

LEMMA RowsSame ==
  ASSUME ScanInv, UNCHANGED <<read, shape_idx, rows>>,
         \/ UNCHANGED <<attribute_encoding, attribute_types>>
         \/ shape_idx = 0
  PROVE  RowsListed' /\ RowsFollow'
<1>1. RowsListed'
  BY DEF ScanInv, RowsListed, shape_count, file
<1>2. CASE UNCHANGED <<attribute_encoding, attribute_types>>
  <2>1. \A r : Row(r)' = Row(r) /\ (Convertible(r)' <=> Convertible(r))
    BY <1>2, RowSame
  <2> QED
    BY <1>1, <2>1 DEF ScanInv, RowsFollow
<1>3. CASE shape_idx = 0
  <2>1. shape_idx' = 0
    BY <1>3
  <2> QED
    BY <1>1, <2>1 DEF RowsFollow
<1> QED
  BY <1>1, <1>2, <1>3

LEMMA TypedSame ==
  ASSUME UNCHANGED <<read, attribute_encoding, attribute_types>>
  PROVE  Typed' <=> Typed
BY DEF Typed, BindAccepted, OptionAccepted, Encoding, AttributeType, file

LEMMA BindKeeps == ScanInv /\ Bind => ScanInv'
<1> SUFFICES ASSUME ScanInv, Bind PROVE ScanInv'
  OBVIOUS
<1>1. /\ stage = "bind" /\ shape_idx = 0 /\ UNCHANGED <<read, shape_idx, rows>>
      /\ \/ /\ BindAccepted /\ stage' = "bound" /\ attribute_encoding' = Encoding
            /\ attribute_types' = [f \in DOMAIN file.fields |-> AttributeType(file.fields[f])]
         \/ stage' = "error"
  BY DEF Bind, ScanInv
<1>2. stage' = "bound" => Typed'
  <2>1. /\ file' = file /\ Encoding' = Encoding /\ (BindAccepted' <=> BindAccepted)
        /\ \A field : AttributeType(field)' = AttributeType(field)
    BY <1>1 DEF file, Encoding, BindAccepted, OptionAccepted, AttributeType
  <2> QED
    BY <1>1, <2>1 DEF Typed
<1>3. RowsListed' /\ RowsFollow'
  BY <1>1, RowsSame
<1> QED
  BY <1>1, <1>2, <1>3 DEF ScanInv

(* The rows of a batch follow those given before.                          *)
LEMMA ExecuteKeeps == ScanInv /\ Execute => ScanInv'
<1> SUFFICES ASSUME ScanInv, Execute PROVE ScanInv'
  OBVIOUS
<1> DEFINE n     == OutputSize
           batch == [k \in 1..n |-> Row(shape_idx + k)]
<1>1. /\ stage = "open" /\ ~Undefined /\ ~Rejected
      /\ rows' = rows \o batch /\ shape_idx' = shape_idx + n
      /\ stage' = IF n = 0 THEN "done" ELSE "open"
      /\ UNCHANGED <<read, attribute_encoding, attribute_types>>
  BY DEF Execute
<1> PICK S : rows \in Seq(S)
  BY DEF ScanInv, RowsListed
<1>2. /\ shape_count \in Nat /\ shape_idx \in 0..shape_count /\ Len(rows) = shape_idx
      /\ n \in Nat /\ shape_idx + n <= shape_count /\ (n = 0 => shape_idx = shape_count)
  <2>1. shape_count \in Nat /\ shape_idx \in 0..shape_count /\ Len(rows) = shape_idx
    BY Counted DEF ScanInv, RowsListed
  <2>2. n = IF shape_count - shape_idx < VectorSize THEN shape_count - shape_idx
                                                     ELSE VectorSize
    BY DEF OutputSize
  <2> HIDE DEF n
  <2> QED
    BY <2>1, <2>2, VectorSizeAssumption
<1>3. shape_count' = shape_count
  BY <1>1 DEF shape_count, file
<1> HIDE DEF n
<1> DEFINE T == S \cup {Row(shape_idx + k) : k \in 1..n}
<1>4. /\ rows \in Seq(T) /\ batch \in Seq(T) /\ Len(batch) = n
      /\ \A k \in 1..n : batch[k] = Row(shape_idx + k)
  <2>1. rows \in Seq(T) /\ \A k \in 1..n : Row(shape_idx + k) \in T
    OBVIOUS
  <2> HIDE DEF T
  <2> QED
    BY <1>2, <2>1
<1>5. /\ rows' \in Seq(T) /\ Len(rows') = shape_idx + n
      /\ \A r \in 1..shape_idx : rows'[r] = rows[r]
      /\ \A r \in shape_idx + 1..shape_idx + n : rows'[r] = batch[r - shape_idx]
  <2> HIDE DEF T, batch
  <2>1. /\ rows \o batch \in Seq(T) /\ Len(rows \o batch) = Len(rows) + Len(batch)
        /\ \A r \in 1..Len(rows) + Len(batch) :
             (rows \o batch)[r] = IF r <= Len(rows) THEN rows[r] ELSE batch[r - Len(rows)]
    BY <1>4, ConcatProperties
  <2> QED
    BY <1>1, <1>2, <1>4, <2>1
<1>6. RowsListed'
  <2>1. \E U : rows' \in Seq(U)
    <3> HIDE DEF T
    <3> QED
      BY <1>5
  <2>2. Len(rows') = shape_idx'
    BY Zenon, <1>1, <1>5
  <2>3. shape_idx' \in 0..shape_count'
    BY <1>1, <1>2, <1>3
  <2> QED
    BY Zenon, <2>1, <2>2, <2>3 DEF RowsListed
<1>7. RowsFollow'
  <2>1. \A r : Row(r)' = Row(r) /\ (Convertible(r)' <=> Convertible(r))
    BY <1>1, RowSame
  <2>2. ASSUME NEW r \in 1..shape_idx PROVE rows'[r] = Row(r) /\ Convertible(r)
    BY <1>5 DEF ScanInv, RowsFollow
  <2>3. ASSUME NEW r \in shape_idx + 1..shape_idx + n PROVE rows'[r] = Row(r) /\ Convertible(r)
    <3>1. r - shape_idx \in 1..n /\ shape_idx + (r - shape_idx) = r
      BY <1>2
    <3>2. rows'[r] = Row(r)
      BY <1>4, <1>5, <3>1
    <3>3. r \in Batch
      BY DEF Batch, n
    <3> QED
      BY <1>1, <3>2, <3>3 DEF Undefined, Rejected, Convertible
  <2>4. \A r \in 1..shape_idx + n : r \in 1..shape_idx \/ r \in shape_idx + 1..shape_idx + n
    BY <1>2
  <2> QED
    BY <1>1, <2>1, <2>2, <2>3, <2>4 DEF RowsFollow
<1>8. Typed'
  BY <1>1, TypedSame DEF ScanInv
<1> QED
  BY <1>1, <1>2, <1>3, <1>6, <1>7, <1>8 DEF ScanInv

LEMMA ScanKept == ScanInv /\ [Next]_vars => ScanInv'
<1> SUFFICES ASSUME ScanInv, [Next]_vars PROVE ScanInv'
  OBVIOUS
<1>1. CASE Bind
  BY <1>1, BindKeeps
<1>2. CASE Execute
  BY <1>2, ExecuteKeeps
<1>3. CASE /\ UNCHANGED <<read, attribute_encoding, attribute_types, shape_idx, rows>>
           /\ \/ stage = "bound" /\ stage' = "open"
              \/ stage = "open" /\ stage' \in {"error", "undefined"}
              \/ stage' = stage
  <2>1. RowsListed' /\ RowsFollow'
    BY <1>3, RowsSame
  <2>2. Typed' <=> Typed
    BY <1>3, TypedSame
  <2>3. shape_count' = shape_count
    BY <1>3 DEF shape_count, file
  <2> QED
    BY <1>3, <2>1, <2>2, <2>3 DEF ScanInv
<1> QED
  BY <1>1, <1>2, <1>3 DEF Next, vars, scanVars, Named, InitGlobal, ExecuteFails

(* A scan that ends well has given every record that Bind counted, however *)
(* many there are and whatever the vectors hold (read_shapefile.cpp:495).  *)
THEOREM ScanIsComplete == Spec => []CompleteWhenDone
<1>1. ScanInv => CompleteWhenDone
  BY DEF ScanInv, RowsListed, CompleteWhenDone
<1> QED
  BY <1>1, ScanStart, ScanKept, PTL DEF Spec

-----------------------------------------------------------------------------
(* Induction over the numbers up to one, of membership in a set.           *)
LEMMA Induction ==
  ASSUME NEW S, NEW last \in Nat, 0 \in S, \A n \in 0..last : n < last /\ n \in S => n + 1 \in S
  PROVE  \A n \in 0..last : n \in S
<1> DEFINE R == {p \in Nat \X Nat : p[1] < p[2]}
           T == (0..last) \ S
<1>1. IsWellFoundedOn(R, Nat)
  BY NatLessThanWellFounded DEF OpToRel
<1>2. SUFFICES ASSUME T # {} PROVE FALSE
  OBVIOUS
<1>3. PICK x \in T : \A y \in T : <<y, x>> \notin R
  <2>1. T \subseteq Nat
    OBVIOUS
  <2> HIDE DEF R, T
  <2> QED
    BY <1>1, <1>2, <2>1, WFMin
<1>4. x - 1 \in 0..last /\ x - 1 < last /\ x = (x - 1) + 1 /\ <<x - 1, x>> \in R
  BY <1>3
<1>5. x - 1 \notin S
  BY <1>4
<1> QED
  BY <1>3, <1>4, <1>5

(* Sequences one after the other.                                          *)
Joins(f, seqs, n) ==
  f = [m \in 1..n |-> IF m = 1 THEN seqs[m] ELSE f[m - 1] \o seqs[m]]

LEMMA FlattenDefined ==
  ASSUME NEW seqs, Listed(seqs), Len(seqs) # 0
  PROVE  \E f : Joins(f, seqs, Len(seqs)) /\ FlattenSeq(seqs) = f[Len(seqs)]
<1> DEFINE S == {n \in Nat : \E f : Joins(f, seqs, n)}
<1>1. 0 \in S
  <2>1. Joins([m \in 1..0 |-> <<>>], seqs, 0)
    BY DEF Joins
  <2> QED
    BY <2>1
<1>2. ASSUME NEW n \in Nat, n \in S PROVE n + 1 \in S
  <2>1. PICK f : Joins(f, seqs, n)
    BY <1>2
  <2> DEFINE last == IF n + 1 = 1 THEN seqs[n + 1] ELSE f[n] \o seqs[n + 1]
             g    == [m \in 1..n + 1 |-> IF m = n + 1 THEN last ELSE f[m]]
  <2>2. ASSUME NEW m \in 1..n + 1
        PROVE  g[m] = IF m = 1 THEN seqs[m] ELSE g[m - 1] \o seqs[m]
    <3>1. CASE m = n + 1
      <4>1. g[m] = last /\ (m # 1 => g[m - 1] = f[n])
        BY <3>1
      <4> HIDE DEF g
      <4> QED
        BY <3>1, <4>1
    <3>2. CASE m # n + 1
      <4>1. m \in 1..n /\ g[m] = f[m] /\ (m # 1 => g[m - 1] = f[m - 1])
        BY <3>2
      <4>2. f[m] = IF m = 1 THEN seqs[m] ELSE f[m - 1] \o seqs[m]
        BY <2>1, <4>1 DEF Joins
      <4> HIDE DEF g
      <4> QED
        BY <4>1, <4>2
    <3> QED
      BY <3>1, <3>2
  <2>3. Joins(g, seqs, n + 1)
    <3>1. g = [m \in 1..n + 1 |-> g[m]]
      OBVIOUS
    <3> HIDE DEF g
    <3> QED
      BY <2>2, <3>1 DEF Joins
  <2> QED
    BY <2>3
<1>3. Len(seqs) \in Nat
  BY DEF Listed
<1>4. Len(seqs) \in S
  <2> HIDE DEF S
  <2>1. \A n \in 0..Len(seqs) : n < Len(seqs) /\ n \in S => n + 1 \in S
    BY <1>2, <1>3
  <2>2. \A n \in 0..Len(seqs) : n \in S
    BY <1>1, <1>3, <2>1, Induction
  <2> QED
    BY <1>3, <2>2
<1>5. FlattenSeq(seqs) = (CHOOSE f : Joins(f, seqs, Len(seqs)))[Len(seqs)]
  BY DEF FlattenSeq, Joins
<1>6. Joins(CHOOSE f : Joins(f, seqs, Len(seqs)), seqs, Len(seqs))
  BY <1>4
<1> QED
  BY <1>5, <1>6

LEMMA FlattenElements ==
  ASSUME NEW V, NEW seqs \in Seq(Seq(V))
  PROVE  FlattenSeq(seqs) \in Seq(V)
<1>1. CASE Len(seqs) = 0
  BY <1>1 DEF FlattenSeq
<1>2. CASE Len(seqs) # 0
  <2>1. Listed(seqs) /\ Len(seqs) \in Nat /\ \A n \in 1..Len(seqs) : seqs[n] \in Seq(V)
    BY DEF Listed
  <2>2. PICK f : Joins(f, seqs, Len(seqs)) /\ FlattenSeq(seqs) = f[Len(seqs)]
    BY <1>2, <2>1, FlattenDefined
  <2>3. \A n \in 1..Len(seqs) : f[n] = IF n = 1 THEN seqs[n] ELSE f[n - 1] \o seqs[n]
    BY <2>2 DEF Joins
  <2> DEFINE S == {n \in 0..Len(seqs) : n = 0 \/ f[n] \in Seq(V)}
  <2>4. ASSUME NEW n \in 0..Len(seqs), n < Len(seqs), n \in S PROVE n + 1 \in S
    <3>1. n + 1 \in 1..Len(seqs) /\ (n + 1) - 1 = n
      BY <2>1, <2>4
    <3>2. seqs[n + 1] \in Seq(V)
      BY <2>1, <3>1
    <3>3. n # 0 => f[n] \o seqs[n + 1] \in Seq(V)
      BY <2>4, <3>2, ConcatProperties
    <3>4. f[n + 1] = IF n + 1 = 1 THEN seqs[n + 1] ELSE f[n] \o seqs[n + 1]
      BY <2>3, <3>1
    <3>5. f[n + 1] \in Seq(V)
      BY <3>2, <3>3, <3>4
    <3> QED
      BY <3>1, <3>5
  <2>5. Len(seqs) \in S
    <3>1. 0 \in S /\ Len(seqs) \in Nat /\ Len(seqs) \in 0..Len(seqs)
      BY <2>1
    <3> HIDE DEF S
    <3> QED
      BY <2>4, <3>1, Induction
  <2> QED
    BY <1>2, <2>2, <2>5
<1> QED
  BY <1>1, <1>2

LEMMA ListIs ==
  ASSUME NEW s, Listed(s)
  PROVE  /\ Len(s) \in Nat /\ DOMAIN s = 1..Len(s) /\ s \in Seq(ToSet(s))
         /\ \A n \in 1..Len(s) : s[n] \in ToSet(s)
<1>1. Len(s) \in Nat /\ DOMAIN s = 1..Len(s) /\ s = [n \in 1..Len(s) |-> s[n]]
  BY DEF Listed
<1>2. \A n \in 1..Len(s) : s[n] \in ToSet(s)
  BY <1>1 DEF ToSet
<1>3. s \in [1..Len(s) -> ToSet(s)]
  BY <1>1, <1>2
<1>4. s \in Seq(ToSet(s))
  BY <1>1, <1>3
<1> QED
  BY <1>1, <1>2, <1>4

-----------------------------------------------------------------------------
(* The parts of a shape.                                                   *)
PartsListed(shape) ==
  /\ Listed(shape.vertices) /\ Listed(shape.part_start)
  /\ Len(shape.part_start) > 0 /\ shape.part_start[1] = 0
  /\ \A p, q \in DOMAIN shape.part_start :
       /\ shape.part_start[p] \in 0..Len(shape.vertices)
       /\ p < q => shape.part_start[p] <= shape.part_start[q]

Count(shape)      == Len(shape.part_start)
PartEnd(shape, p) == IF p = Count(shape) THEN Len(shape.vertices) ELSE shape.part_start[p + 1]
Vertices(shape)   == ToSet(shape.vertices)

LEMMA PartIs ==
  ASSUME NEW shape, PartsListed(shape), NEW p \in 1..Count(shape)
  PROVE  /\ Part(shape, p) = SubSeq(shape.vertices, shape.part_start[p] + 1, PartEnd(shape, p))
         /\ shape.part_start[p] \in Nat /\ PartEnd(shape, p) \in Nat
         /\ shape.part_start[p] <= PartEnd(shape, p)
         /\ PartEnd(shape, p) <= Len(shape.vertices)
         /\ Part(shape, p) \in Seq(Vertices(shape))
<1>1. /\ Len(shape.vertices) \in Nat /\ shape.vertices \in Seq(Vertices(shape))
      /\ Count(shape) \in Nat /\ DOMAIN shape.part_start = 1..Count(shape)
      /\ \A n \in 1..Len(shape.vertices) : shape.vertices[n] \in Vertices(shape)
  BY ListIs DEF PartsListed, Vertices, Count
<1>2. Part(shape, p) = SubSeq(shape.vertices, shape.part_start[p] + 1, PartEnd(shape, p))
  BY DEF Part, PartEnd, Count
<1>3. /\ shape.part_start[p] \in 0..Len(shape.vertices) /\ PartEnd(shape, p) \in Nat
      /\ shape.part_start[p] <= PartEnd(shape, p)
      /\ PartEnd(shape, p) <= Len(shape.vertices)
  <2>1. p # Count(shape) => p + 1 \in 1..Count(shape) /\ p < p + 1
    BY <1>1
  <2> QED
    BY <1>1, <2>1 DEF PartsListed, PartEnd
<1> PICK first, end : first = shape.part_start[p] + 1 /\ end = PartEnd(shape, p)
  OBVIOUS
<1>4. first \in 1..Len(shape.vertices) + 1 /\ end \in 0..Len(shape.vertices)
  BY <1>1, <1>3
<1>5. \A n \in first..end : shape.vertices[n] \in Vertices(shape)
  BY <1>1, <1>4
<1>6. SubSeq(shape.vertices, first, end) \in Seq(Vertices(shape))
  BY <1>4, <1>5, SubSeqProperties
<1> QED
  BY <1>2, <1>3, <1>6

LEMMA PartsAre ==
  ASSUME NEW shape, PartsListed(shape),
         NEW first \in 1..Count(shape), NEW last \in Int, last <= Count(shape), first <= last + 1
  PROVE  /\ Parts(shape, first, last) \in Seq(Seq(Vertices(shape)))
         /\ Len(Parts(shape, first, last)) = last - first + 1
         /\ \A n \in 1..last - first + 1 :
              Parts(shape, first, last)[n] = Part(shape, first + n - 1)
<1>1. \A n \in 1..(last - first + 1) : first + n - 1 \in 1..Count(shape)
  BY ListIs DEF PartsListed, Count
<1>2. \A n \in 1..(last - first + 1) : Part(shape, first + n - 1) \in Seq(Vertices(shape))
  BY <1>1, PartIs
<1>3. last - first + 1 \in Nat
  BY ListIs DEF PartsListed, Count
<1> QED
  BY <1>2, <1>3 DEF Parts

(* The loop that looks for the parts that start a polygon.                 *)
Clockwise(shape, p) == Area(Part(shape, p)) < 0

StartsOf(f, shape, n) ==
  f = [p \in 0..n |->
         IF p = 0 THEN <<>>
         ELSE IF Clockwise(shape, p) THEN Append(f[p - 1], p)
         ELSE f[p - 1]]

LEMMA StartsDefined ==
  ASSUME NEW shape, Count(shape) \in Nat
  PROVE  \E f : StartsOf(f, shape, Count(shape)) /\ PolygonStarts(shape) = f[Count(shape)]
<1> DEFINE S == {n \in Nat : \E f : StartsOf(f, shape, n)}
<1>1. 0 \in S
  <2>1. StartsOf([p \in 0..0 |-> <<>>], shape, 0)
    BY DEF StartsOf
  <2> QED
    BY <2>1
<1>2. ASSUME NEW n \in Nat, n \in S PROVE n + 1 \in S
  <2>1. PICK f : StartsOf(f, shape, n)
    BY <1>2
  <2> DEFINE last == IF Clockwise(shape, n + 1) THEN Append(f[n], n + 1) ELSE f[n]
             g    == [p \in 0..n + 1 |-> IF p = n + 1 THEN last ELSE f[p]]
  <2>2. ASSUME NEW p \in 0..n + 1
        PROVE  g[p] = IF p = 0 THEN <<>>
                      ELSE IF Clockwise(shape, p) THEN Append(g[p - 1], p)
                      ELSE g[p - 1]
    <3>1. CASE p = n + 1
      <4>1. g[p] = last /\ g[p - 1] = f[n] /\ p # 0
        BY <3>1
      <4> HIDE DEF g
      <4> QED
        BY <3>1, <4>1
    <3>2. CASE p # n + 1
      <4>1. p \in 0..n /\ g[p] = f[p] /\ (p # 0 => g[p - 1] = f[p - 1])
        BY <3>2
      <4>2. f[p] = IF p = 0 THEN <<>>
                   ELSE IF Clockwise(shape, p) THEN Append(f[p - 1], p)
                   ELSE f[p - 1]
        BY <2>1, <4>1 DEF StartsOf
      <4> HIDE DEF g
      <4> QED
        BY <4>1, <4>2
    <3> QED
      BY <3>1, <3>2
  <2>3. StartsOf(g, shape, n + 1)
    <3>1. g = [p \in 0..n + 1 |-> g[p]]
      OBVIOUS
    <3> HIDE DEF g
    <3> QED
      BY <2>2, <3>1 DEF StartsOf
  <2> QED
    BY <2>3
<1>3. Count(shape) \in S
  <2> HIDE DEF S
  <2>1. \A n \in 0..Count(shape) : n < Count(shape) /\ n \in S => n + 1 \in S
    BY <1>2
  <2>2. \A n \in 0..Count(shape) : n \in S
    BY <1>1, <2>1, Induction
  <2> QED
    BY <2>2
<1>4. PolygonStarts(shape) = (CHOOSE f : StartsOf(f, shape, Count(shape)))[Count(shape)]
  BY DEF PolygonStarts, StartsOf, Count, Clockwise
<1>5. StartsOf(CHOOSE f : StartsOf(f, shape, Count(shape)), shape, Count(shape))
  BY <1>3
<1> QED
  BY <1>4, <1>5

(* They are the clockwise parts, in order.                                 *)
InOrder(starts, shape, n) ==
  /\ starts \in Seq(1..n)
  /\ \A k, l \in 1..Len(starts) : k < l => starts[k] < starts[l]
  /\ \A p \in 1..n : Clockwise(shape, p) <=> \E k \in 1..Len(starts) : starts[k] = p

LEMMA StartsAre ==
  ASSUME NEW shape, Count(shape) \in Nat
  PROVE  InOrder(PolygonStarts(shape), shape, Count(shape))
<1>1. PICK f : StartsOf(f, shape, Count(shape)) /\ PolygonStarts(shape) = f[Count(shape)]
  BY StartsDefined
<1>2. \A p \in 0..Count(shape) :
        f[p] = IF p = 0 THEN <<>>
               ELSE IF Clockwise(shape, p) THEN Append(f[p - 1], p)
               ELSE f[p - 1]
  BY <1>1 DEF StartsOf
<1> DEFINE S == {n \in 0..Count(shape) : InOrder(f[n], shape, n)}
<1>3. 0 \in S
  <2>1. f[0] = <<>> /\ 0 \in 0..Count(shape)
    BY <1>2
  <2>2. InOrder(<<>>, shape, 0)
    <3>1. <<>> \in Seq(1..0) /\ 1..Len(<<>>) = {} /\ 1..0 = {}
      OBVIOUS
    <3> QED
      BY <3>1 DEF InOrder
  <2> QED
    BY <2>1, <2>2
<1>4. ASSUME NEW n \in 0..Count(shape), n < Count(shape), n \in S PROVE n + 1 \in S
  <2>1. n + 1 \in 0..Count(shape) /\ (n + 1) - 1 = n /\ n + 1 # 0
    BY <1>4
  <2>2. f[n + 1] = IF Clockwise(shape, n + 1) THEN Append(f[n], n + 1) ELSE f[n]
    BY <1>2, <2>1
  <2> PICK before : before = f[n]
    OBVIOUS
  <2>3. InOrder(before, shape, n)
    BY <1>4
  <2>4. before \in Seq(1..n + 1) /\ \A k \in 1..Len(before) : before[k] \in 1..n
    BY <2>3 DEF InOrder
  <2>5. CASE Clockwise(shape, n + 1)
    <3>1. PICK after : after = Append(before, n + 1)
      OBVIOUS
    <3>2. /\ after \in Seq(1..n + 1) /\ Len(after) = Len(before) + 1
          /\ after[Len(before) + 1] = n + 1
          /\ \A k \in 1..Len(before) : after[k] = before[k]
      BY <2>4, <3>1, AppendProperties
    <3>3. /\ Len(before) \in Nat
          /\ \A k \in 1..Len(after) : k \in 1..Len(before) \/ k = Len(before) + 1
          /\ \A k \in 1..Len(before) : k \in 1..Len(after)
      BY <2>4, <3>2
    <3>4. ASSUME NEW k \in 1..Len(after), NEW l \in 1..Len(after), k < l
          PROVE  after[k] < after[l]
      <4>1. k \in 1..Len(before) /\ after[k] = before[k] /\ before[k] \in 1..n
        <5>1. k # Len(before) + 1
          BY <3>2, <3>3, <3>4
        <5>2. k \in 1..Len(before)
          BY <3>3, <5>1
        <5> QED
          BY <2>4, <3>2, <5>2
      <4>2. CASE l \in 1..Len(before)
        BY <2>3, <3>2, <3>4, <4>1, <4>2 DEF InOrder
      <4>3. CASE l = Len(before) + 1
        BY <3>2, <4>1, <4>3
      <4> QED
        BY <3>3, <4>2, <4>3
    <3>5. ASSUME NEW p \in 1..n + 1
          PROVE  Clockwise(shape, p) <=> \E k \in 1..Len(after) : after[k] = p
      <4>1. CASE p = n + 1
        BY <2>5, <3>2, <3>3, <4>1
      <4>2. CASE p # n + 1
        <5>1. p \in 1..n
          BY <4>2
        <5>2. Clockwise(shape, p) <=> \E k \in 1..Len(before) : before[k] = p
          BY <2>3, <5>1 DEF InOrder
        <5>3. (\E k \in 1..Len(before) : before[k] = p) <=> \E k \in 1..Len(after) : after[k] = p
          BY Zenon, <3>2, <3>3, <4>2
        <5> QED
          BY <5>2, <5>3
      <4> QED
        BY <4>1, <4>2
    <3>6. InOrder(after, shape, n + 1)
      BY <3>2, <3>4, <3>5 DEF InOrder
    <3> QED
      BY <2>1, <2>2, <2>5, <3>1, <3>6
  <2>6. CASE ~Clockwise(shape, n + 1)
    <3>1. ASSUME NEW p \in 1..n + 1
          PROVE  Clockwise(shape, p) <=> \E k \in 1..Len(before) : before[k] = p
      <4>1. CASE p = n + 1
        BY <2>4, <2>6, <4>1
      <4>2. CASE p # n + 1
        BY <2>3, <4>2 DEF InOrder
      <4> QED
        BY <4>1, <4>2
    <3>2. InOrder(before, shape, n + 1)
      BY <2>3, <2>4, <3>1 DEF InOrder
    <3> QED
      BY <2>1, <2>2, <2>6, <3>2
  <2> QED
    BY <2>5, <2>6
<1>5. Count(shape) \in S
  <2> HIDE DEF S
  <2>1. \A n \in 0..Count(shape) : n \in S
    BY <1>3, <1>4, Induction
  <2> QED
    BY <2>1
<1> QED
  BY <1>1, <1>5

(* The polygons are the parts from one start to the next.                  *)
LEMMA PolygonEndIs ==
  ASSUME NEW shape, PartsListed(shape), NEW n \in 1..Len(PolygonStarts(shape))
  PROVE  /\ PolygonStarts(shape)[n] \in 1..Count(shape)
         /\ PolygonEnd(shape, n) \in PolygonStarts(shape)[n]..Count(shape)
<1>1. Count(shape) \in Nat
  BY ListIs DEF PartsListed, Count
<1> PICK starts : starts = PolygonStarts(shape)
  OBVIOUS
<1>2. /\ starts \in Seq(1..Count(shape))
      /\ \A k, l \in 1..Len(starts) : k < l => starts[k] < starts[l]
  BY <1>1, StartsAre DEF InOrder
<1>3. n \in 1..Len(starts) /\ Len(starts) \in Nat /\ starts[n] \in 1..Count(shape)
  <2>1. n \in 1..Len(starts)
    BY Zenon
  <2>2. starts[n] \in 1..Count(shape)
    BY Zenon, <1>2, <2>1, ElementOfSeq
  <2>3. Len(starts) \in Nat
    BY Zenon, <1>2, LenProperties
  <2> QED
    BY Zenon, <2>1, <2>2, <2>3
<1>4. PolygonEnd(shape, n) = IF n = Len(starts) THEN Count(shape) ELSE starts[n + 1] - 1
  BY DEF PolygonEnd, Count
<1>5. ASSUME n # Len(starts)
      PROVE  /\ n + 1 \in 1..Len(starts)
             /\ starts[n + 1] \in 1..Count(shape) /\ starts[n] < starts[n + 1]
  <2>1. n + 1 \in 1..Len(starts) /\ n < n + 1
    BY <1>3, <1>5
  <2>2. starts[n] < starts[n + 1]
    BY Zenon, <1>2, <1>3, <2>1
  <2>3. starts[n + 1] \in 1..Count(shape)
    BY Zenon, <1>2, <2>1, ElementOfSeq
  <2> QED
    BY <2>1, <2>2, <2>3
<1> QED
  BY <1>1, <1>3, <1>4, <1>5

LEMMA PolygonsAre ==
  ASSUME NEW shape, PartsListed(shape), NEW starts, starts = PolygonStarts(shape)
  PROVE  [n \in DOMAIN starts |-> Parts(shape, starts[n], PolygonEnd(shape, n))]
           \in Seq(Seq(Seq(Vertices(shape))))
<1>1. Count(shape) \in Nat
  BY ListIs DEF PartsListed, Count
<1>2. starts \in Seq(1..Count(shape))
  BY <1>1, StartsAre DEF InOrder
<1>3. \A n \in 1..Len(starts) :
        Parts(shape, starts[n], PolygonEnd(shape, n)) \in Seq(Seq(Vertices(shape)))
  <2> TAKE n \in 1..Len(starts)
  <2>1. starts[n] \in 1..Count(shape) /\ PolygonEnd(shape, n) \in starts[n]..Count(shape)
    BY PolygonEndIs
  <2>2. PolygonEnd(shape, n) \in Int /\ PolygonEnd(shape, n) <= Count(shape)
        /\ starts[n] <= PolygonEnd(shape, n) + 1
    BY <1>1, <2>1
  <2> QED
    BY <2>1, <2>2, PartsAre
<1> QED
  BY SMTT(30), <1>2, <1>3

(* All vertices of a geometry come from the shape.                         *)
LEMMA VerticesKept ==
  ASSUME NEW type \in {"POINT", "ARC", "POLYGON", "MULTIPOINT"},
         NEW shape, ShapeRead(type, shape)
  PROVE  ToSet(Flattened(Converted(type, shape))) \subseteq Vertices(shape)
<1>1. /\ Listed(shape.vertices) /\ Len(shape.vertices) \in Nat
      /\ DOMAIN shape.vertices = 1..Len(shape.vertices)
      /\ \A n \in 1..Len(shape.vertices) : shape.vertices[n] \in Vertices(shape)
  BY ListIs DEF ShapeRead, Vertices
<1>2. CASE type = "POINT"
  <2>1. Flattened(Converted(type, shape)) = <<shape.vertices[1]>>
    BY <1>2 DEF Converted, ConvertPoint, Flattened
  <2>2. shape.vertices[1] \in Vertices(shape)
    BY <1>1, <1>2 DEF ShapeRead
  <2> QED
    BY <2>1, <2>2 DEF ToSet
<1>3. CASE type = "MULTIPOINT"
  BY <1>3 DEF Converted, ConvertMultiPoint, Flattened, Vertices
<1>4. CASE type \in {"ARC", "POLYGON"}
  <2>1. PartsListed(shape) /\ Count(shape) \in Nat /\ 1 \in 1..Count(shape)
    BY <1>4, ListIs DEF ShapeRead, PartsListed, Count
  <2>2. ASSUME NEW joined \in Seq(Vertices(shape)) PROVE ToSet(joined) \subseteq Vertices(shape)
    BY DEF ToSet
  <2>3. AllParts(shape) \in Seq(Seq(Vertices(shape)))
    BY <2>1, PartsAre DEF AllParts, Count
  <2>4. FlattenSeq(AllParts(shape)) \in Seq(Vertices(shape))
    BY <2>3, FlattenElements
  <2>5. CASE type = "ARC"
    <3>1. \/ Flattened(Converted(type, shape)) = shape.vertices
          \/ Flattened(Converted(type, shape)) = FlattenSeq(AllParts(shape))
      BY <2>5 DEF Converted, ConvertLineString, Flattened
    <3> QED
      BY <2>2, <2>4, <3>1 DEF Vertices
  <2>6. CASE type = "POLYGON"
    <3> DEFINE starts   == PolygonStarts(shape)
               polygons == [n \in DOMAIN starts |-> Parts(shape, starts[n], PolygonEnd(shape, n))]
    <3>1. polygons \in Seq(Seq(Seq(Vertices(shape))))
      BY <2>1, PolygonsAre
    <3>2. FlattenSeq(FlattenSeq(polygons)) \in Seq(Vertices(shape))
      BY <3>1, FlattenElements
    <3>3. \/ Flattened(Converted(type, shape)) = FlattenSeq(AllParts(shape))
          \/ Flattened(Converted(type, shape)) = FlattenSeq(FlattenSeq(polygons))
      BY <2>6 DEF Converted, ConvertPolygon, Flattened
    <3> HIDE DEF polygons
    <3> QED
      BY <2>2, <2>4, <3>2, <3>3
  <2> QED
    BY <1>4, <2>5, <2>6
<1> QED
  BY <1>2, <1>3, <1>4

(* A number of the table has a last bit of its significand.                *)
Fits(n, k) == n < 2^(Mantissa + k) /\ \A l \in 0..(k - 1) : n >= 2^(Mantissa + l)

LastBit(n) == CHOOSE k \in 0..Excess : Fits(n, k)

RoundedTo(unit, n) ==
  LET rest == n % unit
      up   == 2 * rest > unit \/ (2 * rest = unit /\ (n \div unit) % 2 = 1)
  IN  IF up THEN n - rest + unit ELSE n - rest

LEMMA AsDoubleUnit == ASSUME NEW n PROVE AsDouble(n) = RoundedTo(2^LastBit(n), n)
BY DEF AsDouble, RoundedTo, LastBit, Fits

LEMMA LastBitFits ==
  ASSUME NEW n \in Nat, n < 2^(Mantissa + Excess)
  PROVE  LastBit(n) \in 0..Excess /\ Fits(n, LastBit(n))
<1> DEFINE R == {p \in Nat \X Nat : p[1] < p[2]}
           S == {k \in 0..Excess : n < 2^(Mantissa + k)}
<1>1. IsWellFoundedOn(R, Nat)
  BY NatLessThanWellFounded DEF OpToRel
<1>2. S \subseteq Nat /\ Excess \in S
  BY MantissaAssumption
<1>3. PICK k \in S : \A l \in S : <<l, k>> \notin R
  <2> HIDE DEF R, S
  <2> QED
    BY <1>1, <1>2, WFMin
<1>4. ASSUME NEW l \in 0..(k - 1) PROVE n >= 2^(Mantissa + l)
  <2>1. l \in 0..Excess /\ <<l, k>> \in R
    BY <1>3, MantissaAssumption
  <2>2. ~(n < 2^(Mantissa + l))
    BY <1>3, <2>1
  <2>3. 2^(Mantissa + l) \in Nat
    <3>1. 2^(Mantissa + l) = 2^Mantissa * 2^l /\ 2^Mantissa \in Nat /\ 2^l \in Nat
      BY <2>1, MantissaAssumption
    <3>2. \A a, b \in Nat : a * b \in Nat
      OBVIOUS
    <3> QED
      BY Zenon, <3>1, <3>2
  <2> QED
    BY <2>2, <2>3
<1>5. k \in 0..Excess /\ Fits(n, k)
  BY <1>3, <1>4 DEF Fits
<1> QED
  BY Zenon, <1>5 DEF LastBit

(* Doubles hold the integers up to 2^Mantissa.                             *)
LEMMA AsDoubleExact ==
  ASSUME NEW n \in Nat, n <= 2^Mantissa
  PROVE  AsDouble(n) = n
<1> DEFINE fits(k) == n < 2^(Mantissa + k) /\ \A l \in 0..(k - 1) : n >= 2^(Mantissa + l)
           k == CHOOSE k \in 0..Excess : fits(k)
<1>1. /\ Mantissa \in Nat /\ Mantissa + 0 = Mantissa
      /\ 2^Mantissa \in Nat \ {0} /\ 2^Mantissa % 2 = 0
      /\ 2^(Mantissa + 1) = 2 * 2^Mantissa
      /\ 0 \in 0..Excess /\ 1 \in 0..Excess
  <2>1. 2^1 = 2
    OBVIOUS
  <2>2. 1 \in 0..Excess /\ 2^Mantissa \in Nat
    BY MantissaAssumption
  <2>3. 2^(Mantissa + 1) = 2^Mantissa * 2^1
    BY <2>2, MantissaAssumption
  <2>4. 2^(Mantissa + 1) = 2^Mantissa * 2
    BY Zenon, <2>1, <2>3
  <2> QED
    BY <2>2, <2>4, MantissaAssumption
<1>2. CASE n < 2^Mantissa
  <2>1. fits(0) /\ 0 \in 0..Excess
    BY <1>1, <1>2
  <2>2. k \in 0..Excess /\ fits(k)
    <3> HIDE DEF fits
    <3> QED
      BY <2>1
  <2>3. k = 0
    <3>1. k # 0 => 0 \in 0..(k - 1)
      BY <2>2
    <3> QED
      BY <1>1, <1>2, <2>2, <3>1
  <2>4. 2^k = 1
    <3>1. 2^0 = 1
      OBVIOUS
    <3> QED
      BY Zenon, <2>3, <3>1
  <2>5. n % 1 = 0
    OBVIOUS
  <2> QED
    BY <2>4, <2>5 DEF AsDouble
<1>3. CASE n = 2^Mantissa
  <2>1. fits(1) /\ 1 \in 0..Excess
    BY <1>1, <1>3
  <2>2. k \in 0..Excess /\ fits(k)
    <3> HIDE DEF fits
    <3> QED
      BY <2>1
  <2>3. k = 1
    BY <1>1, <1>3, <2>2
  <2>4. 2^k = 2
    <3>1. 2^1 = 2
      OBVIOUS
    <3> QED
      BY Zenon, <2>3, <3>1
  <2>5. n % 2 = 0
    BY <1>1, <1>3
  <2> QED
    BY <2>4, <2>5 DEF AsDouble
<1> QED
  BY <1>1, <1>2, <1>3

LEMMA TimesKeepsOrder ==
  ASSUME NEW a \in Int, NEW b \in Int, NEW p \in Nat, a <= b
  PROVE  a * p <= b * p
<1>1. (b - a) * p >= 0
  OBVIOUS
<1> QED
  BY <1>1

(* The others are off by half a unit, which all the bits above outweigh.   *)
LEMMA AsDoubleRounded ==
  ASSUME NEW n \in Nat, n < 2^(Mantissa + Excess)
  PROVE  Rounded(AsDouble(n), n)
<1>1. CASE n <= 2^Mantissa
  BY <1>1, AsDoubleExact DEF Rounded
<1>2. CASE n > 2^Mantissa
  <2>1. PICK k \in 0..Excess : k = LastBit(n) /\ Fits(n, k)
    BY LastBitFits
  <2>2. k # 0
    <3>1. Mantissa + 0 = Mantissa /\ 2^Mantissa \in Nat
      BY MantissaAssumption
    <3>2. ~(n < 2^Mantissa)
      BY <1>2, <3>1
    <3> QED
      BY <2>1, <3>1, <3>2 DEF Fits
  <2>3. PICK u \in Nat \ {0} : 2^k = 2 * u /\ n >= 2^Mantissa * u
    <3>1. k - 1 \in 0..Excess /\ k - 1 \in 0..(k - 1) /\ (k - 1) + 1 = k
      BY <2>1, <2>2, MantissaAssumption
    <3>2. PICK l \in 0..Excess : l = k - 1
      BY <3>1
    <3>3. 2^l \in Nat \ {0} /\ 2^(l + 1) = 2 * 2^l /\ 2^(Mantissa + l) = 2^Mantissa * 2^l
      BY MantissaAssumption
    <3>4. n >= 2^(Mantissa + l) /\ l + 1 = k
      BY <2>1, <3>1, <3>2 DEF Fits
    <3>5. 2^k = 2 * 2^l
      BY Zenon, <3>3, <3>4
    <3>6. n >= 2^Mantissa * 2^l
      BY Zenon, <3>3, <3>4
    <3> QED
      BY Zenon, <3>3, <3>5, <3>6
  <2> DEFINE rest == n % (2 * u)
             up   == 2 * rest > 2 * u \/ (2 * rest = 2 * u /\ (n \div (2 * u)) % 2 = 1)
  <2>4. AsDouble(n) = IF up THEN n - rest + 2 * u ELSE n - rest
    <3>1. AsDouble(n) = RoundedTo(2 * u, n)
      BY Zenon, <2>1, <2>3, AsDoubleUnit
    <3> QED
      BY <3>1 DEF RoundedTo
  <2>5. rest \in 0..(2 * u - 1)
    BY <2>3
  <2>6. PICK v \in Int : v = AsDouble(n) /\ v - n <= u /\ n - v <= u
    <3>1. (up => rest >= u) /\ (~up => rest <= u)
      <4>1. PICK odd : odd = ((n \div (2 * u)) % 2 = 1)
        OBVIOUS
      <4> HIDE DEF rest
      <4> QED
        BY <2>3, <2>5, <4>1
    <3> HIDE DEF rest, up
    <3>2. CASE up
      BY <2>3, <2>4, <2>5, <3>1, <3>2
    <3>3. CASE ~up
      BY <2>3, <2>4, <2>5, <3>1, <3>3
    <3> QED
      BY <3>2, <3>3
  <2>7. PICK p \in Nat : p = 2^Mantissa
    BY MantissaAssumption
  <2>8. (v - n) * p <= u * p /\ (n - v) * p <= u * p
    BY <2>3, <2>6, <2>7, TimesKeepsOrder
  <2>9. u * p <= n
    BY <2>3, <2>7
  <2>10. (v - n) * p <= n /\ (n - v) * p <= n
    BY <2>3, <2>6, <2>7, <2>8, <2>9
  <2> QED
    BY <1>2, <2>6, <2>7, <2>10 DEF Rounded
<1> QED
  BY <1>1, <1>2, MantissaAssumption

-----------------------------------------------------------------------------
(* The values of the rows given.                                           *)
LEMMA ValueGiven ==
  ASSUME ScanInv, NEW r \in DOMAIN rows, NEW c \in DOMAIN read.column_ids
  PROVE  /\ rows[r][c] = Value(r, read.column_ids[c])
         /\ Convertible(r) /\ Typed /\ read.column_ids[c] \in Projected
<1>1. r \in 1..shape_idx /\ shape_idx \in Nat /\ shape_idx # 0
  BY Counted DEF ScanInv, RowsListed
<1>2. rows[r] = Row(r) /\ Convertible(r) /\ Typed
  BY <1>1 DEF ScanInv, RowsFollow
<1> QED
  BY <1>2 DEF Row, Projected

LEMMA AttributeGiven ==
  ASSUME ScanInv, NEW r \in DOMAIN rows, NEW c \in DOMAIN read.column_ids,
         read.column_ids[c] \in DOMAIN file.fields
  PROVE  /\ rows[r][c] = Attribute(r, read.column_ids[c])
         /\ Typed /\ attribute_types[read.column_ids[c]] = AttributeType(file.fields[read.column_ids[c]])
         /\ Cell(r, read.column_ids[c]) # Null =>
              /\ ~AttributeRejected(attribute_types[read.column_ids[c]], Cell(r, read.column_ids[c]))
              /\ CellRead(file.fields[read.column_ids[c]].type, Cell(r, read.column_ids[c]))
<1> PICK id : id = read.column_ids[c]
  OBVIOUS
<1>1. id \in DOMAIN file.fields /\ id \in Projected /\ Convertible(r) /\ Typed
      /\ rows[r][c] = Value(r, id)
  BY ValueGiven
<1>2. ~GeometryColumn(id) /\ id # RowId
  <2>1. Len(file.fields) \in Nat /\ id \in 1..Len(file.fields)
    BY <1>1, ListIs, ReadsAssumption DEF ScanInv, file
  <2> QED
    BY <2>1, RowIdAssumption DEF GeometryColumn
<1>3. Value(r, id) = Attribute(r, id)
  BY <1>2 DEF Value
<1>4. attribute_types[id] = AttributeType(file.fields[id])
  BY <1>1 DEF Typed
<1>5. ASSUME Cell(r, id) # Null
      PROVE  /\ ~AttributeRejected(attribute_types[id], Cell(r, id))
             /\ CellRead(file.fields[id].type, Cell(r, id))
  <2>1. ~AttributeRejected(attribute_types[id], Cell(r, id))
    BY <1>1, <1>5 DEF Convertible
  <2>2. /\ r \in DOMAIN read.now.records /\ id \in DOMAIN read.now.records[r]
        /\ Cell(r, id) = read.now.records[r][id]
    BY <1>5 DEF Cell
  <2>3. read \in Reads
    BY DEF ScanInv
  <2>4. CellRead(file.fields[id].type, read.now.records[r][id])
    BY Zenon, <1>1, <1>5, <2>2, <2>3, ReadsAssumption DEF file
  <2> QED
    BY <2>1, <2>2, <2>4
<1> QED
  BY <1>1, <1>3, <1>4, <1>5

LEMMA GeometryGiven ==
  ASSUME ScanInv, NEW r \in DOMAIN rows, NEW c \in DOMAIN read.column_ids,
         GeometryColumn(read.column_ids[c]), rows[r][c] # Null
  PROVE  /\ rows[r][c] = Converted(file.shape_type, read.now.shapes[r])
         /\ file.shape_type \in {"POINT", "ARC", "POLYGON", "MULTIPOINT"}
         /\ ShapeRead(file.shape_type, read.now.shapes[r])
<1>1. /\ rows[r][c] = Value(r, read.column_ids[c]) /\ Convertible(r) /\ Typed
      /\ read.column_ids[c] \in Projected
  BY ValueGiven
<1>2. rows[r][c] = Geometry(r)
  BY <1>1 DEF Value
<1>3. /\ file.shape_type # "NULL" /\ read.now.shapes[r].type # "NULL"
      /\ rows[r][c] = Converted(file.shape_type, read.now.shapes[r])
  BY <1>2 DEF Geometry
<1>4. r \in DOMAIN read.now.shapes /\ read.now.shapes[r] # Damaged
  BY <1>1, <1>3 DEF Convertible, GeometryRead, ShapeLost
<1>5. file.shape_type \in {"POINT", "ARC", "POLYGON", "MULTIPOINT"}
  BY <1>1, <1>3 DEF Typed, BindAccepted, ShapeTypes
<1>6. ShapeRead(file.shape_type, read.now.shapes[r])
  <2>1. read \in Reads
    BY DEF ScanInv
  <2> QED
    BY Zenon, <1>3, <1>4, <2>1, ReadsAssumption DEF file
<1> QED
  BY <1>3, <1>5, <1>6

LEMMA RowsAre == ScanInv => RowsAreRecords
<1> SUFFICES ASSUME ScanInv, NEW r \in DOMAIN rows, NEW c \in DOMAIN read.column_ids,
                    NEW id, id = read.column_ids[c], NEW v, v = rows[r][c]
             PROVE  /\ GeometryColumn(id) /\ v # Null =>
                         ToSet(Flattened(v)) \subseteq ToSet(read.now.shapes[r].vertices)
                    /\ id \in DOMAIN file.fields /\ attribute_types[id] \in {"INTEGER", "DATE", "BLOB"} =>
                         v = Cell(r, id)
                    /\ id \in DOMAIN file.fields /\ attribute_types[id] \in {"BIGINT", "DOUBLE"} =>
                         Rounded(v, Cell(r, id))
  BY DEF RowsAreRecords
<1>1. ASSUME GeometryColumn(id), v # Null
      PROVE  ToSet(Flattened(v)) \subseteq ToSet(read.now.shapes[r].vertices)
  BY <1>1, GeometryGiven, VerticesKept DEF Vertices
<1>2. ASSUME id \in DOMAIN file.fields
      PROVE  /\ v = Attribute(r, id) /\ attribute_types[id] = AttributeType(file.fields[id])
             /\ Typed
             /\ Cell(r, id) # Null => CellRead(file.fields[id].type, Cell(r, id))
  BY <1>2, AttributeGiven
<1>3. ASSUME id \in DOMAIN file.fields, attribute_types[id] \in {"INTEGER", "DATE", "BLOB"}
      PROVE  v = Cell(r, id)
  BY <1>2, <1>3 DEF Attribute, ConvertAttribute
<1>4. ASSUME id \in DOMAIN file.fields, attribute_types[id] \in {"BIGINT", "DOUBLE"}, Cell(r, id) # Null
      PROVE  Rounded(v, Cell(r, id))
  <2>1. v = AsDouble(Cell(r, id))
    BY <1>2, <1>4 DEF Attribute, ConvertAttribute
  <2>2. file.fields[id].type = "FTDouble"
    <3>1. file.fields[id].type \in FieldTypes
      BY <1>2, <1>4 DEF Typed, BindAccepted
    <3> QED
      BY <1>2, <1>4, <3>1 DEF AttributeType, FieldTypes
  <2>3. Cell(r, id) \in Nat /\ Cell(r, id) < 2^(Mantissa + Excess)
    BY <1>2, <1>4, <2>2 DEF CellRead
  <2> QED
    BY <2>1, <2>3, AsDoubleRounded
<1>5. ASSUME id \in DOMAIN file.fields, Cell(r, id) = Null PROVE v = Cell(r, id)
  BY <1>2, <1>5 DEF Attribute
<1>6. v = Cell(r, id) => Rounded(v, Cell(r, id))
  BY DEF Rounded
<1> QED
  BY <1>1, <1>3, <1>4, <1>5, <1>6

(* Shapes and attributes, which are read by loops of their own, come back  *)
(* in the row of their record, in whatever batches, columns and files      *)
(* (read_shapefile.cpp:497).                                               *)
THEOREM RecordsStayTogether == Spec => []RowsAreRecords
<1> QED
  BY RowsAre, ScanStart, ScanKept, PTL DEF Spec

-----------------------------------------------------------------------------
(* A sequence cut into adjacent pieces is what they are one after the      *)
(* other.                                                                  *)
CutFrom(end, n) == IF n = 1 THEN 1 ELSE end[n - 1] + 1

LEMMA FlattenCut ==
  ASSUME NEW S, NEW seq \in Seq(S), NEW seqs, Listed(seqs), Len(seqs) # 0,
         NEW end,
         \A n \in 1..Len(seqs) :
           /\ seqs[n] = SubSeq(seq, CutFrom(end, n), end[n])
           /\ end[n] \in 0..Len(seq) /\ CutFrom(end, n) <= end[n] + 1,
         end[Len(seqs)] = Len(seq)
  PROVE  FlattenSeq(seqs) = seq
<1>1. Len(seqs) \in Nat /\ Len(seqs) # 0 /\ Len(seq) \in Nat
  BY ListIs
<1>2. PICK f : Joins(f, seqs, Len(seqs)) /\ FlattenSeq(seqs) = f[Len(seqs)]
  BY FlattenDefined
<1>3. \A n \in 1..Len(seqs) : f[n] = IF n = 1 THEN seqs[n] ELSE f[n - 1] \o seqs[n]
  BY <1>2 DEF Joins
<1> DEFINE T == {n \in 0..Len(seqs) : n = 0 \/ f[n] = SubSeq(seq, 1, end[n])}
<1>4. ASSUME NEW n \in 0..Len(seqs), n < Len(seqs), n \in T PROVE n + 1 \in T
  <2>1. n + 1 \in 1..Len(seqs) /\ (n + 1) - 1 = n /\ n + 1 \in 0..Len(seqs)
    BY <1>1, <1>4
  <2>2. CASE n = 0
    <3>1. f[1] = seqs[1] /\ seqs[1] = SubSeq(seq, 1, end[1])
      BY <1>3, <2>1, <2>2 DEF CutFrom
    <3> QED
      BY <2>1, <2>2, <3>1
  <2>3. CASE n # 0
    <3>1. f[n + 1] = f[n] \o seqs[n + 1] /\ n + 1 # 1
      <4>1. n + 1 # 1
        BY <2>3
      <4>2. f[n + 1] = IF n + 1 = 1 THEN seqs[n + 1] ELSE f[(n + 1) - 1] \o seqs[n + 1]
        BY Zenon, <1>3, <2>1
      <4> QED
        BY Zenon, <2>1, <4>1, <4>2
    <3>2. f[n] = SubSeq(seq, 1, end[n])
      BY <1>4, <2>3
    <3>3. CutFrom(end, n + 1) = end[n] + 1
      BY <2>1, <3>1 DEF CutFrom
    <3>4. seqs[n + 1] = SubSeq(seq, end[n] + 1, end[n + 1])
      BY <2>1, <3>3
    <3>5. /\ end[n] \in 0..Len(seq) /\ end[n + 1] \in 0..Len(seq)
          /\ end[n] + 1 <= end[n + 1] + 1
      <4>1. n \in 1..Len(seqs)
        BY <2>1, <2>3
      <4> QED
        BY <2>1, <3>3, <4>1
    <3> PICK k, m : k = end[n] /\ m = end[n + 1]
      OBVIOUS
    <3>6. 1 \in 1..Len(seq) + 1 /\ k \in 1 - 1..Len(seq) /\ m \in k..Len(seq)
      BY <1>1, <3>5
    <3>7. SubSeq(seq, 1, k) \o SubSeq(seq, k + 1, m) = SubSeq(seq, 1, m)
      BY <3>6, ConcatAdjacentSubSeq
    <3>8. f[n + 1] = SubSeq(seq, 1, end[n + 1])
      BY Zenon, <3>1, <3>2, <3>4, <3>7
    <3> QED
      BY <2>1, <3>8
  <2> QED
    BY <2>2, <2>3
<1>5. Len(seqs) \in T
  <2>1. 0 \in T /\ Len(seqs) \in 0..Len(seqs)
    BY <1>1
  <2> HIDE DEF T
  <2>2. \A n \in 0..Len(seqs) : n \in T
    BY <1>1, <1>4, <2>1, Induction
  <2> QED
    BY <2>1, <2>2
<1>6. f[Len(seqs)] = SubSeq(seq, 1, Len(seq))
  BY <1>1, <1>5
<1> QED
  BY <1>2, <1>6, SubSeqFull

LEMMA PartsRejoin ==
  ASSUME NEW shape, PartsListed(shape)
  PROVE  FlattenSeq(AllParts(shape)) = shape.vertices
<1> PICK parts \in Nat \ {0} : parts = Count(shape)
  BY ListIs DEF PartsListed, Count
<1> DEFINE end == [p \in 1..parts |-> PartEnd(shape, p)]
<1>1. /\ Listed(shape.vertices) /\ shape.vertices \in Seq(Vertices(shape))
      /\ Len(shape.vertices) \in Nat
  BY ListIs DEF PartsListed, Vertices
<1>2. /\ AllParts(shape) = [p \in 1..parts |-> Part(shape, p)] /\ Len(AllParts(shape)) = parts
      /\ Listed(AllParts(shape))
  <2>1. AllParts(shape) = [n \in 1..(parts - 1 + 1) |-> Part(shape, 1 + n - 1)]
    BY DEF AllParts, Parts, Count
  <2>2. AllParts(shape) = [n \in 1..parts |-> Part(shape, n)]
    BY <2>1
  <2> QED
    BY <2>2 DEF Listed
<1>3. ASSUME NEW p \in 1..parts
      PROVE  /\ AllParts(shape)[p] = SubSeq(shape.vertices, CutFrom(end, p), end[p])
             /\ end[p] \in 0..Len(shape.vertices) /\ CutFrom(end, p) <= end[p] + 1
  <2>1. /\ Part(shape, p) = SubSeq(shape.vertices, shape.part_start[p] + 1, PartEnd(shape, p))
        /\ shape.part_start[p] \in Nat /\ PartEnd(shape, p) \in Nat
        /\ shape.part_start[p] <= PartEnd(shape, p)
        /\ PartEnd(shape, p) <= Len(shape.vertices)
    BY PartIs
  <2>2. CutFrom(end, p) = shape.part_start[p] + 1
    <3>1. CASE p = 1
      BY <3>1 DEF CutFrom, PartsListed
    <3>2. CASE p # 1
      <4>1. p - 1 \in 1..parts /\ p - 1 # parts /\ (p - 1) + 1 = p
        BY <3>2
      <4>2. end[p - 1] = shape.part_start[p]
        BY <4>1 DEF PartEnd
      <4> QED
        BY <3>2, <4>2 DEF CutFrom
    <3> QED
      BY <3>1, <3>2
  <2>3. end[p] = PartEnd(shape, p)
    OBVIOUS
  <2> HIDE DEF end
  <2>4. AllParts(shape)[p] = SubSeq(shape.vertices, CutFrom(end, p), end[p])
    <3>1. AllParts(shape)[p] = Part(shape, p)
      BY <1>2
    <3> QED
      BY Zenon, <2>1, <2>2, <2>3, <3>1
  <2> QED
    BY <1>1, <2>1, <2>2, <2>3, <2>4
<1>4. end[parts] = Len(shape.vertices)
  BY DEF PartEnd
<1> HIDE DEF end
<1> QED
  BY <1>1, <1>2, <1>3, <1>4, FlattenCut

LEMMA AllPartsAre ==
  ASSUME NEW shape, PartsListed(shape)
  PROVE  /\ AllParts(shape) \in Seq(Seq(Vertices(shape)))
         /\ Len(AllParts(shape)) = Count(shape)
         /\ \A n \in 1..Count(shape) : AllParts(shape)[n] = Part(shape, n)
<1>1. /\ 1 \in 1..Count(shape) /\ Count(shape) \in Int /\ Count(shape) <= Count(shape)
      /\ 1 <= Count(shape) + 1 /\ Count(shape) - 1 + 1 = Count(shape)
      /\ \A n \in 1..Count(shape) : 1 + n - 1 = n
  BY ListIs DEF PartsListed, Count
<1>2. AllParts(shape) = Parts(shape, 1, Count(shape))
  BY DEF AllParts, Count
<1>3. /\ Parts(shape, 1, Count(shape)) \in Seq(Seq(Vertices(shape)))
      /\ Len(Parts(shape, 1, Count(shape))) = Count(shape) - 1 + 1
      /\ \A n \in 1..Count(shape) - 1 + 1 :
           Parts(shape, 1, Count(shape))[n] = Part(shape, 1 + n - 1)
  BY Zenon, <1>1, PartsAre
<1> QED
  BY Zenon, <1>1, <1>2, <1>3

LEMMA PartsCut ==
  ASSUME NEW shape, PartsListed(shape),
         NEW first \in 1..Count(shape), NEW last \in first..Count(shape)
  PROVE  Parts(shape, first, last) = SubSeq(AllParts(shape), first, last)
<1>1. Count(shape) \in Nat
  BY ListIs DEF PartsListed, Count
<1>2. /\ AllParts(shape) \in Seq(Seq(Vertices(shape))) /\ Len(AllParts(shape)) = Count(shape)
      /\ \A n \in 1..Count(shape) : AllParts(shape)[n] = Part(shape, n)
  BY AllPartsAre
<1>3. /\ Parts(shape, first, last) \in Seq(Seq(Vertices(shape)))
      /\ Len(Parts(shape, first, last)) = last - first + 1
      /\ \A n \in 1..last - first + 1 :
           Parts(shape, first, last)[n] = Part(shape, first + n - 1)
  BY <1>1, PartsAre
<1>4. \A n \in first..last : AllParts(shape)[n] \in Seq(Vertices(shape))
  BY <1>1, <1>2, PartIs
<1>5. /\ SubSeq(AllParts(shape), first, last) \in Seq(Seq(Vertices(shape)))
      /\ Len(SubSeq(AllParts(shape), first, last)) = last - first + 1
      /\ \A n \in 1..last - first + 1 :
           SubSeq(AllParts(shape), first, last)[n] = AllParts(shape)[first + n - 1]
  BY <1>1, <1>4, SubSeqProperties
<1>6. ASSUME NEW n \in 1..last - first + 1
      PROVE  Parts(shape, first, last)[n] = SubSeq(AllParts(shape), first, last)[n]
  <2>1. first + n - 1 \in 1..Count(shape)
    BY <1>1
  <2> QED
    BY Zenon, <1>2, <1>3, <1>5, <2>1
<1> QED
  BY <1>3, <1>5, <1>6, SeqEqual

(* The polygons take up the parts, if the first part starts one.           *)
Polygons(shape) ==
  [n \in DOMAIN PolygonStarts(shape) |->
     Parts(shape, PolygonStarts(shape)[n], PolygonEnd(shape, n))]

LEMMA PolygonsRejoin ==
  ASSUME NEW shape, PartsListed(shape), Clockwise(shape, 1)
  PROVE  FlattenSeq(Polygons(shape)) = AllParts(shape)
<1> PICK starts : starts = PolygonStarts(shape)
  OBVIOUS
<1>1. Count(shape) \in Nat /\ 1 \in 1..Count(shape)
  BY ListIs DEF PartsListed, Count
<1>2. /\ starts \in Seq(1..Count(shape)) /\ Len(starts) \in Nat
      /\ DOMAIN starts = 1..Len(starts)
      /\ \A k, l \in 1..Len(starts) : k < l => starts[k] < starts[l]
      /\ \E k \in 1..Len(starts) : starts[k] = 1
  BY <1>1, StartsAre DEF InOrder
<1>3. /\ Len(starts) # 0 /\ starts[1] = 1
  <2> PICK k \in 1..Len(starts) : starts[k] = 1
    BY <1>2
  <2>1. 1 \in 1..Len(starts) /\ starts[1] \in 1..Count(shape)
    <3>1. 1 \in 1..Len(starts)
      BY <1>2
    <3> QED
      BY Zenon, <1>2, <3>1, ElementOfSeq
  <2>2. k = 1
    <3>1. 1 < k => starts[1] < 1
      BY <1>2, <2>1
    <3> QED
      BY <1>2, <2>1, <3>1
  <2> QED
    BY <1>2, <2>2
<1> DEFINE end == [n \in 1..Len(starts) |-> PolygonEnd(shape, n)]
<1>4. ASSUME NEW n \in 1..Len(starts)
      PROVE  /\ starts[n] \in 1..Count(shape) /\ end[n] \in starts[n]..Count(shape)
             /\ CutFrom(end, n) = starts[n]
             /\ end[n] = PolygonEnd(shape, n)
  <2>1. starts[n] \in 1..Count(shape) /\ PolygonEnd(shape, n) \in starts[n]..Count(shape)
    BY PolygonEndIs
  <2>2. CASE n = 1
    BY <1>3, <2>1, <2>2 DEF CutFrom
  <2>3. CASE n # 1
    <3>1. n - 1 \in 1..Len(starts) /\ n - 1 # Len(starts) /\ (n - 1) + 1 = n
      BY <1>2, <2>3
    <3>2. PolygonEnd(shape, n - 1) = starts[n] - 1
      BY <3>1 DEF PolygonEnd
    <3>3. end[n - 1] = starts[n] - 1
      BY <3>1, <3>2
    <3> QED
      BY <1>1, <2>1, <2>3, <3>3 DEF CutFrom
  <2> QED
    BY <2>2, <2>3
<1>5. /\ AllParts(shape) \in Seq(Seq(Vertices(shape))) /\ Len(AllParts(shape)) = Count(shape)
  BY AllPartsAre
<1>6. /\ Len(Polygons(shape)) = Len(starts) /\ Listed(Polygons(shape))
      /\ \A n \in 1..Len(starts) :
           Polygons(shape)[n] = Parts(shape, starts[n], PolygonEnd(shape, n))
  <2>1. Polygons(shape) = [n \in 1..Len(starts) |-> Parts(shape, starts[n], PolygonEnd(shape, n))]
    BY Zenon, <1>2 DEF Polygons
  <2>2. Len(Polygons(shape)) = Len(starts)
    BY <1>2, <2>1
  <2> QED
    BY <1>2, <2>1, <2>2 DEF Listed
<1>7. end[Len(starts)] = Count(shape)
  <2>1. end[Len(starts)] = PolygonEnd(shape, Len(starts))
    BY <1>2, <1>3
  <2> QED
    BY <2>1 DEF PolygonEnd, Count
<1> HIDE DEF end
<1>8. ASSUME NEW n \in 1..Len(starts)
      PROVE  /\ Polygons(shape)[n] = SubSeq(AllParts(shape), CutFrom(end, n), end[n])
             /\ end[n] \in 0..Len(AllParts(shape)) /\ CutFrom(end, n) <= end[n] + 1
  <2>1. starts[n] \in 1..Count(shape) /\ end[n] \in starts[n]..Count(shape)
    BY <1>4
  <2>2. Parts(shape, starts[n], end[n]) = SubSeq(AllParts(shape), starts[n], end[n])
    BY <2>1, PartsCut
  <2>3. Polygons(shape)[n] = SubSeq(AllParts(shape), CutFrom(end, n), end[n])
    BY Zenon, <1>4, <1>6, <2>2
  <2> QED
    BY <1>1, <1>4, <1>5, <2>1, <2>3
<1> QED
  BY <1>3, <1>5, <1>6, <1>7, <1>8, FlattenCut

(* In each of them the first ring, and no other, is clockwise.             *)
LEMMA FirstIsClockwise ==
  ASSUME NEW shape, PartsListed(shape),
         NEW n \in DOMAIN Polygons(shape), NEW p \in DOMAIN Polygons(shape)[n]
  PROVE  Area(Polygons(shape)[n][p]) < 0 <=> p = 1
<1> PICK starts : starts = PolygonStarts(shape)
  OBVIOUS
<1>1. Count(shape) \in Nat
  BY ListIs DEF PartsListed, Count
<1>2. InOrder(starts, shape, Count(shape))
  BY Zenon, <1>1, StartsAre
<1>3. /\ starts \in Seq(1..Count(shape)) /\ Len(starts) \in Nat /\ DOMAIN starts = 1..Len(starts)
  BY <1>2 DEF InOrder
<1>4. /\ n \in 1..Len(starts)
      /\ Polygons(shape)[n] = Parts(shape, starts[n], PolygonEnd(shape, n))
  BY Zenon, <1>3 DEF Polygons
<1>5. starts[n] \in 1..Count(shape) /\ PolygonEnd(shape, n) \in starts[n]..Count(shape)
  BY <1>4, PolygonEndIs
<1> PICK first, last : first = starts[n] /\ last = PolygonEnd(shape, n)
  OBVIOUS
<1>6. first \in 1..Count(shape) /\ last \in first..Count(shape)
  BY Zenon, <1>5
<1>7. /\ p \in 1..last - first + 1 /\ Polygons(shape)[n][p] = Part(shape, first + p - 1)
  <2>1. /\ Parts(shape, first, last) \in Seq(Seq(Vertices(shape)))
        /\ Len(Parts(shape, first, last)) = last - first + 1
        /\ \A q \in 1..last - first + 1 :
             Parts(shape, first, last)[q] = Part(shape, first + q - 1)
    <3>1. last \in Int /\ last <= Count(shape) /\ first <= last + 1
      BY <1>1, <1>6
    <3> QED
      BY ZenonT(40), <1>6, <3>1, PartsAre
  <2>2. Polygons(shape)[n] = Parts(shape, first, last)
    BY Zenon, <1>4
  <2>3. DOMAIN Parts(shape, first, last) = 1..last - first + 1
    BY <2>1
  <2>4. p \in 1..last - first + 1
    BY Zenon, <2>2, <2>3
  <2> QED
    BY Zenon, <2>1, <2>2, <2>4
<1>8. first + p - 1 \in 1..Count(shape) /\ first + p - 1 \in first..last
  BY <1>1, <1>6, <1>7
<1>9. Area(Polygons(shape)[n][p]) < 0 <=> \E k \in 1..Len(starts) : starts[k] = first + p - 1
  BY <1>2, <1>7, <1>8 DEF InOrder, Clockwise
<1>10. ASSUME p = 1 PROVE \E k \in 1..Len(starts) : starts[k] = first + p - 1
  <2>1. first + p - 1 = first
    BY <1>6, <1>10
  <2> QED
    BY Zenon, <1>4, <2>1
<1>11. ASSUME NEW k \in 1..Len(starts), starts[k] = first + p - 1, p # 1 PROVE FALSE
  <2>1. starts[k] \in 1..Count(shape) /\ starts[k] > first /\ starts[k] <= last
    BY <1>6, <1>7, <1>8, <1>11
  <2>2. k > n
    <3>1. k < n => starts[k] < first
      BY Zenon, <1>2, <1>4 DEF InOrder
    <3>2. k # n
      BY <1>6, <2>1
    <3> QED
      BY <1>3, <1>4, <1>6, <2>1, <3>1, <3>2
  <2>3. n + 1 \in 1..Len(starts) /\ n # Len(starts)
    BY <1>3, <1>4, <2>2
  <2>4. last = starts[n + 1] - 1
    BY Zenon, <2>3 DEF PolygonEnd
  <2>5. starts[n + 1] \in 1..Count(shape) /\ starts[n + 1] <= starts[k]
    <3>1. starts[n + 1] \in 1..Count(shape)
      BY Zenon, <1>3, <2>3, ElementOfSeq
    <3>2. n + 1 < k => starts[n + 1] < starts[k]
      BY Zenon, <1>2, <2>3 DEF InOrder
    <3>3. n + 1 = k \/ n + 1 < k
      BY <1>4, <2>2
    <3> QED
      BY <2>1, <3>1, <3>2, <3>3
  <2> QED
    BY <1>1, <2>1, <2>4, <2>5
<1> QED
  BY <1>9, <1>10, <1>11

LEMMA RingsAre == ScanInv => RingsKept
<1> SUFFICES ASSUME ScanInv, NEW r \in DOMAIN rows, NEW c \in DOMAIN read.column_ids,
                    NEW shape, shape = read.now.shapes[r], NEW v, v = rows[r][c],
                    GeometryColumn(read.column_ids[c]), v # Null,
                    file.shape_type = "POLYGON" => Clockwise(shape, 1)
             PROVE  /\ Flattened(v) = shape.vertices
                    /\ v.type = "MULTIPOLYGON" =>
                         \A n \in DOMAIN v.polygons : \A p \in DOMAIN v.polygons[n] :
                           Area(v.polygons[n][p]) < 0 <=> p = 1
  BY SMTT(30), Zenon DEF RingsKept, Clockwise
<1> PICK type : type = file.shape_type
  OBVIOUS
<1>1. /\ v = Converted(type, shape) /\ type \in {"POINT", "ARC", "POLYGON", "MULTIPOINT"}
      /\ ShapeRead(type, shape)
  BY GeometryGiven
<1>2. CASE type = "POINT"
  <2>1. Flattened(v) = <<shape.vertices[1]>> /\ v.type = "POINT"
    BY <1>1, <1>2 DEF Converted, ConvertPoint, Flattened
  <2>2. Listed(shape.vertices) /\ Len(shape.vertices) = 1
    BY <1>1, <1>2 DEF ShapeRead
  <2>3. shape.vertices \in Seq(Vertices(shape)) /\ shape.vertices[1] \in Vertices(shape)
    BY <2>2, ListIs DEF Vertices
  <2>4. <<shape.vertices[1]>> = shape.vertices
    BY <2>2, <2>3
  <2> QED
    BY <2>1, <2>4
<1>3. CASE type = "MULTIPOINT"
  BY <1>1, <1>3 DEF Converted, ConvertMultiPoint, Flattened
<1>4. CASE type = "ARC"
  <2>1. PartsListed(shape)
    BY <1>1, <1>4 DEF ShapeRead, PartsListed
  <2>2. \/ Flattened(v) = shape.vertices /\ v.type = "LINESTRING"
        \/ Flattened(v) = FlattenSeq(AllParts(shape)) /\ v.type = "MULTILINESTRING"
    BY <1>1, <1>4 DEF Converted, ConvertLineString, Flattened
  <2> QED
    BY <2>1, <2>2, PartsRejoin
<1>5. CASE type = "POLYGON"
  <2>1. PartsListed(shape) /\ Clockwise(shape, 1)
    BY <1>1, <1>5 DEF ShapeRead, PartsListed
  <2>2. \/ Flattened(v) = FlattenSeq(AllParts(shape)) /\ v.type = "POLYGON"
        \/ /\ Flattened(v) = FlattenSeq(FlattenSeq(Polygons(shape)))
           /\ v.polygons = Polygons(shape)
    BY <1>1, <1>5 DEF Converted, ConvertPolygon, Flattened, Polygons
  <2>3. Flattened(v) = shape.vertices
    BY Zenon, <2>1, <2>2, PartsRejoin, PolygonsRejoin
  <2>4. v.type = "MULTIPOLYGON" => v.polygons = Polygons(shape)
    BY <2>2
  <2> QED
    BY ZenonT(40), <2>1, <2>3, <2>4, FirstIsClockwise
<1> QED
  BY <1>1, <1>2, <1>3, <1>4, <1>5

(* Whatever parts a shape has, no vertex of it is lost or moves, and, if   *)
(* its first part is clockwise, each polygon has one outer ring, which     *)
(* comes first (read_shapefile.cpp:284).                                   *)
THEOREM RingsFindTheirPolygons == Spec => []RingsKept
<1> QED
  BY RingsAre, ScanStart, ScanKept, PTL DEF Spec

-----------------------------------------------------------------------------
(* The bytes of a Latin-1 text, in UTF-8 one character after the other.    *)
Encoded(byte) ==
  IF byte < 128 THEN <<byte>>
  ELSE <<194 + (IF byte > 191 THEN 1 ELSE 0), (byte % 64) + 128>>

SpelledBy(at, text, bytes, n) ==
  /\ at \in [1..n -> 1..Len(text)]
  /\ \A k, l \in 1..n : k < l => at[k] < at[l]
  /\ \A m \in 1..Len(text) : ~IsContinuation(text[m]) => \E k \in 1..n : at[k] = m
  /\ \A k \in 1..n : /\ Character(text, at[k]) = bytes[k]
                     /\ text[at[k]] < 128 \/ at[k] + 1 <= Len(text)

LEMMA EncodedIs ==
  ASSUME NEW byte \in 0..255
  PROVE  /\ Encoded(byte) \in Seq(Nat) /\ Len(Encoded(byte)) \in 1..2
         /\ Character(Encoded(byte), 1) = byte
         /\ Encoded(byte)[1] < 128 \/ Len(Encoded(byte)) = 2
         /\ Len(Encoded(byte)) = 2 => IsContinuation(Encoded(byte)[2])
<1>1. CASE byte < 128
  <2>1. Encoded(byte) = <<byte>>
    BY <1>1 DEF Encoded
  <2>2. <<byte>> \in Seq(Nat) /\ Len(<<byte>>) = 1 /\ <<byte>>[1] = byte
    OBVIOUS
  <2> QED
    BY <1>1, <2>1, <2>2 DEF Character
<1>2. CASE ~(byte < 128)
  <2> PICK lead \in Nat, rest \in Nat :
        lead = 194 + (IF byte > 191 THEN 1 ELSE 0) /\ rest = (byte % 64) + 128
    OBVIOUS
  <2>1. Encoded(byte) = <<lead, rest>>
    BY <1>2 DEF Encoded
  <2>2. rest \in 128..191 /\ ~(lead < 128) /\ (lead - 192) * 64 + (rest - 128) = byte
    <3>1. CASE byte > 191
      BY <3>1
    <3>2. CASE ~(byte > 191)
      BY <1>2, <3>2
    <3> QED
      BY <3>1, <3>2
  <2>3. /\ <<lead, rest>> \in Seq(Nat) /\ Len(<<lead, rest>>) = 2
        /\ <<lead, rest>>[1] = lead /\ <<lead, rest>>[2] = rest
    OBVIOUS
  <2>4. Character(<<lead, rest>>, 1) = byte
    BY <2>2, <2>3 DEF Character
  <2> QED
    BY <2>1, <2>2, <2>3, <2>4 DEF IsContinuation
<1> QED
  BY <1>1, <1>2

LEMMA PlacesOn ==
  ASSUME NEW old \in Nat, NEW more \in 1..2, NEW size, size = old + more
  PROVE  /\ \A m \in 1..old : m \in 1..size
         /\ old + 1 \in 1..size
OBVIOUS

LEMMA PlaceOn ==
  ASSUME NEW old \in Nat, NEW more \in 1..2, NEW m \in Nat, m \in 1..old + more
  PROVE  m \in 1..old \/ m = old + 1 \/ (m = old + 2 /\ more = 2)
OBVIOUS

LEMMA SpelledOn ==
  ASSUME NEW text \in Seq(Nat), NEW bytes, NEW n \in Nat, NEW at,
         SpelledBy(at, text, bytes, n), bytes[n + 1] \in 0..255
  PROVE  /\ text \o Encoded(bytes[n + 1]) \in Seq(Nat)
         /\ \E on : SpelledBy(on, text \o Encoded(bytes[n + 1]), bytes, n + 1)
<1> PICK piece : piece = Encoded(bytes[n + 1])
  OBVIOUS
<1> PICK old \in Nat : old = Len(text)
  BY LenProperties
<1>1. /\ piece \in Seq(Nat) /\ Len(piece) \in 1..2 /\ Character(piece, 1) = bytes[n + 1]
      /\ piece[1] < 128 \/ Len(piece) = 2
      /\ Len(piece) = 2 => IsContinuation(piece[2])
  BY EncodedIs
<1>2. /\ text \o piece \in Seq(Nat) /\ Len(text \o piece) = old + Len(piece)
      /\ \A m \in 1..old + Len(piece) :
           (text \o piece)[m] = IF m <= old THEN text[m] ELSE piece[m - old]
  BY <1>1, ConcatProperties
<1> PICK all \in Seq(Nat) : all = text \o piece
  BY <1>2
<1>3. /\ Len(all) = old + Len(piece) /\ Len(piece) \in 1..2
      /\ \A m \in 1..old : all[m] = text[m]
      /\ all[old + 1] = piece[1]
      /\ Len(piece) = 2 => all[old + 2] = piece[2]
  <2>1. /\ Len(all) = old + Len(piece)
        /\ \A m \in 1..old + Len(piece) : all[m] = IF m <= old THEN text[m] ELSE piece[m - old]
    BY Zenon, <1>2
  <2>2. \A m \in 1..old : m \in 1..old + Len(piece) /\ m <= old
    BY <1>1
  <2>3. old + 1 \in 1..old + Len(piece) /\ ~(old + 1 <= old) /\ (old + 1) - old = 1
    BY <1>1
  <2>4. Len(piece) = 2 =>
          old + 2 \in 1..old + Len(piece) /\ ~(old + 2 <= old) /\ (old + 2) - old = 2
    BY <1>1
  <2> QED
    BY <1>1, <2>1, <2>2, <2>3, <2>4
<1> DEFINE on == [k \in 1..n + 1 |-> IF k = n + 1 THEN old + 1 ELSE at[k]]
<1>4. /\ at \in [1..n -> 1..old]
      /\ \A k, l \in 1..n : k < l => at[k] < at[l]
      /\ \A m \in 1..old : ~IsContinuation(text[m]) => \E k \in 1..n : at[k] = m
      /\ \A k \in 1..n : /\ Character(text, at[k]) = bytes[k]
                         /\ text[at[k]] < 128 \/ at[k] + 1 <= old
  BY DEF SpelledBy
<1>5. /\ on \in [1..n + 1 -> 1..Len(all)] /\ on[n + 1] = old + 1
      /\ \A k \in 1..n : on[k] = at[k] /\ at[k] \in 1..old /\ k \in 1..n + 1
      /\ \A k \in 1..n + 1 : k \in 1..n \/ k = n + 1
  <2>1. \A k \in 1..n : at[k] \in 1..old
    BY <1>4
  <2>2. /\ \A m \in 1..old : m \in 1..Len(all)
        /\ old + 1 \in 1..Len(all)
    BY Zenon, <1>3, PlacesOn
  <2>3. /\ \A k \in 1..n : k \in 1..n + 1 /\ k # n + 1
        /\ \A k \in 1..n + 1 : k \in 1..n \/ k = n + 1
        /\ n + 1 \in 1..n + 1
    OBVIOUS
  <2>4. \A k \in 1..n + 1 : on[k] = IF k = n + 1 THEN old + 1 ELSE at[k]
    BY Zenon
  <2>5. \A k \in 1..n + 1 : on[k] \in 1..Len(all)
    BY Zenon, <2>1, <2>2, <2>3, <2>4
  <2>6. on \in [1..n + 1 -> 1..Len(all)]
    BY Zenon, <2>4, <2>5
  <2> QED
    BY Zenon, <2>1, <2>3, <2>4, <2>6
<1> HIDE DEF on
<1>6. ASSUME NEW k \in 1..n + 1, NEW l \in 1..n + 1, k < l PROVE on[k] < on[l]
  <2>1. k \in 1..n /\ (l \in 1..n \/ l = n + 1)
    BY <1>6
  <2>2. CASE l \in 1..n
    BY Zenon, <1>4, <1>5, <1>6, <2>1, <2>2
  <2>3. CASE l = n + 1
    <3>1. on[k] \in 1..old /\ on[l] = old + 1
      BY Zenon, <1>5, <2>1, <2>3
    <3> QED
      BY <3>1
  <2> QED
    BY <2>1, <2>2, <2>3
<1>7. ASSUME NEW m \in 1..Len(all), ~IsContinuation(all[m])
      PROVE  \E k \in 1..n + 1 : on[k] = m
  <2>1. CASE m \in 1..old
    <3> PICK k \in 1..n : at[k] = m
      BY <1>3, <1>4, <1>7, <2>1
    <3> QED
      BY <1>5
  <2>2. CASE m = old + 1
    BY <1>5, <2>2
  <2>3. CASE m = old + 2 /\ Len(piece) = 2
    BY <1>1, <1>3, <1>7, <2>3
  <2>4. /\ m \in 1..old \/ m = old + 1 \/ (m = old + 2 /\ Len(piece) = 2)
        /\ n + 1 \in 1..n + 1
    <3>1. m \in 1..old \/ m = old + 1 \/ (m = old + 2 /\ Len(piece) = 2)
      <4> PICK more \in 1..2 : more = Len(piece)
        BY <1>3
      <4>1. Len(all) = old + more
        BY Zenon, <1>3
      <4>2. m \in 1..old + more /\ m \in Nat
        BY <4>1
      <4>3. m \in 1..old \/ m = old + 1 \/ (m = old + 2 /\ more = 2)
        BY Zenon, <4>2, PlaceOn
      <4> QED
        BY Zenon, <4>3
    <3>2. n + 1 \in 1..n + 1
      OBVIOUS
    <3> QED
      BY <3>1, <3>2
  <2> QED
    BY Zenon, <2>1, <2>2, <2>3, <2>4
<1>8. ASSUME NEW k \in 1..n + 1
      PROVE  /\ Character(all, on[k]) = bytes[k]
             /\ all[on[k]] < 128 \/ on[k] + 1 <= Len(all)
  <2>1. CASE k \in 1..n
    <3>0. /\ on[k] = at[k] /\ at[k] \in 1..old /\ all[at[k]] = text[at[k]]
          /\ Character(text, at[k]) = bytes[k]
          /\ text[at[k]] < 128 \/ at[k] + 1 <= old
      BY Zenon, <1>3, <1>4, <1>5, <2>1
    <3>1. /\ on[k] = at[k] /\ at[k] \in 1..old /\ all[at[k]] = text[at[k]]
          /\ Character(text, at[k]) = bytes[k]
          /\ text[at[k]] < 128 \/ at[k] + 1 \in 1..old
      BY <3>0
    <3>2. text[at[k]] < 128 \/ all[at[k] + 1] = text[at[k] + 1]
      BY <1>3, <3>1
    <3>3. Character(all, at[k]) = Character(text, at[k])
      <4>1. CASE text[at[k]] < 128
        BY Zenon, <3>1, <4>1 DEF Character
      <4>2. CASE ~(text[at[k]] < 128)
        BY Zenon, <3>1, <3>2, <4>2 DEF Character
      <4> QED
        BY <4>1, <4>2
    <3> QED
      BY <1>3, <3>1, <3>3
  <2>2. CASE k = n + 1
    <3>1. on[k] = old + 1 /\ all[old + 1] = piece[1] /\ (old + 1) + 1 = old + 2
      BY <1>3, <1>5, <2>2
    <3>2. piece[1] < 128 \/ all[(old + 1) + 1] = piece[1 + 1]
      <4>1. piece[1] < 128 \/ all[old + 2] = piece[2]
        BY <1>1, <1>3
      <4>2. (old + 1) + 1 = old + 2 /\ 1 + 1 = 2
        OBVIOUS
      <4> QED
        BY Zenon, <4>1, <4>2
    <3>3. Character(all, old + 1) = Character(piece, 1)
      <4>1. CASE piece[1] < 128
        BY Zenon, <3>1, <4>1 DEF Character
      <4>2. CASE ~(piece[1] < 128)
        BY Zenon, <3>1, <3>2, <4>2 DEF Character
      <4> QED
        BY <4>1, <4>2
    <3> QED
      BY <1>1, <1>3, <2>2, <3>1, <3>3
  <2> QED
    BY <1>5, <2>1, <2>2
<1>9. SpelledBy(on, all, bytes, n + 1)
  BY <1>5, <1>6, <1>7, <1>8 DEF SpelledBy
<1> QED
  BY Zenon, <1>9

LEMMA LatinSpells ==
  ASSUME NEW bytes, Listed(bytes), \A n \in DOMAIN bytes : bytes[n] \in 0..255
  PROVE  Spells(LatinToUTF8(bytes), bytes)
<1> DEFINE pieces == [n \in DOMAIN bytes |-> Encoded(bytes[n])]
<1>1. /\ Len(bytes) \in Nat /\ DOMAIN bytes = 1..Len(bytes)
      /\ LatinToUTF8(bytes) = FlattenSeq(pieces)
  BY ListIs DEF LatinToUTF8, Encoded
<1>2. /\ pieces = [n \in 1..Len(bytes) |-> Encoded(bytes[n])]
      /\ Len(pieces) = Len(bytes) /\ Listed(pieces)
  <2>1. pieces = [n \in 1..Len(bytes) |-> Encoded(bytes[n])]
    BY Zenon, <1>1
  <2>2. Len(pieces) = Len(bytes)
    BY <1>1, <2>1
  <2> QED
    BY <1>1, <2>1, <2>2 DEF Listed
<1> HIDE DEF pieces
<1>3. \E text : /\ LatinToUTF8(bytes) = text /\ text \in Seq(Nat)
                /\ \E at : SpelledBy(at, text, bytes, Len(bytes))
  <2>1. SpelledBy(<<>>, <<>>, bytes, 0)
    BY DEF SpelledBy
  <2>2. CASE Len(bytes) = 0
    <3>1. FlattenSeq(pieces) = pieces /\ pieces = <<>>
      BY <1>2, <2>2 DEF FlattenSeq
    <3>2. <<>> \in Seq(Nat)
      OBVIOUS
    <3>3. LatinToUTF8(bytes) = <<>>
      BY Zenon, <1>1, <3>1
    <3>4. SpelledBy(<<>>, <<>>, bytes, Len(bytes))
      BY Zenon, <2>1, <2>2
    <3> QED
      BY Zenon, <3>2, <3>3, <3>4
  <2>3. CASE Len(bytes) # 0
    <3>1. PICK f : Joins(f, pieces, Len(pieces)) /\ FlattenSeq(pieces) = f[Len(pieces)]
      BY <1>2, <2>3, FlattenDefined
    <3>2. \A n \in 1..Len(bytes) :
            f[n] = IF n = 1 THEN Encoded(bytes[n]) ELSE f[n - 1] \o Encoded(bytes[n])
      BY <1>2, <3>1 DEF Joins
    <3> DEFINE text(n) == IF n = 0 THEN <<>> ELSE f[n]
               T       == {n \in 0..Len(bytes) :
                             text(n) \in Seq(Nat) /\ \E at : SpelledBy(at, text(n), bytes, n)}
    <3>3. 0 \in T
      BY <1>1, <2>1
    <3>4. ASSUME NEW n \in 0..Len(bytes), n < Len(bytes), n \in T PROVE n + 1 \in T
      <4>1. n + 1 \in 1..Len(bytes) /\ n + 1 \in 0..Len(bytes) /\ (n + 1) - 1 = n /\ n \in Nat
        BY <1>1, <3>4
      <4>2. bytes[n + 1] \in 0..255
        BY <1>1, <4>1
      <4>3. text(n + 1) = text(n) \o Encoded(bytes[n + 1])
        <5>1. CASE n = 0
          <6>0. n + 1 = 1
            BY <5>1
          <6>1. Encoded(bytes[1]) \in Seq(Nat)
            BY Zenon, <4>2, <6>0, EncodedIs
          <6>2. <<>> \o Encoded(bytes[1]) = Encoded(bytes[1])
            BY <6>1, ConcatEmptySeq
          <6> QED
            BY <3>2, <4>1, <5>1, <6>2
        <5>2. CASE n # 0
          <6>1. n + 1 # 1 /\ n + 1 # 0
            BY <4>1, <5>2
          <6>2. f[n + 1] = f[n] \o Encoded(bytes[n + 1])
            BY Zenon, <3>2, <4>1, <6>1
          <6> QED
            BY Zenon, <5>2, <6>1, <6>2
        <5> QED
          BY <5>1, <5>2
      <4> HIDE DEF text
      <4>4. text(n) \in Seq(Nat) /\ \E at : SpelledBy(at, text(n), bytes, n)
        BY <3>4
      <4>5. /\ text(n) \o Encoded(bytes[n + 1]) \in Seq(Nat)
            /\ \E on : SpelledBy(on, text(n) \o Encoded(bytes[n + 1]), bytes, n + 1)
        BY <4>1, <4>2, <4>4, SpelledOn
      <4> QED
        BY <4>1, <4>3, <4>5
    <3>5. Len(bytes) \in T
      <4> HIDE DEF T
      <4>1. \A n \in 0..Len(bytes) : n \in T
        BY <1>1, <3>3, <3>4, Induction
      <4> QED
        BY <1>1, <4>1
    <3>6. text(Len(bytes)) = LatinToUTF8(bytes)
      BY <1>1, <1>2, <2>3, <3>1
    <3> HIDE DEF text
    <3> QED
      BY <3>5, <3>6
  <2> QED
    BY <2>2, <2>3
<1>4. PICK text : /\ LatinToUTF8(bytes) = text /\ text \in Seq(Nat)
                  /\ \E at : SpelledBy(at, text, bytes, Len(bytes))
  BY <1>3
<1>5. DOMAIN text = 1..Len(text)
  BY <1>4
<1>6. PICK at : SpelledBy(at, text, bytes, Len(bytes))
  BY <1>4
<1>7. Spells(text, bytes)
  BY Zenon, <1>1, <1>5, <1>6 DEF Spells, SpelledBy
<1> QED
  BY <1>4, <1>7

LEMMA OptionsAre ==
  /\ EncodingOptions["utf"] = "UTF8" /\ "utf" # "latin" /\ "UTF8" # "LATIN1"
  /\ EncodingOptions["latin"] = "LATIN1"
  /\ EncodingOptions["blob"] = "BLOB" /\ "blob" # "latin" /\ "BLOB" # "LATIN1"
BY DEF EncodingOptions

LEMMA TextsAre == ScanInv => TextDecoded
<1> SUFFICES ASSUME ScanInv, NEW r \in DOMAIN rows, NEW c \in DOMAIN read.column_ids,
                    NEW id, id = read.column_ids[c], NEW v, v = rows[r][c],
                    id \in DOMAIN file.fields, attribute_types[id] = "VARCHAR", v # Null
             PROVE  /\ IsValid(v)
                    /\ IF \/ read.encoding = "latin"
                          \/ read.encoding = "none" /\ file.cpg \in {"none", "iso-8859-1"}
                       THEN Spells(v, Cell(r, id)) ELSE v = Cell(r, id)
  BY Zenon DEF TextDecoded
<1>1. /\ v = Attribute(r, id) /\ Typed /\ attribute_types[id] = AttributeType(file.fields[id])
      /\ Cell(r, id) # Null => /\ ~AttributeRejected(attribute_types[id], Cell(r, id))
                               /\ CellRead(file.fields[id].type, Cell(r, id))
  BY AttributeGiven
<1>2. Cell(r, id) # Null /\ v = Text(Cell(r, id)) /\ IsValid(v)
  BY <1>1 DEF Attribute, ConvertAttribute, AttributeRejected
<1>3. file.fields[id].type = "FTString" /\ Encoding # "BLOB"
  <2>1. file.fields[id].type \in FieldTypes
    BY <1>1 DEF Typed, BindAccepted
  <2> QED
    BY <1>1, <2>1 DEF AttributeType, FieldTypes
<1>4. Listed(Cell(r, id)) /\ \A n \in DOMAIN Cell(r, id) : Cell(r, id)[n] \in 0..255
  BY <1>1, <1>2, <1>3 DEF CellRead
<1>5. OptionAccepted /\ attribute_encoding = Encoding
  BY <1>1 DEF Typed, BindAccepted
<1>6. (\/ read.encoding = "latin"
       \/ read.encoding = "none" /\ file.cpg \in {"none", "iso-8859-1"}) <=> Encoding = "LATIN1"
  <2>1. read.encoding \in {"utf", "latin", "blob", "none"}
    BY <1>5 DEF OptionAccepted, EncodingOptions
  <2>2. CASE read.encoding = "none"
    <3>1. Encoding = IF file.cpg # "none" THEN FromCpg(file.cpg) ELSE "LATIN1"
      BY <2>2 DEF Encoding
    <3> QED
      BY <2>2, <3>1 DEF FromCpg
  <2>3. CASE read.encoding # "none"
    <3>1. Encoding = EncodingOptions[read.encoding]
      BY Zenon, <2>3 DEF Encoding
    <3> QED
      BY Zenon, <2>1, <2>3, <3>1, OptionsAre
  <2> QED
    BY <2>2, <2>3
<1>7. v = IF Encoding = "LATIN1" THEN LatinToUTF8(Cell(r, id)) ELSE Cell(r, id)
  BY <1>2, <1>5 DEF Text
<1> QED
  BY <1>2, <1>4, <1>6, <1>7, LatinSpells

(* A text has the characters that its bytes stand for in the encoding that *)
(* was asked for, or that the .cpg file names (read_shapefile.cpp:434,     *)
(* shapefile.hpp:82), and no text that is not valid UTF-8 is given.        *)
THEOREM TextsAreDecoded == Spec => []TextDecoded
<1> QED
  BY TextsAre, ScanStart, ScanKept, PTL DEF Spec

=============================================================================
