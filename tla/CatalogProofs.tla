--------------------------- MODULE CatalogProofs ---------------------------
(***************************************************************************)
(* Proofs for Catalog: the types, and that a registered file is found      *)
(* under its name, for any ids, names and primary key fields of which none *)
(* is a table name.                                                        *)
(***************************************************************************)
EXTENDS Catalog, TLAPS

(* Erasing a key of a map of tables leaves a map of tables. *)
LEMMA EraseType ==
    ASSUME NEW D, NEW map \in [D -> Table \cup {Null}], NEW x
    PROVE  /\ Erase(map, x) \in [D -> Table \cup {Null}]
           /\ \A y \in D : Erase(map, x)[y] = IF y = x THEN Null ELSE map[y]
BY DEF Erase

(* The maps after the two erasures of addTable: the id and the name that   *)
(* are added are free, and so is the id of the table that had the name.    *)
LEMMA ErasedMaps ==
    ASSUME TypeOK, NEW id \in Ids, NEW name \in Names,
           NEW a, a = eraseOldId(idToTable, nameToTable, id),
           NEW b, b = eraseOldName(a[1], a[2], name)
    PROVE  /\ a[1] \in [Ids -> Table \cup {Null}]
           /\ a[2] \in [Names -> Table \cup {Null}]
           /\ b[1] \in [Ids -> Table \cup {Null}]
           /\ b[2] \in [Names -> Table \cup {Null}]
<1>1. /\ a[1] \in [Ids -> Table \cup {Null}]
      /\ a[2] \in [Names -> Table \cup {Null}]
  <2>1. CASE idToTable[id] = Null
    BY <2>1 DEF eraseOldId, TypeOK
  <2>2. CASE idToTable[id] # Null
    <3>1. a = <<Erase(idToTable, id), Erase(nameToTable, idToTable[id].pkeyField)>>
      BY <2>2 DEF eraseOldId
    <3> QED  BY <3>1, EraseType DEF TypeOK
  <2> QED  BY <2>1, <2>2
<1>2. /\ b[1] \in [Ids -> Table \cup {Null}]
      /\ b[2] \in [Names -> Table \cup {Null}]
  <2>1. CASE a[2][name] = Null
    BY <1>1, <2>1 DEF eraseOldName
  <2>2. CASE a[2][name] # Null
    <3>1. b = <<Erase(a[1], a[2][name].file), Erase(a[2], name)>>
      BY <2>2 DEF eraseOldName
    <3> QED  BY <1>1, <3>1, EraseType
  <2> QED  BY <2>1, <2>2
<1> QED  BY <1>1, <1>2

(* The catalog's maps keep their types through any registrations (addTable) *)
(* and clearings (clear).                                                   *)
THEOREM CatalogTypeCorrect == Spec => []TypeOK
<1>1. Init => TypeOK
  BY DEF Init, TypeOK
<1>2. TypeOK /\ [Next]_vars => TypeOK'
  <2> SUFFICES ASSUME TypeOK, [Next]_vars PROVE TypeOK'
    OBVIOUS
  <2>1. ASSUME NEW i \in Ids, NEW n \in Names, NEW k \in PkeyFields, addTable(i, n, k)
        PROVE  TypeOK'
    <3> DEFINE a == eraseOldId(idToTable, nameToTable, i)
               b == eraseOldName(a[1], a[2], n)
    <3>1. /\ b[1] \in [Ids -> Table \cup {Null}]
          /\ b[2] \in [Names -> Table \cup {Null}]
      BY ErasedMaps
    <3>2. newTable(i, n, k) \in Table
      BY DEF newTable, Table
    <3>3. \/ /\ idToTable' = [b[1] EXCEPT ![i] = newTable(i, n, k)]
             /\ nameToTable' = [b[2] EXCEPT ![n] = newTable(i, n, k)]
             /\ UNCHANGED crashed
          \/ /\ crashed' = TRUE
             /\ UNCHANGED <<idToTable, nameToTable>>
      BY <2>1 DEF addTable
    <3> QED  BY <3>1, <3>2, <3>3 DEF TypeOK
  <2>2. CASE clear
    BY <2>2 DEF clear, TypeOK
  <2>3. CASE UNCHANGED vars
    BY <2>3 DEF vars, TypeOK
  <2> QED  BY <2>1, <2>2, <2>3 DEF Next
<1> QED  BY <1>1, <1>2, PTL DEF Spec

(* What addTable leaves registered: its own table, and every other table   *)
(* whose name it did not take.                                             *)
LEMMA AddedMaps ==
    ASSUME TypeOK, RegisteredNamesResolve, PkeyFields \cap Names = {},
           NEW i \in Ids, NEW n \in Names, NEW k \in PkeyFields,
           addTable(i, n, k), ~ crashed'
    PROVE  /\ idToTable'[i] = newTable(i, n, k)
           /\ nameToTable'[n] = newTable(i, n, k)
           /\ \A j \in Ids \ {i} : idToTable'[j] # Null =>
                   idToTable'[j] = idToTable[j] /\ idToTable[j].name # n
           /\ \A m \in Names \ {n} : nameToTable'[m] = nameToTable[m]
<1> DEFINE a == eraseOldId(idToTable, nameToTable, i)
           b == eraseOldName(a[1], a[2], n)
<1>1. /\ a[1] \in [Ids -> Table \cup {Null}]
      /\ a[2] \in [Names -> Table \cup {Null}]
      /\ b[1] \in [Ids -> Table \cup {Null}]
      /\ b[2] \in [Names -> Table \cup {Null}]
  BY ErasedMaps
<1>2. /\ idToTable' = [b[1] EXCEPT ![i] = newTable(i, n, k)]
      /\ nameToTable' = [b[2] EXCEPT ![n] = newTable(i, n, k)]
  BY DEF addTable
<1>3. /\ \A j \in Ids \ {i} : a[1][j] = idToTable[j]
      /\ a[2] = nameToTable
  <2>1. CASE idToTable[i] = Null
    BY <2>1 DEF eraseOldId
  <2>2. CASE idToTable[i] # Null
    <3>1. a = <<Erase(idToTable, i), Erase(nameToTable, idToTable[i].pkeyField)>>
      BY <2>2 DEF eraseOldId
    <3>2. idToTable[i].pkeyField \notin Names
      BY <2>2 DEF TypeOK, Table
    <3>3. Erase(nameToTable, idToTable[i].pkeyField) = nameToTable
      BY <3>2 DEF Erase, TypeOK
    <3>4. \A j \in Ids \ {i} : Erase(idToTable, i)[j] = idToTable[j]
      BY DEF Erase, TypeOK
    <3> QED  BY <3>1, <3>3, <3>4
  <2> QED  BY <2>1, <2>2
<1>4. /\ \A j \in Ids \ {i} : b[1][j] # Null =>
             b[1][j] = idToTable[j] /\ idToTable[j].name # n
      /\ \A m \in Names \ {n} : b[2][m] = nameToTable[m]
  <2>1. \A j \in Ids : idToTable[j] # Null /\ idToTable[j].name = n =>
             nameToTable[n] # Null /\ nameToTable[n].file = j
    BY NullAssumption DEF RegisteredNamesResolve, getTableName, getTableId, TypeOK, Table
  <2>2. CASE nameToTable[n] = Null
    BY <1>3, <2>1, <2>2 DEF eraseOldName
  <2>3. CASE nameToTable[n] # Null
    <3>1. b = <<Erase(a[1], nameToTable[n].file), Erase(nameToTable, n)>>
      BY <1>3, <2>3 DEF eraseOldName
    <3>2. \A j \in Ids : b[1][j] = IF j = nameToTable[n].file THEN Null ELSE a[1][j]
      BY <1>1, <3>1, EraseType
    <3>3. \A m \in Names : b[2][m] = IF m = n THEN Null ELSE nameToTable[m]
      BY <3>1, EraseType DEF TypeOK
    <3> QED  BY <1>3, <2>1, <3>2, <3>3
  <2> QED  BY <2>2, <2>3
<1> QED  BY <1>1, <1>2, <1>4

(* A registered file is found under its name, whatever files were added,   *)
(* renamed and replaced before (addTable), for any number of files and     *)
(* names, when no primary key field is a table name.                       *)
THEOREM NamesResolve ==
    ASSUME PkeyFields \cap Names = {}
    PROVE  Spec => []RegisteredNamesResolve
<1>1. Init => RegisteredNamesResolve
  BY DEF Init, RegisteredNamesResolve, getTableName
<1>2. TypeOK /\ RegisteredNamesResolve /\ [Next]_vars => RegisteredNamesResolve'
  <2> SUFFICES ASSUME TypeOK, RegisteredNamesResolve, [Next]_vars
               PROVE  RegisteredNamesResolve'
    OBVIOUS
  <2>1. CASE UNCHANGED <<idToTable, nameToTable>>
    BY <2>1 DEF RegisteredNamesResolve, getTableName, getTableId
  <2>2. CASE clear
    BY <2>2 DEF clear, RegisteredNamesResolve, getTableName
  <2>3. ASSUME NEW i \in Ids, NEW n \in Names, NEW k \in PkeyFields,
               addTable(i, n, k), ~ crashed'
        PROVE  RegisteredNamesResolve'
    <3> SUFFICES ASSUME NEW j \in Ids, idToTable'[j] # Null
                 PROVE  /\ nameToTable'[idToTable'[j].name] # Null
                        /\ nameToTable'[idToTable'[j].name].file = j
      BY DEF RegisteredNamesResolve, getTableName, getTableId
    <3>1. CASE j = i
      <4>1. idToTable'[i] = newTable(i, n, k) /\ nameToTable'[n] = newTable(i, n, k)
        BY <2>3, AddedMaps
      <4>2. /\ newTable(i, n, k) \in Table
            /\ newTable(i, n, k).name = n
            /\ newTable(i, n, k).file = i
        BY DEF newTable, Table
      <4> QED  BY <3>1, <4>1, <4>2, NullAssumption
    <3>2. CASE j # i
      <4>1. idToTable'[j] = idToTable[j] /\ idToTable[j].name # n
        BY <2>3, <3>2, AddedMaps
      <4>2. idToTable[j] \in Table
        BY <4>1 DEF TypeOK
      <4>3. idToTable[j].name \in Names \ {n}
        BY <4>1, <4>2 DEF Table
      <4>4. nameToTable'[idToTable[j].name] = nameToTable[idToTable[j].name]
        BY <2>3, <4>3, AddedMaps
      <4>5. /\ nameToTable[idToTable[j].name] # Null
            /\ nameToTable[idToTable[j].name].file = j
        BY <4>1, <4>2, NullAssumption
           DEF RegisteredNamesResolve, getTableName, getTableId, Table
      <4> QED  BY <4>1, <4>4, <4>5
    <3> QED  BY <3>1, <3>2
  <2>4. ASSUME NEW i \in Ids, NEW n \in Names, NEW k \in PkeyFields,
               addTable(i, n, k), crashed'
        PROVE  RegisteredNamesResolve'
    BY <2>1, <2>4 DEF addTable
  <2> QED  BY <2>1, <2>2, <2>3, <2>4 DEF Next, vars
<1> QED  BY <1>1, <1>2, CatalogTypeCorrect, PTL DEF Spec
===============================================================================
