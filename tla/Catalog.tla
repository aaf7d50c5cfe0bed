------------------------------- MODULE Catalog -------------------------------
(***************************************************************************)
(* The catalog (db/Catalog.cpp): two hash maps over the same tables, one   *)
(* by file id and one by name.                                             *)
(*                                                                         *)
(* addTable reads each map node after it has erased it (lines 12 and 17).  *)
(* The allocator leaves the Table pointer in the freed node as it was, or  *)
(* the read ends the process: both outcomes are modelled.                  *)
(***************************************************************************)
EXTENDS Naturals

CONSTANTS
    Ids,       \* DbFile::getId() of the files
    Names,     \* table names
    PkeyFields,\* primary key fields: strings, some may be table names too
    Null

VARIABLES
    idToTable,   \* [Ids -> Table or Null]
    nameToTable, \* [Names -> Table or Null]
    crashed      \* a read of a freed node ended the process

vars == <<idToTable, nameToTable, crashed>>

(* db::Table; its file is known by its id. *)
Table == [file : Ids, name : Names, pkeyField : PkeyFields]

ASSUME NullAssumption == Null \notin Table \cup Names \cup Ids

Init ==
    /\ idToTable = [i \in Ids |-> Null]
    /\ nameToTable = [n \in Names |-> Null]
    /\ crashed = FALSE

(* unordered_map::erase(key); a key that is not in the map is ignored. *)
Erase(map, x) == [y \in DOMAIN map |-> IF y = x THEN Null ELSE map[y]]

(* Bug variant: the constructor's strings are mixed up. *)
newTableSwapped(id, name, pkeyField) ==
    [file |-> id, name |-> pkeyField, pkeyField |-> name]

newTable(id, name, pkeyField) ==
    [file |-> id, name |-> name, pkeyField |-> pkeyField]

(* Bug variant: the table that had the name keeps its id. *)
eraseOldNameOnly(ids, names, name) == <<ids, Erase(names, name)>>

(* Lines 9-13: the maps after the table with this id is erased.  The name  *)
(* that goes is the old table's primary key field.                         *)
eraseOldId(ids, names, id) ==
    IF ids[id] = Null THEN <<ids, names>>
    ELSE <<Erase(ids, id), Erase(names, ids[id].pkeyField)>>

(* Lines 14-18: the maps after the table with this name is erased. *)
eraseOldName(ids, names, name) ==
    IF names[name] = Null THEN <<ids, names>>
    ELSE <<Erase(ids, names[name].file), Erase(names, name)>>

addTable(id, name, pkeyField) ==
    /\ ~ crashed
    /\ LET a == eraseOldId(idToTable, nameToTable, id)
           b == eraseOldName(a[1], a[2], name)
           table == newTable(id, name, pkeyField)
       IN  \/ /\ idToTable' = [b[1] EXCEPT ![id] = table]
              /\ nameToTable' = [b[2] EXCEPT ![name] = table]
              /\ UNCHANGED crashed
           \/ /\ idToTable[id] # Null \/ a[2][name] # Null
              /\ crashed' = TRUE
              /\ UNCHANGED <<idToTable, nameToTable>>

clear ==
    /\ ~ crashed
    /\ idToTable' = [i \in Ids |-> Null]
    /\ nameToTable' = [n \in Names |-> Null]
    /\ UNCHANGED crashed

Next ==
    \/ \E i \in Ids, n \in Names, k \in PkeyFields : addTable(i, n, k)
    \/ clear
    \/ crashed /\ UNCHANGED vars

Spec == Init /\ [][Next]_vars

(* getTableId(name), Null when it throws. *)
getTableId(name) ==
    IF nameToTable[name] = Null THEN Null ELSE nameToTable[name].file

(* getTableName(id), Null when it throws. *)
getTableName(id) ==
    IF idToTable[id] = Null THEN Null ELSE idToTable[id].name

-------------------------------------------------------------------------------
(* The variables have their types. *)
TypeOK ==
    /\ idToTable \in [Ids -> Table \cup {Null}]
    /\ nameToTable \in [Names -> Table \cup {Null}]
    /\ crashed \in BOOLEAN

(* A file that has a name is found under it: after any history of          *)
(* registrations, getTableId(getTableName(i)) is i.  It takes the whole of *)
(* addTable: the table that loses its name loses its id too, and erasing   *)
(* the old registration of a file takes no other table's name.  It holds   *)
(* when no primary key field is the name of a table.                       *)
RegisteredNamesResolve ==
    \A i \in Ids : getTableName(i) # Null => getTableId(getTableName(i)) = i

===============================================================================
