---------------------------- MODULE ContractValue ----------------------------
(***************************************************************************)
(* The value of one contract field on its way from the source to the       *)
(* curated table, read by each of the three strategies: the driver's form  *)
(* of it, coerce_contract_value, the checks of normalize_contract_row and  *)
(* of schema_validation, the JSON artifact, coerce_contract_value again    *)
(* when the artifact is loaded, and the column created for the field       *)
(* (contracts/runtime.py).  It starts when the contract has been fetched.  *)
(*                                                                         *)
(* A value is a Python class, what it denotes, and for a str the kind of   *)
(* literal it is.  The drivers are external: psycopg2 gives Python objects *)
(* to the snapshot, the audit rows come out of jsonb, and pgoutput sends   *)
(* the server's text.  Left out: contract types that name SQL types, bytea *)
(* (its contract type, string, never passes validate_source_columns), a    *)
(* field without a type on a column other than jsonb, and the keywords     *)
(* that look inside a string, an array or an object.                       *)
(***************************************************************************)
EXTENDS ContractRegistry

CONSTANTS
    Schemas     \* property schemas of the field, with what the contract says of it

SchemaTypes == {"string", "integer", "number", "boolean", "object", "array", "untyped"}
Formats == {"none", "date-time", "date", "time", "uuid"}

(* A format on another type than string is read by nothing. *)
ASSUME SchemasAssumption ==
    \A s \in Schemas :
        /\ s.type \in SchemaTypes /\ s.format \in Formats
        /\ s.format # "none" => s.type = "string"

VARIABLES
    column, value,  \* the source column and its value
    schema,         \* [type, format, list, enum, required, key]
    phase,          \* of each journey
    landed,         \* the value in the JSON artifact
    hashed,         \* what the row_hash was calculated from
    loaded          \* the value sent to the curated table

valueVars == <<column, value, schema, phase, landed, hashed, loaded>>
contractVars == <<registryVars, valueVars>>

Null == "NULL"

(* The three readings of a row, and the key of a delete of the two deltas. *)
Rows == {"snapshot", "audit", "cdc"}
Deletes == {"audit delete", "cdc delete"}
Journeys == Rows \cup Deletes
Running == IF schema.key THEN Journeys ELSE Rows

(* What a source column may hold.  "n.0" is n written with more digits after *)
(* the point, "wide" does not fit 32 bits, "long" does not fit a float.      *)
ValuesOf ==
    [int4 |-> {"n"}, int8 |-> {"n", "wide"}, numeric |-> {"n", "n.0", "long", "NaN"},
     float8 |-> {"n", "NaN"}, boolean |-> {"v"}, text |-> {"v"}, uuid |-> {"v"},
     timestamptz |-> {"v"}, timestamp |-> {"v"}, date |-> {"v"}, time |-> {"v"},
     jsonb |-> {"object", "array", "scalar"}]
Columns == DOMAIN ValuesOf
-----------------------------------------------------------------------------
Python(class, v) == [py |-> class, v |-> v, lit |-> "none"]
Str(lit, v) == [py |-> "str", v |-> v, lit |-> lit]
NoValue == Python("None", Null)
Invalid == Python("invalid", Null)

(* json.loads of a number, and a double precision column: a float. *)
FloatOf(v) == IF v = "n.0" THEN "n" ELSE IF v = "long" THEN "rounded" ELSE v

JsonOf(v) ==
    IF v = "object" THEN Python("dict", v)
    ELSE IF v = "array" THEN Python("list", v) ELSE Str("text", v)

LiteralOf ==
    [int4 |-> "number", int8 |-> "number", numeric |-> "number", float8 |-> "number",
     boolean |-> "t or f", text |-> "text", uuid |-> "uuid", timestamptz |-> "timestamptz",
     timestamp |-> "timestamp", date |-> "date", time |-> "time", jsonb |-> "json"]

ClassOf ==
    [int4 |-> "int", int8 |-> "int", numeric |-> "Decimal", float8 |-> "float",
     boolean |-> "bool", uuid |-> "UUID", timestamptz |-> "datetime",
     timestamp |-> "naive_datetime", date |-> "date", time |-> "time"]

ByPsycopg(c, v) ==
    IF c = "jsonb" THEN JsonOf(v)
    ELSE IF c = "text" THEN Str("text", v) ELSE Python(ClassOf[c], v)

ByJsonb(c, v) ==
    IF c = "jsonb" THEN JsonOf(v)
    ELSE IF c \in {"numeric", "float8"} /\ v # "NaN" THEN Python("float", FloatOf(v))
    ELSE IF c \in {"int4", "int8", "boolean"} THEN Python(ClassOf[c], v)
    ELSE Str(LiteralOf[c], v)

ByPgOutput(c, v) == Str(LiteralOf[c], v)

Read(j) ==
    IF value = Null THEN NoValue
    ELSE IF j = "snapshot" THEN ByPsycopg(column, value)
    ELSE IF j \in {"audit", "audit delete"} THEN ByJsonb(column, value)
    ELSE ByPgOutput(column, value)
-----------------------------------------------------------------------------
(* _map_json_schema_property_type; a type given as a list is its first member *)
(* that is not null.                                                          *)
FieldType(s) ==
    IF s.type = "string" THEN
        CASE s.format = "date-time" -> "timestamp"
          [] s.format \in {"date", "time", "uuid"} -> s.format
          [] OTHER -> "string"
    ELSE IF s.type = "number" THEN "decimal"
    ELSE IF s.type = "object" THEN "json" ELSE s.type

(* normalize_sqlalchemy_type of the reflected column *)
ColumnClass(c) ==
    CASE c \in {"int4", "int8"} -> "integer"
      [] c \in {"numeric", "float8"} -> "decimal"
      [] c \in {"timestamptz", "timestamp"} -> "timestamp"
      [] c = "text" -> "string"
      [] c = "jsonb" -> "json"
      [] OTHER -> c

(* validate_source_columns: the snapshot stops at a column of another type.   *)
(* The deltas do not look; the table is one that all three can be used on.    *)
(* An "untyped" property, one without a type, goes with every column.         *)
Describes(s, c) ==
    \/ FieldType(s) = ColumnClass(c)
    \/ FieldType(s) \in {"array", "untyped"} /\ c = "jsonb"

(* coerce_contract_value: the classes it returns as they are, and what it     *)
(* makes of others, of a str by the literal it is; it raises for the rest.    *)
Taken ==
    [array |-> {"list"}, json |-> {"dict", "list"}, string |-> {"str"}, uuid |-> {"str"},
     integer |-> {"int"}, decimal |-> {"Decimal"}, boolean |-> {"bool"},
     timestamp |-> {"datetime", "naive_datetime"}, date |-> {"date"}, time |-> {"time"}]

Converted(t, x) ==
    CASE t = "uuid" /\ x.py = "UUID" -> Str("uuid", x.v)
      [] t = "integer" /\ x.lit = "number" -> Python("int", x.v)
      [] t = "decimal" /\ (x.py \in {"int", "float"} \/ x.lit = "number") ->
            Python("Decimal", x.v)
      [] t = "timestamp" /\ x.lit = "timestamptz" -> Python("datetime", x.v)
      [] t = "timestamp" /\ x.lit = "timestamp" -> Python("naive_datetime", x.v)
      [] t \in {"date", "time"} /\ x.lit = t -> Python(t, x.v)
      [] OTHER -> Invalid

Coerce(x, t) ==
    IF x = NoValue \/ t = "untyped" \/ x.py \in Taken[t] THEN x ELSE Converted(t, x)

(* prepare_instance_for_validation, and json_default, which also writes a    *)
(* Decimal as a string.                                                      *)
IsoLiteral ==
    [datetime |-> "timestamptz", naive_datetime |-> "timestamp",
     date |-> "date", time |-> "time"]
Prepared(x) == IF x.py \in DOMAIN IsoLiteral THEN Str(IsoLiteral[x.py], x.v) ELSE x

(* Mutant: a Decimal is written as a JSON number. *)
ToJsonNumber(x) == IF x.py = "Decimal" THEN Python("float", FloatOf(x.v)) ELSE Prepared(x)

ToJson(x) == IF x.py = "Decimal" THEN Str("number", x.v) ELSE Prepared(x)
-----------------------------------------------------------------------------
(* _matches_type and _matches_format *)
MatchesType(type, x) ==
    CASE type = "string" -> x.py = "str"
      [] type = "integer" -> x.py = "int"
      [] type = "number" -> x.py \in {"int", "Decimal"} /\ x.v # "NaN"
      [] type = "boolean" -> x.py = "bool"
      [] type = "object" -> x.py = "dict"
      [] type = "array" -> x.py = "list"
      [] type = "untyped" -> TRUE

MatchesFormat(format, x) ==
    CASE format = "none" -> TRUE
      [] format = "date-time" -> x.lit = "timestamptz"
      [] OTHER -> x.lit = format

(* Mutant: numbers of an enum are compared as they are written. *)
AsWritten(v) == v

(* _normalize_decimal *)
Normalized(v) == IF v = "n.0" THEN "n" ELSE v

(* _validate_node for a type that is a string, or none. *)
FitsSchema(s, x) ==
    /\ MatchesType(s.type, x)
    /\ MatchesFormat(s.format, x)
    /\ s.enum # {} => Normalized(x.v) \in s.enum

(* normalize_contract_row and normalize_contract_key_row, before the schema. *)
Normal(x) ==
    /\ x # Invalid
    /\ (schema.key \/ schema.required) => x # NoValue

(* _validate_node tests whether the type is in {"integer", "number"}: with a *)
(* list, as in ["string", "null"], that raises a TypeError nothing catches.  *)
Raises(j, x) == j \in Rows /\ Normal(x) /\ schema.list

Accepts(j, x) == Normal(x) /\ (j \in Rows => FitsSchema(schema, Prepared(x)))

(* sqlalchemy_type_from_contract_field: integers are a four-byte column. *)
ColumnTakes(s, x) == s.type = "integer" => x.v # "wide"
-----------------------------------------------------------------------------
ContractInit ==
    /\ RegistryInit
    /\ column \in Columns
    /\ schema \in {s \in Schemas : Describes(s, column)}
    /\ value \in ValuesOf[column] \cup (IF schema.key THEN {} ELSE {Null})
    /\ phase = [j \in Journeys |-> "source"]
    /\ landed = [j \in Journeys |-> NoValue]
    /\ hashed = [j \in Journeys |-> Null]
    /\ loaded = [j \in Journeys |-> NoValue]

(* normalize_contract_row, then build_contract_row_payload. *)
Land(j) ==
    /\ fetched = "contract"
    /\ phase[j] = "source"
    /\ LET x == Coerce(Read(j), FieldType(schema)) IN
        /\ ~Raises(j, x) /\ Accepts(j, x)
        /\ landed' = [landed EXCEPT ![j] = ToJson(x)]
        /\ hashed' = [hashed EXCEPT ![j] = x.v]
    /\ phase' = [phase EXCEPT ![j] = "landed"]
    /\ UNCHANGED <<column, value, schema, loaded, registryVars>>

Quarantine(j) ==
    /\ fetched = "contract"
    /\ phase[j] = "source"
    /\ LET x == Coerce(Read(j), FieldType(schema)) IN ~Raises(j, x) /\ ~Accepts(j, x)
    /\ phase' = [phase EXCEPT ![j] = "quarantined"]
    /\ UNCHANGED <<column, value, schema, landed, hashed, loaded, registryVars>>

(* The task fails, and nothing of what it extracted is landed. *)
StopExtract(j) ==
    /\ fetched = "contract"
    /\ phase[j] = "source"
    /\ Raises(j, Coerce(Read(j), FieldType(schema)))
    /\ phase' = [phase EXCEPT ![j] = "stopped"]
    /\ UNCHANGED <<column, value, schema, landed, hashed, loaded, registryVars>>

(* The artifact's value is coerced again and sent to the field's column. *)
Load(j) ==
    /\ phase[j] = "landed"
    /\ LET x == Coerce(landed[j], FieldType(schema)) IN
        /\ loaded' = [loaded EXCEPT ![j] = x]
        /\ phase' = [phase EXCEPT ![j] =
                        IF x # Invalid /\ ColumnTakes(schema, x) THEN "loaded" ELSE "refused"]
    /\ UNCHANGED <<column, value, schema, landed, hashed, registryVars>>

Journey(j) == Land(j) \/ Quarantine(j) \/ StopExtract(j) \/ Load(j)

ContractNext ==
    \/ Fetch /\ UNCHANGED valueVars
    \/ \E j \in Running : Journey(j)

ContractSpec == ContractInit /\ [][ContractNext]_contractVars
-----------------------------------------------------------------------------
(***************************************************************************)
(* A value that was accepted reaches the curated table as the value its    *)
(* row_hash was calculated from.  The one value the contract accepts and   *)
(* the table refuses, at every attempt to load the artifact, is an integer *)
(* wider than the four bytes of the column created for it.                 *)
(***************************************************************************)
AcceptedIsLoadedAsHashed ==
    \A j \in Journeys :
        /\ phase[j] = "loaded" => loaded[j].v = hashed[j]
        /\ phase[j] = "refused" => column = "int8" /\ value = "wide"

(* The same value, or the same number written with other digits. *)
Same(x, y) == x.py = y.py /\ (x.v = y.v \/ {x.v, y.v} = {"n", "n.0"})

TextOnly(j) == j \in {"cdc", "cdc delete"} /\ column \in {"boolean", "jsonb"}
Rounds(j) == value = "long" /\ j \in {"audit", "audit delete"}

(***************************************************************************)
(* The strategies may follow one another on a table because they make the  *)
(* same of a value: what two of them load is the same, a delete names the  *)
(* key under which any of them loaded the row, and what one accepts the    *)
(* others accept.  The exceptions are the numbers that lose digits in the  *)
(* jsonb of the audit table, which an enum may tell apart, and the         *)
(* booleans and JSON values, which the CDC reads as text:                  *)
(* coerce_contract_value refuses it for a field with a type and takes it   *)
(* for a string for one without.                                           *)
(***************************************************************************)
StrategiesAgree ==
    \A i, j \in Journeys :
        /\ phase[i] = "loaded" /\ phase[j] = "loaded" =>
            Same(loaded[i], loaded[j]) \/ Rounds(i) # Rounds(j) \/ TextOnly(i) # TextOnly(j)
        /\ i \in Rows /\ phase[i] \in {"landed", "loaded", "refused"} /\ phase[j] = "quarantined" =>
            TextOnly(j) \/ Rounds(i) # Rounds(j)
=============================================================================
