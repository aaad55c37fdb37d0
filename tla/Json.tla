-------------------------------- MODULE Json --------------------------------
(***************************************************************************)
(* JSON values, as cJSON tags its items:                                   *)
(*   <<"null">>  <<"bool", b>>  <<"num", n>>  <<"str", text>>              *)
(*   <<"arr", sequence of values>>  <<"obj", sequence of <<key, value>>>>  *)
(* and <<"none">> is the NULL pointer.  A text is a sequence of symbols: a *)
(* character, or a whole word where its letters do not matter.  Numbers    *)
(* are integers: TUF has no others.                                        *)
(***************************************************************************)
EXTENDS Integers, Sequences, SequencesExt

Missing == <<"none">>
IsObject(v) == v[1] = "obj"
IsArray(v)  == v[1] = "arr"
IsString(v) == v[1] = "str"
IsNumber(v) == v[1] = "num"

Field(w, v) == << <<w>>, v >>
Word(w) == <<"str", <<w>> >>

\* cJSON_GetObjectItemCaseSensitive: the first item of that name.
GetText(v, text) ==
  IF ~IsObject(v) THEN Missing
  ELSE LET i == SelectInSeq(v[2], LAMBDA item : item[1] = text)
       IN  IF i = 0 THEN Missing ELSE v[2][i][2]
Get(v, name) == GetText(v, <<name>>)

=============================================================================
