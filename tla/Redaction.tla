----------------------------- MODULE Redaction ------------------------------
(***************************************************************************)
(* redaction.py: what may be said in a log line of an arbitrary value.     *)
(*                                                                         *)
(* A value is a record: a string, a dict (its entries in order), a list or *)
(* an atom (None, a bool, a number).  An object of any other class is      *)
(* treated as its str() and is not told apart from it.  A string is a      *)
(* sequence of pieces; two of them, "cre" "dential", make up one match of  *)
(* _VALUE_PATTERNS, and half of it alone matches nothing.  The key of an   *)
(* entry, str(key), is a string like any other: it may hold a credential   *)
(* and be of any length.  No payload uses the key under which redact says  *)
(* how many entries it left out.                                           *)
(***************************************************************************)
EXTENDS Integers, SequencesExt

CONSTANTS Words,       \* pieces of text that are no part of a credential
          MaxDepth,    \* MAX_DEPTH
          MaxStr,      \* MAX_STRING_LEN, in pieces
          MaxItems,    \* MAX_COLLECTION_ITEMS
          SecretNames, \* the keys that contain one of _SECRET_KEY_PARTS ...
          SafeNames,   \* ... and those of them listed in _SAFE_KEYS
          MaxNesting   \* bound on the levels of a value, beyond MaxDepth

ASSUME BoundsAssumption ==
  /\ MaxDepth \in Nat \ {0} /\ MaxStr \in Nat /\ MaxItems \in Nat \ {0}
  /\ MaxNesting \in Nat /\ MaxDepth <= MaxNesting

Str(text)     == [kind |-> "str", text |-> text]
Dict(entries) == [kind |-> "dict", entries |-> entries]
List(items)   == [kind |-> "list", items |-> items]
Atom          == [kind |-> "atom"]

REDACTED == "***REDACTED***"

(* What is left where something was cut, and the key of the entry that     *)
(* says so in a dict; how much is missing is left out.                     *)
More   == "...[more]"
Deeper == "...[max depth]"

Pieces == Words \cup {"cre", "dential", REDACTED, More, Deeper}
Names  == Seq(Pieces)

ASSUME NamesAssumption == <<More>> \notin SecretNames

(* The values of one level more than parts has: their texts are in texts,  *)
(* their lists and dicts have as many parts as widths says, and under the  *)
(* names in hidden stands nothing but REDACTED.                            *)
Layer(texts, widths, hidden, parts) ==
  LET Some(S) == {s \in Seq(S) : Len(s) \in widths}
      entries == {e \in Names \X parts : e[1] \in hidden => e[2] = Str(<<REDACTED>>)}
  IN  [kind : {"str"}, text : texts] \cup {Atom}
        \cup [kind : {"dict"}, entries : Some(entries)]
        \cup [kind : {"list"}, items : Some(parts)]

(* The values like that of at most levels levels.                          *)
Made(texts, widths, hidden, levels) ==
  LET upto[n \in 0 .. MaxNesting] ==
        IF n = 0 THEN {} ELSE Layer(texts, widths, hidden, upto[n - 1])
  IN  upto[levels]

Value == Made(Seq(Pieces), Nat, {}, MaxNesting)

-----------------------------------------------------------------------------
(* Every match of a pattern becomes REDACTED.                              *)
scrub_piece(done, piece) ==
  IF piece = "dential" /\ done # <<>> /\ Last(done) = "cre"
  THEN Append(Front(done), REDACTED)
  ELSE Append(done, piece)

scrub(text) == FoldLeft(scrub_piece, <<>>, text)

truncate(text) ==
  IF Len(text) > MaxStr THEN Append(SubSeq(text, 1, MaxStr), More) ELSE text

-----------------------------------------------------------------------------
(* Plausible slips, used to show that the properties can be broken.        *)

scrub_text_CutFirst(text) == scrub(truncate(text))

is_secret_key_NoExceptions(name) == name \in SecretNames

Kept_All(items) == items

-----------------------------------------------------------------------------
is_secret_key(name) == name \in SecretNames /\ name \notin SafeNames

(* The first MaxItems of the items of a dict or a list.                    *)
Kept(items) == IF Len(items) > MaxItems THEN SubSeq(items, 1, MaxItems) ELSE items

(* Scrubbed before it is cut: half a credential is none to the patterns.   *)
scrub_text(text) == truncate(scrub(text))

(* What becomes of the entries of a dict and the items of a list, when the *)
(* values in them become what inner says.  Keys are copied as they are.    *)
redact_dict(entries, inner) ==
  LET entry(e) == <<e[1], IF is_secret_key(e[1]) THEN Str(<<REDACTED>>) ELSE inner[e[2]]>>
      kept     == [i \in DOMAIN Kept(entries) |-> entry(entries[i])]
  IN  IF Len(entries) > MaxItems THEN Append(kept, <<<<More>>, Str(<<More>>)>>) ELSE kept

redact_list(items, inner) ==
  LET kept == [i \in DOMAIN Kept(items) |-> inner[items[i]]]
  IN  IF Len(items) > MaxItems THEN Append(kept, Str(<<More>>)) ELSE kept

walk(v, inner) ==
  CASE v.kind = "str"  -> Str(scrub_text(v.text))
    [] v.kind = "dict" -> Dict(redact_dict(v.entries, inner))
    [] v.kind = "list" -> List(redact_list(v.items, inner))
    [] v.kind = "atom" -> v

(* redact(v, _depth=depth), for every value v.                             *)
redact_at[depth \in 0 .. MaxDepth] ==
  [v \in Value |-> IF depth >= MaxDepth
                   THEN Str(<<Deeper>>)
                   ELSE walk(v, redact_at[depth + 1])]

redact(v) == redact_at[0][v]

-----------------------------------------------------------------------------
(* What the properties say of a value.                                     *)

Secret(name) == name \in SecretNames \ SafeNames

CleanTexts        == Seq(Pieces \ {"cre", "dential"})
ShortTexts(slack) == {t \in Seq(Pieces) : Len(t) <= MaxStr + slack}

(* No string value in it holds a credential or part of one, and none is    *)
(* named as a secret.  Keys are not values.                                *)
Clean(v) ==
  v \in Made(CleanTexts, Nat, SecretNames \ SafeNames, MaxNesting)

(* It has at most levels levels, and no string value or collection in it   *)
(* is longer than its bound and slack more.                                *)
Fits(v, levels, slack) ==
  v \in Made(ShortTexts(slack), 0 .. MaxItems + slack, {}, levels)

(* A value v is shown as w: every part of it that is harmless and within   *)
(* levels and the bounds is in w as it is, wherever it stands among others *)
(* that are not.  below holds the pairs of a part of v and what it may be  *)
(* shown as.                                                               *)
Shows(w, v, levels, below) ==
  /\ Clean(v) /\ Fits(v, levels, 0) => w = v
  /\ levels > 1 /\ v.kind = "dict" =>
       /\ w.kind = "dict"
       /\ \A i \in {j \in DOMAIN v.entries : j <= MaxItems} :
            /\ i \in DOMAIN w.entries
            /\ w.entries[i][1] = v.entries[i][1]
            /\ ~Secret(v.entries[i][1]) => <<w.entries[i][2], v.entries[i][2]>> \in below
  /\ levels > 1 /\ v.kind = "list" =>
       /\ w.kind = "list"
       /\ \A i \in {j \in DOMAIN v.items : j <= MaxItems} :
            /\ i \in DOMAIN w.items
            /\ <<w.items[i], v.items[i]>> \in below

Shown[levels \in 0 .. MaxDepth] ==
  {p \in Value \X Value : Shows(p[1], p[2], levels, Shown[levels - 1])}
=============================================================================
