------------------------------- MODULE Logger -------------------------------
(***************************************************************************)
(* One field of a log call on its way into the line.  The call site may    *)
(* redact the value itself, as the middleware does with arguments and      *)
(* responses; the level decides whether there is a line at all; the        *)
(* processor _redact_secrets redacts the event (once more), and            *)
(* format_exc_info renders the traceback of the exception being handled.   *)
(***************************************************************************)
EXTENDS Redaction

CONSTANTS Payloads,  \* the values a call site may log, tracebacks included
          Fields     \* the keywords it may log them under

(* A credential reaches the logger in one piece: half of it is none.       *)
WholeTexts ==
  {t \in Seq(Pieces) :
     /\ \A i \in DOMAIN t : t[i] = "cre" => i < Len(t) /\ t[i + 1] = "dential"
     /\ \A i \in DOMAIN t : t[i] = "dential" => i > 1 /\ t[i - 1] = "cre"}

ASSUME PayloadAssumption ==
  \A v \in Payloads : v \in Made(WholeTexts, Nat, {}, MaxNesting)

VARIABLES payload,   \* what the call site was given
          field,     \* the keyword it logs it under
          value,     \* the field's value as the event is processed
          stage      \* "call", "redacted", "processed", "logged" or "filtered"

vars == <<payload, field, value, stage>>

(* exc_info=True is a flag until the traceback is rendered.                *)
ExcInfo == <<"exc_info">>

Init ==
  /\ payload \in Payloads
  /\ field \in Fields
  /\ value = IF field = ExcInfo THEN Atom ELSE payload
  /\ stage = "call"

(* log.debug(..., args=redact(raw_args)).                                  *)
CallSite ==
  /\ stage = "call"
  /\ value' = redact(value)
  /\ stage' = "redacted"
  /\ UNCHANGED <<payload, field>>

(* make_filtering_bound_logger: the level is below the configured one.     *)
Filter ==
  /\ stage \in {"call", "redacted"}
  /\ stage' = "filtered"
  /\ UNCHANGED <<payload, field, value>>

(* _redact_secrets: redact({field: value})[field].                         *)
Skipped == {<<"event">>, <<"level">>, <<"timestamp">>}

redact_secrets ==
  /\ stage \in {"call", "redacted"}
  /\ value' = IF field \in Skipped THEN value ELSE redact_dict(<<<<field, value>>>>, redact_at[1])[1][2]
  /\ stage' = "processed"
  /\ UNCHANGED <<payload, field>>

(* format_exc_info, then JSONRenderer.                                     *)
Render ==
  /\ stage = "processed"
  /\ value' = IF field = ExcInfo THEN payload ELSE value
  /\ stage' = "logged"
  /\ UNCHANGED <<payload, field>>

Next == CallSite \/ Filter \/ redact_secrets \/ Render

Spec == Init /\ [][Next]_vars

-----------------------------------------------------------------------------
(* What the redaction is responsible for: not the event's own name, which  *)
(* call sites spell out, and not the traceback, which is rendered after it *)
(* and which only debug lines carry.                                       *)
Redacted == stage = "logged" /\ field \notin Skipped \cup {ExcInfo}

(* Whatever value is logged as a field, under whatever name and whether or *)
(* not its call site has redacted it: no string value in it, at any depth, *)
(* holds a credential or a part of one that a cut has left, and no value   *)
(* under the name of a secret is shown.  The keys of dicts are left out:   *)
(* they are logged as they are.                                            *)
NoSecretValue ==
  Redacted => IF Secret(field) THEN value = Str(<<REDACTED>>) ELSE Clean(value)

(* A logged value is bounded in depth, in the length of each of its string *)
(* values and in the number of entries and items of each of its dicts and  *)
(* lists, with one message on top where something was cut.  The length of  *)
(* its keys is not.                                                        *)
ValuesBounded == Redacted => Fits(value, MaxDepth, 1)

(* Redaction hides no more than it must: every harmless part of a value    *)
(* that is within the bounds is logged as it was, also when it is          *)
(* redacted twice, next to secrets, or named like one that is not.         *)
HarmlessShown ==
  Redacted /\ ~Secret(field) => <<value, payload>> \in Shown[MaxDepth - 1]
=============================================================================
