--------------------------- MODULE BalanceIntake ---------------------------
(***************************************************************************)
(* POST /api/v1/balances (app/routes/balances.py, app/models.py): the one  *)
(* request that passes the sign-in without an identity.  Its own key, the  *)
(* size of its body and its content are checked in this order; the         *)
(* delivery is then stored in one transaction on a worker thread, which    *)
(* BalanceStore details.                                                   *)
(***************************************************************************)
EXTENDS Identity

CONSTANTS
    Posts,     \* what a collector sends: [key, declared, content]
    Blank,     \* no X-API-Key header, or an empty one
    NoLength,  \* no Content-Length, or one that is not digits
    NotInt,    \* a Content-Length that isdigit() accepts and int() does not: a superscript
    Garbage,   \* a content that is not JSON, or of another shape
    Cap,       \* MAX_BODY_BYTES, in units
    MaxChunk,  \* the most the server hands over at once
    MaxRows,   \* MAX_DELIVERY_ROWS
    Nothing    \* no row

ASSUME IntakeAssumption ==
    /\ Cap \in Nat /\ MaxChunk \in Nat \ {0} /\ MaxRows \in Nat
    /\ Garbage # Nothing

VARIABLES
    intake,  \* the call in the handler
    stored   \* the rows it has stored

intakeVars == <<intake, stored>>
vars       == <<identityVars, intakeVars>>

NoAnswer == 0

NoCall == [pc |-> "idle", key |-> Blank, declared |-> NoLength, content |-> Garbage,
           buffered |-> 0, answer |-> NoAnswer]

Answered(answer) == intake' = [intake EXCEPT !.pc = "over", !.answer = answer]

-----------------------------------------------------------------------------
(***************************************************************************)
(* What a delivery must look like.  A row is [id, provider, sound, asOf,   *)
(* reconciled]; `sound' is the form of each of its fields.                 *)
(***************************************************************************)

\* BalanceRow; zero stands for no reconciled_through.
RowOK(row) ==
    /\ row.sound
    /\ row.reconciled # 0 => row.provider = "xero" /\ row.reconciled <= row.asOf

\* BalanceDelivery
DeliveryOK(content) ==
    /\ content # Garbage
    /\ Len(content.items) <= MaxRows
    /\ \A i \in DOMAIN content.items : RowOK(content.items[i])
    /\ content.total = Len(content.items)
    /\ \A i, j \in DOMAIN content.items :
          content.items[i].id = content.items[j].id => i = j

-----------------------------------------------------------------------------
Init ==
    /\ IdentityInit
    /\ intake = NoCall
    /\ stored = Nothing

\* The router calls receive_balances.
Receive(post) ==
    /\ request.answer = "passed" /\ request.handler = "intake"
    /\ intake.pc = "idle"
    /\ intake' = [NoCall EXCEPT !.pc = "key", !.key = post.key,
                      !.declared = post.declared, !.content = post.content]
    /\ UNCHANGED <<identityVars, stored>>

\* Mutated form: without a key there is nothing to compare with.
CheckKeyOnly ==
    /\ intake.pc = "key"
    /\ IF intake.key # (IF settings.key = NoKey THEN Blank ELSE settings.key.text)
       THEN Answered(401)
       ELSE intake' = [intake EXCEPT !.pc = "size"]
    /\ UNCHANGED <<identityVars, stored>>

\* The intake is off, or the key is wrong.
CheckKey ==
    /\ intake.pc = "key"
    /\ IF settings.key = NoKey THEN Answered(404)
       ELSE IF intake.key # settings.key.text THEN Answered(401)
       ELSE intake' = [intake EXCEPT !.pc = "size"]
    /\ UNCHANGED <<identityVars, stored>>

\* _read_body: the declared length, whose ValueError nobody catches, then chunk
\* after chunk.
CheckLength ==
    /\ intake.pc = "size"
    /\ IF intake.declared = NotInt THEN Answered(500)
       ELSE IF intake.declared # NoLength /\ intake.declared > Cap THEN Answered(413)
       ELSE intake' = [intake EXCEPT !.pc = "body"]
    /\ UNCHANGED <<identityVars, stored>>

ReadChunk ==
    /\ intake.pc = "body"
    /\ \E n \in 1 .. MaxChunk :
          intake' = IF intake.buffered + n > Cap
                    THEN [intake EXCEPT !.buffered = @ + n, !.pc = "over", !.answer = 413]
                    ELSE [intake EXCEPT !.buffered = @ + n]
    /\ UNCHANGED <<identityVars, stored>>

\* The body ends, and is judged whole.
Validate ==
    /\ intake.pc = "body"
    /\ IF DeliveryOK(intake.content) THEN intake' = [intake EXCEPT !.pc = "store"]
                                     ELSE Answered(422)
    /\ UNCHANGED <<identityVars, stored>>

\* The client leaves: while the body is read the handler ends, and later the
\* store goes on, but nobody hears of it.
Leave ==
    /\ \/ intake.pc = "body" /\ intake' = [intake EXCEPT !.pc = "over"]
       \/ intake.pc = "store" /\ intake' = [intake EXCEPT !.pc = "unheard"]
    /\ UNCHANGED <<identityVars, stored>>

\* Mutated form: a database error is only logged.
StoreLogged ==
    /\ intake.pc \in {"store", "unheard"}
    /\ stored' \in {stored, intake.content.items}
    /\ IF intake.pc = "store" THEN Answered(200)
                              ELSE intake' = [intake EXCEPT !.pc = "over"]
    /\ UNCHANGED identityVars

\* store_balance_delivery commits, or a sqlite3.Error undoes it.
Store ==
    /\ intake.pc \in {"store", "unheard"}
    /\ \/ /\ stored' = intake.content.items
          /\ IF intake.pc = "store" THEN Answered(200)
                                    ELSE intake' = [intake EXCEPT !.pc = "over"]
       \/ /\ UNCHANGED stored
          /\ IF intake.pc = "store" THEN Answered(503)
                                    ELSE intake' = [intake EXCEPT !.pc = "over"]
    /\ UNCHANGED identityVars

\* The request is over.
End ==
    /\ request.pc = "judged"
    /\ intake.pc = IF request.handler = "intake" THEN "over" ELSE "idle"
    /\ intake' = NoCall
    /\ stored' = Nothing
    /\ EndRequest

Next ==
    \/ IdentityNext /\ UNCHANGED intakeVars
    \/ \E post \in Posts : Receive(post)
    \/ CheckKey \/ CheckLength \/ ReadChunk \/ Validate \/ Leave \/ Store \/ End

Spec == Init /\ [][Next]_vars

-----------------------------------------------------------------------------
\* No byte of a body is read for a caller who does not have the configured key,
\* no header included while no key is configured; a wrong key is answered the
\* same whatever the body; and a body is given up at the cap (receive_balances,
\* _read_body).
KeyBeforeBody ==
    /\ intake.pc \notin {"idle", "key", "over"} \/ intake.answer \in {200, 413, 422, 500, 503}
         => settings.key # NoKey /\ intake.key = settings.key.text
    /\ intake.buffered > 0 => intake.answer \notin {401, 404}
    /\ intake.buffered <= Cap + MaxChunk

\* The answer can be trusted: 200 says that the rows are stored, any other that
\* nothing was changed; a delivery that is stored names no account twice and
\* has all the rows it announced (the route's `responses').
AnswerTells ==
    /\ intake.answer = 200 => stored = intake.content.items
    /\ intake.answer \in {401, 404, 413, 422, 500, 503} => stored = Nothing
    /\ stored # Nothing =>
         \A i, j \in DOMAIN stored : stored[i].id = stored[j].id => i = j
=============================================================================
