--------------------------- MODULE MCDailyReport ---------------------------
(***************************************************************************)
(* Instance of Reports for TLC.                                            *)
(***************************************************************************)
EXTENDS Reports, TLC

CONSTANTS s1, s2, word

MCSiteOf == [b \in Bus |-> s1]
Form(since, days, ready) == [since |-> since, days |-> days, ready |-> ready]
MCForms == {Form(NoDate, NoDays, NoDate), Form(1, 1, NoDate),
            Form(NoDate, NoDays, 2), Form(2, NoDays, NoDate)}

MCSent == {"findings" :> {word} @@ "action" :> {word}, "findings" :> {},
           "pm" :> {word} @@ "complaints" :> {}}
Everything == [register |-> "any", period |-> "all", from |-> NoDate, to |-> NoDate,
               status |-> "any", origin |-> "any", open |-> "any"]
MCQueries == {Everything, [Everything EXCEPT !.status = "open"],
              [Everything EXCEPT !.register = "work_done", !.period = "today", !.origin = "linked"]}
=============================================================================
