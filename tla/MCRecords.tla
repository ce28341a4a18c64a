----------------------------- MODULE MCRecords -----------------------------
(***************************************************************************)
(* Instances of the three ways in by which files become rows: the customs  *)
(* files, the port data synchronisation and the mailbox.  Their rows have  *)
(* nothing in common: the first state picks the scene, and the others stay *)
(* as they are.                                                            *)
(***************************************************************************)
EXTENDS CustomsBinding, PortSync, EmailIngest, TLC

CONSTANTS c1, c2, fIgm, fOoc, fRms, fRmsAmended, f1, f2

VARIABLE scene

\* A manifest, an Out-Of-Charge and a selection of c1, and the amended list
\* that has c2 in the place of c1.
MCFiles == {fIgm, fOoc, fRms, fRmsAmended}
MCFileModule ==
  [f \in MCFiles |-> IF f = fIgm THEN "IGM" ELSE IF f = fOoc THEN "OOC" ELSE "RMS"]
MCFileContainer == [f \in MCFiles |-> IF f = fRmsAmended THEN c2 ELSE c1]
MCFilePosition == [f \in MCFiles |-> 1]

\* A file, then its copy or a notice without a file, then another file.
MCOffered == <<{f1}, {f1, NoFile}, {f2}>>

\* No attachment; a good one beside one without a valid row; one that is good in
\* part, beside one nobody can place; a file refused as a whole; events whose call
\* may become known before a retry; and a gate document.
MCInbox == {<<>>, <<"a1", "a2">>, <<"a3", "odd">>, <<"a4">>, <<"a5">>, <<"g1">>}
MCParsed == [p \in Confident |-> CASE p = "a2" -> "invalid" [] p = "a3" -> "flawed"
                                  [] p = "a4" -> "refused" [] OTHER -> "sound"]
MCFates == [p \in Confident |-> CASE p = "a1" -> {"written"}
                                 [] p = "a3" -> {"written", "nothing"}
                                 [] p = "a5" -> {"unresolved", "written"}
                                 [] p = "g1" -> {"repeated", "raised"}
                                 [] OTHER -> {}]
\* One operator imports; the other looks at it, or imports it again.
MCAsks == [o \in Operator |-> IF o = "o1" THEN {"import"} ELSE {"preview", "override"}]

recordVars == <<scene, customsBindingVars, syncVars, mailVars>>

Init == /\ scene \in {"customs", "sync", "mail"}
        /\ CustomsInit /\ SyncInit /\ MailInit
        /\ scene # "mail" => parts = <<>>

MailScene == MailNext /\ UNCHANGED <<scene, customsBindingVars, syncVars>>

Next == \/ scene = "customs" /\ CustomsNext /\ UNCHANGED <<scene, syncVars, mailVars>>
        \/ scene = "sync" /\ SyncNext
                          /\ UNCHANGED <<scene, customsBindingVars, mailVars>>
        \/ scene = "mail" /\ MailScene

\* The fairness of each component in its own scene: the others are frozen.
Fairness ==
  /\ \A q \in CustomsRequests \ MortalCustoms :
       WF_customsBindingVars(scene = "customs" /\ Continues(q))
  /\ WF_syncVars(scene = "sync" /\ \E w \in Worker : TakeLock(w))
  /\ \A w \in Worker : WF_syncVars(scene = "sync" /\ Sync(w))
  /\ \A o \in Operator : WF_mailVars(scene = "mail" /\ Proceed(o))

Spec == Init /\ [][Next]_recordVars /\ Fairness

\* The mailbox alone.
MailOnlySpec == (Init /\ scene = "mail") /\ [][MailScene]_recordVars
=============================================================================
