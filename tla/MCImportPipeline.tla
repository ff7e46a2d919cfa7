-------------------------- MODULE MCImportPipeline --------------------------
(* Instances of ImportPipeline for TLC.                                     *)
EXTENDS ImportPipeline, TLC

CONSTANTS m1, r1,                  \* batches
          Ann, annMail, annPhone, otherPhone, aria

\* A member file with two lines about Ann and a roster that has her perform a
\* title.  Imported first, the roster makes an entry the member lines then are
\* duplicates of; imported later, it finds the entries of the member file.
MCCsv == <<
    [batch |-> m1, name |-> Ann, email |-> annMail, phone |-> annPhone, title |-> Blank],
    [batch |-> m1, name |-> Ann, email |-> Blank, phone |-> otherPhone, title |-> Blank],
    [batch |-> r1, name |-> Ann, email |-> Blank, phone |-> Blank, title |-> aria] >>

MCSeeded == << >>

Symmetry == Permutations(Workers)
=============================================================================
