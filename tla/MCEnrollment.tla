----------------------------- MODULE MCEnrollment -----------------------------
(* Enrollment with small constants: see the cfg files.                     *)
EXTENDS Enrollment

AllCodes == [box : Boxes, wg : BOOLEAN, admin : BOOLEAN]
KeyedCodes == {c \in AllCodes : c.wg}

\* One household's code has an admin{}, the others' have none.
OneAdmin == LET b == CHOOSE b \in Boxes : TRUE
            IN  {c \in KeyedCodes : c.admin <=> c.box = b}
=============================================================================
