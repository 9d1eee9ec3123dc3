------------------------------ MODULE MCCString ------------------------------
(* Two buffers, the characters 0, '1' and -1, and a literal "1\377".        *)
EXTENDS CString

SmallSize == ("x" :> 4 @@ "y" :> 2)
SmallLiteral == (0 :> 49 @@ 1 :> -1 @@ 2 :> 0)
SmallIntArgs == {0, 49, -1, 255, 256, 305}
SmallNumbers == {<<x, y2, (7 * (x + 2) + y2 + 3 + 64 * b) % 256>> : x \in -2..2, y2 \in -3..6, b \in 0..3}
=============================================================================
