----------------------------- MODULE MCScanner ------------------------------
(* All texts of up to five characters of eight, with each keyword between     *)
(* characters of every class, and texts with a string, closed or not.         *)
EXTENDS Scanner

Short == UNION {[1..n -> {"i", "n", "f", "t", "1", " ", "=", "<"}] : n \in 0..5}
Around == {<<k[1]>> \o Keywords[k[2]].word \o <<k[3]>> :
             k \in {" ", "x", "1", "}", "n"} \X (DOMAIN Keywords) \X {" ", "x", "1", "_", "N", "(", "t"}}
Inside == UNION {[1..n -> {"i", "f", " ", "="}] : n \in 0..3}
Quoted == {<<"x", "\"">> \o s \o <<"\"">> \o t :
             s \in Inside, t \in {<< >>, <<";">>, <<"i", "f">>, <<"\"", "i">>}}
Unclosed == {<<"x", "\"">> \o s : s \in Inside}

AllTexts == Short \cup Around \cup Quoted \cup Unclosed
SaneTexts == {t \in AllTexts : ~HasIn(read_file(t))}
=============================================================================
