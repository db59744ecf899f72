------------------------------ MODULE MCHttpUrl ------------------------------
(* Targets that are built from every combination of these parts. *)
EXTENDS HttpUrl

Parts == [schema : {<< >>, <<"h", "a">>},
          user : {<< >>, <<"@">>, <<"h", ":", "@">>, <<"h", "@", "&", "@">>},
          host : {<< >>, <<"h", ".">>, <<"[", "a", ":", "]">>, <<"[", "a", "%", "h", "]">>,
                  <<"[", "a", "%", "]">>, <<"[", "]">>, <<"&">>},
          port : {<< >>, <<":">>, <<":", "8">>, <<":", "6", "5", "5", "3", "5">>,
                  <<":", "6", "5", "5", "3", "6">>},
          path : {<< >>, <<"/">>, <<"/", "@", ":">>},
          query : {<< >>, <<"?">>, <<"?", "?", "h">>},
          fragment : {<< >>, <<"#">>, <<"#", "#", "h">>}]

\* A path of FieldMod characters.
LongPath == [schema |-> << >>, user |-> << >>, host |-> << >>, port |-> << >>,
             path |-> [i \in 1 .. FieldMod |-> "/"], query |-> << >>, fragment |-> << >>]

Star == [LongPath EXCEPT !.path = <<"*">>]

MCTargets == Parts \cup {LongPath, Star}
=============================================================================
