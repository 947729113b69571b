--------------------------- MODULE MCClientCache ---------------------------
(***************************************************************************)
(* A model-checking instance of ClientCache: one organization before and   *)
(* after its token was rotated; a Secret that splits what is written for   *)
(* the first one in another place, so that the two share a hash; and a     *)
(* second organization. A token expires at the end of the unit of time in  *)
(* which it is issued, so that one tick of the clock outdates it.          *)
(***************************************************************************)
EXTENDS ClientCache

MCCredentials == {[url |-> <<1>>, token |-> <<2>>, org |-> <<3, 4>>],
                  [url |-> <<1>>, token |-> <<5>>, org |-> <<3, 4>>],
                  [url |-> <<1>>, token |-> <<2, 3>>, org |-> <<4>>],
                  [url |-> <<1>>, token |-> <<2>>, org |-> <<6>>]}

\* A hash that tells these texts apart.
MCSum == [s \in {Written(c) : c \in MCCredentials} |-> 10 * s[2] + s[3]]

=============================================================================
