--------------------------- MODULE MCSoxExchange ---------------------------
(* The clients of the threads of SoxExchange, which a cfg cannot write.    *)
EXTENDS SoxExchange

OneClient == [t \in Threads |-> CHOOSE c \in Clients : TRUE]
=============================================================================
