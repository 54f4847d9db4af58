------------------------------ MODULE MCChain ------------------------------
(* All chains that the types allow of a source and two stages. *)
EXTENDS Chain

Extended(chains) == UNION {{[stages |-> Append(c.stages, s), type |-> TypeAfter(s, c.type)] :
                              s \in Stages(c.type)} : c \in chains}
JustSources == UNION {{[stages |-> <<s>>, type |-> type] : s \in Sources(type)} : type \in Types}
TwoStages == {c.stages : c \in Extended(Extended(JustSources))}
=============================================================================
