----------------------------- MODULE MCSession ------------------------------
EXTENDS Session

MCBursts == [publish     |-> {<<0, 4>>, <<3, 1>>, <<4, 0>>},
             interactive |-> {<<1>>},
             cli         |-> {<<0, 0>>, <<1>>},
             proxy       |-> {<<0, 0>>},
             replay      |-> {<<1>>}]
=============================================================================
