----------------------------- MODULE MCZkMulti -----------------------------
EXTENDS ZkMulti
Root    == <<"/", "c">>
OnePath == {<<"/", "a">>}
=============================================================================
