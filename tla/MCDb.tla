-------------------------------- MODULE MCDb --------------------------------
EXTENDS Db

\* The root, siblings that part in the second byte, a prefix below one of them,
\* and one that ends with the first byte.
MCKeys == {<<>>, <<0, 1, 0>>, <<0, 1, 1>>, <<0, 1, 1, 0>>, <<1, 1>>}
============================================================================
