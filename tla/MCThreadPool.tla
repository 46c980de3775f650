---------------------------- MODULE MCThreadPool ----------------------------
EXTENDS ThreadPool

CONSTANTS a, b, w1, w2

MCLoads == {<<{w1}, {a, b}, FALSE>>, <<{w1, w2}, {a, b}, FALSE>>, <<{w1, w2}, {a}, TRUE>>}
=============================================================================
