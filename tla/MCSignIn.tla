------------------------------ MODULE MCSignIn ------------------------------
EXTENDS SignIn, TLC

CONSTANTS n1, q1, q2, i1, i2

\* Every deployment, memory with a shared secret included: there two instances
\* cannot agree, as nonce.mjs says.
MCDeployments == [store : {"kv", "memory"}, shared : BOOLEAN]
=============================================================================
