----------------------------- MODULE MCIntents ------------------------------
EXTENDS Intents

CONSTANTS x, y, z, m1, m2, k1, k2, h1, h2, person, outsider

Node(n, deps) == [name |-> n, deps |-> deps]

From(s, k, tasks) == [source |-> s, key |-> k, tasks |-> tasks]

\* k1: the same key with two lists, and with a cycle beside a root.  k2: a good list
\* from somebody without the scope, and what validation refuses: a cycle of three, a
\* name twice, a task that waits for itself, an unknown one.
MCRequests ==
  {From(person, k1, <<Node(x, {}), Node(y, {})>>),
   From(person, k1, <<Node(y, {x}), Node(x, {}), Node(z, {x, y})>>),
   From(person, k1, <<Node(x, {y}), Node(y, {x}), Node(z, {})>>),
   From(outsider, k2, <<Node(x, {}), Node(y, {})>>),
   From(person, k2, <<Node(x, {y}), Node(y, {z}), Node(z, {x})>>),
   From(person, k2, <<Node(x, {}), Node(x, {})>>),
   From(person, k2, <<Node(x, {x})>>), From(person, k2, <<Node(x, {y})>>)}
=============================================================================
