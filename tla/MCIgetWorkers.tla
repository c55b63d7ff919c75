---- MODULE MCIgetWorkers ----
EXTENDS IgetWorkers
CONSTANTS w1, w2, r, i1, i2, i3, h1, h2
MCWorker == {w1, w2}
MCInode == {r, i1, i2, i3}
MCHandle == {h1, h2}
====
