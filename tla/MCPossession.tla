----------------------------- MODULE MCPossession ------------------------------
EXTENDS Possession

CONSTANTS none

\* Three tensors, in the file in the order of their names or in reverse, after
\* a header and with a gap after each.
Sizes == {<<1, 2, 5>>, <<5, 1, 2>>, <<2, 3, 1>>, <<4, 2, 4>>, <<6, 5, 2>>, <<1, 1, 0>>}

At(sizes, order, i) ==
  5 + FoldLeft(LAMBDA sum, j : sum + sizes[j] + 1, 0,
               SelectSeq(<<1, 2, 3>>, LAMBDA j : order[j] < order[i]))

Files ==
  {[i \in 1 .. 3 |-> [size |-> sizes[i], at |-> At(sizes, order, i)]] :
     sizes \in Sizes, order \in {<<1, 2, 3>>, <<3, 1, 2>>}}

\* Targets of 24 bits: in the top word, across words, small, negative.
Bits ==
  {[exponent |-> e, mantissa |-> m] : e \in {10}, m \in {23, 30}}
    \cup {[exponent |-> 9, mantissa |-> 29], [exponent |-> 2, mantissa |-> 27],
          [exponent |-> 10, mantissa |-> 40]}

\* Aligned, across two words, in the top word, too big, out of bounds.
Difficulties ==
  {[mantissa |-> 4, exponent |-> -7], [mantissa |-> 5, exponent |-> -3],
   [mantissa |-> 7, exponent |-> -1], [mantissa |-> 7, exponent |-> 1],
   [mantissa |-> 4, exponent |-> 6]}

\* Stand-ins for the hashes, of 3 and 4 bits.
HashOf(seq) == FoldLeft(LAMBDA h, x : (h * 3 + x + 1) % 8, 0, seq)
Salted(w) == (w + 5) % 8
Seeds(w, time, nonce) == (w * 5 + time + nonce * 3) % 16
Mixed(state, chunk) == (state * 5 + chunk * 3 + 1) % 16
Folded(state, w) ==
  [i \in 0 .. 3 |-> (state * (2 * i + 1) + w * (i + 2)) % (IF i = 3 THEN 4 ELSE 2^WordBits)]
Heavy(w, time, nonce) == Folded((time + nonce * 7) % 16, w)
================================================================================
