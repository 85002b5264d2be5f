---------------------------- MODULE CarvingProofs ----------------------------
(***************************************************************************)
(* Theorems about carving, for every image, window and number of threads   *)
(* of the assumptions: no header is passed over, what is called intact or  *)
(* reassembled validates, and no candidate reaches into another.           *)
(***************************************************************************)
EXTENDS SourceReaders, ListLemmas

-------------------------------------------------------------------------------
(* Signatures, windows and headers.                                        *)

Kinds == {"fixed", "eocd", "riff", "size", "atom", "ebml", "ole", "max", "id3"}

\* A signature with a short header and a smallest credible size.
IsSignature(s) ==
  /\ s.header \in Seq(Nat) /\ s.sub \in Seq(Nat) /\ s.footer \in Seq(Nat)
  /\ Len(s.header) \in {1, 2} /\ s.maxSize >= 2
  /\ s.minSize \in Nat \ {0} /\ s.maxSize \in Nat
  /\ s.sub = <<>> => s.minSize >= 2
  /\ s.kind \in Kinds

Extensions == <<"jpg", "png", "zip", "avi", "bmp", "mp4", "mkv", "doc", "tif", "mp3">>
FirstCells == <<11, 21, 31, 41, 51, 2, 71, 81, 91, 95>>

(* Every signature has a short header whose first cell is its own, and an  *)
(* extension of its own.                                                   *)
LEMMA SignaturesAre ==
  /\ DOMAIN Signatures = 1..10 /\ Range(Signatures) = {Signatures[i] : i \in 1..10}
  /\ \A i \in 1..10 : /\ IsSignature(Signatures[i])
                      /\ Signatures[i].ext = Extensions[i] /\ Signatures[i].header[1] = FirstCells[i]
<1>1. DOMAIN Signatures = 1..10
  BY DEF Signatures
<1>2. Range(Signatures) = {Signatures[i] : i \in 1..10}
  BY <1>1 DEF Range
<1>3. /\ IsSignature(Signatures[1])
      /\ Signatures[1].ext = Extensions[1] /\ Signatures[1].header[1] = FirstCells[1]
  <2> DEFINE header == <<11, 12>>
             sub == <<>>
             footer == <<13>>
             s == Signature("jpg", header, sub, "fixed", footer, 4, 12)
  <2>1. Signatures[1] = s
    BY DEF Signatures
  <2>2. header \in Seq(Nat) /\ Len(header) = 2 /\ header[1] = FirstCells[1]
    BY DEF FirstCells
  <2>3. sub \in Seq(Nat) /\ footer \in Seq(Nat) /\ "fixed" \in Kinds /\ Extensions[1] = "jpg"
    BY DEF Kinds, Extensions
  <2> HIDE DEF header, sub, footer
  <2>4. IsSignature(s) /\ s.ext = "jpg" /\ s.header = header
    BY <2>2, <2>3 DEF Signature, IsSignature
  <2> QED
    BY <2>1, <2>2, <2>3, <2>4
<1>4. /\ IsSignature(Signatures[2])
      /\ Signatures[2].ext = Extensions[2] /\ Signatures[2].header[1] = FirstCells[2]
  <2> DEFINE header == <<21>>
             sub == <<>>
             footer == <<22, 23>>
             s == Signature("png", header, sub, "fixed", footer, 5, 12)
  <2>1. Signatures[2] = s
    BY DEF Signatures
  <2>2. header \in Seq(Nat) /\ Len(header) = 1 /\ header[1] = FirstCells[2]
    BY DEF FirstCells
  <2>3. sub \in Seq(Nat) /\ footer \in Seq(Nat) /\ "fixed" \in Kinds /\ Extensions[2] = "png"
    BY DEF Kinds, Extensions
  <2> HIDE DEF header, sub, footer
  <2>4. IsSignature(s) /\ s.ext = "png" /\ s.header = header
    BY <2>2, <2>3 DEF Signature, IsSignature
  <2> QED
    BY <2>1, <2>2, <2>3, <2>4
<1>5. /\ IsSignature(Signatures[3])
      /\ Signatures[3].ext = Extensions[3] /\ Signatures[3].header[1] = FirstCells[3]
  <2> DEFINE header == <<31>>
             sub == <<>>
             footer == <<32>>
             s == Signature("zip", header, sub, "eocd", footer, 3, 12)
  <2>1. Signatures[3] = s
    BY DEF Signatures
  <2>2. header \in Seq(Nat) /\ Len(header) = 1 /\ header[1] = FirstCells[3]
    BY DEF FirstCells
  <2>3. sub \in Seq(Nat) /\ footer \in Seq(Nat) /\ "eocd" \in Kinds /\ Extensions[3] = "zip"
    BY DEF Kinds, Extensions
  <2> HIDE DEF header, sub, footer
  <2>4. IsSignature(s) /\ s.ext = "zip" /\ s.header = header
    BY <2>2, <2>3 DEF Signature, IsSignature
  <2> QED
    BY <2>1, <2>2, <2>3, <2>4
<1>6. /\ IsSignature(Signatures[4])
      /\ Signatures[4].ext = Extensions[4] /\ Signatures[4].header[1] = FirstCells[4]
  <2> DEFINE header == <<41>>
             sub == <<42>>
             footer == <<>>
             s == Signature("avi", header, sub, "riff", footer, 1, 12)
  <2>1. Signatures[4] = s
    BY DEF Signatures
  <2>2. header \in Seq(Nat) /\ Len(header) = 1 /\ header[1] = FirstCells[4]
    BY DEF FirstCells
  <2>3. sub \in Seq(Nat) /\ footer \in Seq(Nat) /\ sub # <<>> /\ "riff" \in Kinds /\ Extensions[4] = "avi"
    BY DEF Kinds, Extensions
  <2> HIDE DEF header, sub, footer
  <2>4. IsSignature(s) /\ s.ext = "avi" /\ s.header = header
    BY <2>2, <2>3 DEF Signature, IsSignature
  <2> QED
    BY <2>1, <2>2, <2>3, <2>4
<1>7. /\ IsSignature(Signatures[5])
      /\ Signatures[5].ext = Extensions[5] /\ Signatures[5].header[1] = FirstCells[5]
  <2> DEFINE header == <<51>>
             sub == <<>>
             footer == <<>>
             s == Signature("bmp", header, sub, "size", footer, 3, 12)
  <2>1. Signatures[5] = s
    BY DEF Signatures
  <2>2. header \in Seq(Nat) /\ Len(header) = 1 /\ header[1] = FirstCells[5]
    BY DEF FirstCells
  <2>3. sub \in Seq(Nat) /\ footer \in Seq(Nat) /\ "size" \in Kinds /\ Extensions[5] = "bmp"
    BY DEF Kinds, Extensions
  <2> HIDE DEF header, sub, footer
  <2>4. IsSignature(s) /\ s.ext = "bmp" /\ s.header = header
    BY <2>2, <2>3 DEF Signature, IsSignature
  <2> QED
    BY <2>1, <2>2, <2>3, <2>4
<1>8. /\ IsSignature(Signatures[6])
      /\ Signatures[6].ext = Extensions[6] /\ Signatures[6].header[1] = FirstCells[6]
  <2> DEFINE header == <<2, 61>>
             sub == <<>>
             footer == <<>>
             s == Signature("mp4", header, sub, "atom", footer, 4, 12)
  <2>1. Signatures[6] = s
    BY DEF Signatures
  <2>2. header \in Seq(Nat) /\ Len(header) = 2 /\ header[1] = FirstCells[6]
    BY DEF FirstCells
  <2>3. sub \in Seq(Nat) /\ footer \in Seq(Nat) /\ "atom" \in Kinds /\ Extensions[6] = "mp4"
    BY DEF Kinds, Extensions
  <2> HIDE DEF header, sub, footer
  <2>4. IsSignature(s) /\ s.ext = "mp4" /\ s.header = header
    BY <2>2, <2>3 DEF Signature, IsSignature
  <2> QED
    BY <2>1, <2>2, <2>3, <2>4
<1>9. /\ IsSignature(Signatures[7])
      /\ Signatures[7].ext = Extensions[7] /\ Signatures[7].header[1] = FirstCells[7]
  <2> DEFINE header == <<71>>
             sub == <<>>
             footer == <<72>>
             s == Signature("mkv", header, sub, "ebml", footer, 3, 12)
  <2>1. Signatures[7] = s
    BY DEF Signatures
  <2>2. header \in Seq(Nat) /\ Len(header) = 1 /\ header[1] = FirstCells[7]
    BY DEF FirstCells
  <2>3. sub \in Seq(Nat) /\ footer \in Seq(Nat) /\ "ebml" \in Kinds /\ Extensions[7] = "mkv"
    BY DEF Kinds, Extensions
  <2> HIDE DEF header, sub, footer
  <2>4. IsSignature(s) /\ s.ext = "mkv" /\ s.header = header
    BY <2>2, <2>3 DEF Signature, IsSignature
  <2> QED
    BY <2>1, <2>2, <2>3, <2>4
<1>10. /\ IsSignature(Signatures[8])
      /\ Signatures[8].ext = Extensions[8] /\ Signatures[8].header[1] = FirstCells[8]
  <2> DEFINE header == <<81>>
             sub == <<>>
             footer == <<>>
             s == Signature("doc", header, sub, "ole", footer, 3, 12)
  <2>1. Signatures[8] = s
    BY DEF Signatures
  <2>2. header \in Seq(Nat) /\ Len(header) = 1 /\ header[1] = FirstCells[8]
    BY DEF FirstCells
  <2>3. sub \in Seq(Nat) /\ footer \in Seq(Nat) /\ "ole" \in Kinds /\ Extensions[8] = "doc"
    BY DEF Kinds, Extensions
  <2> HIDE DEF header, sub, footer
  <2>4. IsSignature(s) /\ s.ext = "doc" /\ s.header = header
    BY <2>2, <2>3 DEF Signature, IsSignature
  <2> QED
    BY <2>1, <2>2, <2>3, <2>4
<1>11. /\ IsSignature(Signatures[9])
      /\ Signatures[9].ext = Extensions[9] /\ Signatures[9].header[1] = FirstCells[9]
  <2> DEFINE header == <<91>>
             sub == <<>>
             footer == <<>>
             s == Signature("tif", header, sub, "max", footer, 2, 4)
  <2>1. Signatures[9] = s
    BY DEF Signatures
  <2>2. header \in Seq(Nat) /\ Len(header) = 1 /\ header[1] = FirstCells[9]
    BY DEF FirstCells
  <2>3. sub \in Seq(Nat) /\ footer \in Seq(Nat) /\ "max" \in Kinds /\ Extensions[9] = "tif"
    BY DEF Kinds, Extensions
  <2> HIDE DEF header, sub, footer
  <2>4. IsSignature(s) /\ s.ext = "tif" /\ s.header = header
    BY <2>2, <2>3 DEF Signature, IsSignature
  <2> QED
    BY <2>1, <2>2, <2>3, <2>4
<1>12. /\ IsSignature(Signatures[10])
      /\ Signatures[10].ext = Extensions[10] /\ Signatures[10].header[1] = FirstCells[10]
  <2> DEFINE header == <<95>>
             sub == <<>>
             footer == <<96>>
             s == Signature("mp3", header, sub, "id3", footer, 3, 12)
  <2>1. Signatures[10] = s
    BY DEF Signatures
  <2>2. header \in Seq(Nat) /\ Len(header) = 1 /\ header[1] = FirstCells[10]
    BY DEF FirstCells
  <2>3. sub \in Seq(Nat) /\ footer \in Seq(Nat) /\ "id3" \in Kinds /\ Extensions[10] = "mp3"
    BY DEF Kinds, Extensions
  <2> HIDE DEF header, sub, footer
  <2>4. IsSignature(s) /\ s.ext = "mp3" /\ s.header = header
    BY <2>2, <2>3 DEF Signature, IsSignature
  <2> QED
    BY <2>1, <2>2, <2>3, <2>4
<1>13. \A i \in 1..10 : i \in {1, 2, 3, 4, 5, 6, 7, 8, 9, 10}
  OBVIOUS
<1> QED
  BY <1>1, <1>2, <1>3, <1>4, <1>5, <1>6, <1>7, <1>8, <1>9, <1>10, <1>11, <1>12, <1>13

LEMMA SignaturesDiffer ==
  ASSUME NEW i \in 1..10, NEW j \in 1..10,
         Signatures[i].ext = Signatures[j].ext \/ Signatures[i].header[1] = Signatures[j].header[1]
  PROVE  i = j
<1>1. Extensions[i] = Extensions[j] \/ FirstCells[i] = FirstCells[j]
  BY SignaturesAre
<1>2. Extensions[i] = Extensions[j] => i = j
  BY DEF Extensions
<1>3. FirstCells[i] = FirstCells[j] => i = j
  BY DEF FirstCells
<1> QED
  BY <1>1, <1>2, <1>3

(* What read_window reads.                                                 *)
LEMMA WindowIs ==
  ASSUME NEW image \in Seq(Nat), NEW at \in Nat, NEW length \in Nat
  PROVE  LET w == Window(image, at, length)
         IN  /\ w \in Seq(Nat) /\ Len(w) \in Nat /\ DOMAIN w = 1..Len(w)
             /\ Len(w) = IF at + length <= Len(image) THEN length
                         ELSE IF at <= Len(image) THEN Len(image) - at ELSE 0
             /\ \A i \in 1..Len(w) : w[i] = image[at + i] /\ w[i] \in Nat
<1> DEFINE stop == Min({at + length, Len(image)})
           w == Window(image, at, length)
           n == IF at + 1 <= stop THEN stop - at ELSE 0
<1>1. stop = IF at + length <= Len(image) THEN at + length ELSE Len(image)
  BY MinOfTwo
<1>2. w = SubSeq(image, at + 1, stop)
  BY DEF Window
<1> HIDE DEF stop, w
<1>3. stop \in Nat /\ stop <= Len(image) /\ at + 1 \in Nat
  BY <1>1
<1>4. w \in Seq(Nat) /\ Len(w) = n /\ \A i \in 1..n : w[i] = image[at + i]
  BY <1>2, <1>3
<1>5. n = IF at + length <= Len(image) THEN length ELSE IF at <= Len(image) THEN Len(image) - at ELSE 0
  BY <1>1, <1>3
<1>6. DOMAIN w = 1..Len(w) /\ Len(w) \in Nat /\ \A i \in 1..Len(w) : w[i] \in Nat
  BY <1>4
<1> QED
  BY <1>4, <1>5, <1>6 DEF w

(* Two lists of one length with the same cells are the same.               *)
LEMMA SameList ==
  ASSUME NEW s \in Seq(Nat), NEW t \in Seq(Nat), Len(s) = Len(t), \A i \in 1..Len(s) : s[i] = t[i]
  PROVE  s = t
OBVIOUS

(* A window of a window is a window of the image.                          *)
LEMMA WindowOfWindow ==
  ASSUME NEW image \in Seq(Nat), NEW at \in Nat, NEW length \in Nat, NEW from \in Nat, NEW n \in Nat,
         from + n <= Len(Window(image, at, length))
  PROVE  Window(Window(image, at, length), from, n) = Window(image, at + from, n)
<1> DEFINE w == Window(image, at, length)
           place == at + from
           a == Window(w, from, n)
           b == Window(image, place, n)
<1>1. /\ w \in Seq(Nat) /\ from + n <= Len(w) /\ Len(w) \in Nat
      /\ Len(w) = 0 \/ at + Len(w) <= Len(image)
      /\ \A i \in 1..Len(w) : w[i] = image[at + i]
  BY WindowIs
<1> HIDE DEF w
<1>2. place \in Nat /\ (n = 0 \/ place + n <= Len(image))
  BY <1>1
<1>3. \A i \in 1..n : from + i \in 1..Len(w) /\ at + (from + i) = place + i
  BY <1>1
<1> HIDE DEF place
<1>4. a \in Seq(Nat) /\ Len(a) = n /\ \A i \in 1..n : a[i] = w[from + i]
  BY <1>1, WindowIs
<1>5. b \in Seq(Nat) /\ Len(b) = n /\ \A i \in 1..n : b[i] = image[place + i]
  <2>1. /\ b \in Seq(Nat) /\ \A i \in 1..Len(b) : b[i] = image[place + i]
        /\ Len(b) \in Nat
        /\ Len(b) = IF place + n <= Len(image) THEN n
                    ELSE IF place <= Len(image) THEN Len(image) - place ELSE 0
    BY <1>2, WindowIs
  <2> HIDE DEF b
  <2>2. Len(b) = n
    BY <1>2, <2>1
  <2> QED
    BY <2>1, <2>2
<1>6. \A i \in 1..n : w[from + i] = image[place + i]
  BY <1>1, <1>3
<1>7. a = b
  <2> HIDE DEF a, b
  <2>1. a \in Seq(Nat) /\ b \in Seq(Nat) /\ Len(a) = Len(b)
    BY <1>4, <1>5
  <2>2. \A i \in 1..Len(a) : a[i] = b[i]
    BY <1>4, <1>5, <1>6
  <2> QED
    BY <2>1, <2>2, SameList
<1> QED
  BY <1>7 DEF w, place

(* So is one that both cut short, when the first ends with the image.      *)
LEMMA EndOfWindow ==
  ASSUME NEW image \in Seq(Nat), NEW at \in Nat, NEW length \in Nat, NEW from \in Nat, NEW n \in Nat,
         from <= Len(Window(image, at, length)), Len(Window(image, at, length)) < from + n,
         Len(image) <= at + Len(Window(image, at, length))
  PROVE  Window(Window(image, at, length), from, n) = Window(image, at + from, n)
<1> DEFINE w == Window(image, at, length)
           place == at + from
           rest == Len(w) - from
           a == Window(w, from, n)
           b == Window(image, place, n)
<1>1. /\ w \in Seq(Nat) /\ from <= Len(w) /\ Len(w) < from + n
      /\ Len(image) <= at + Len(w) /\ (Len(w) = 0 \/ at + Len(w) <= Len(image))
      /\ Len(w) \in Nat /\ \A i \in 1..Len(w) : w[i] = image[at + i]
  BY WindowIs
<1> HIDE DEF w
<1>2. /\ rest \in Nat /\ rest < n /\ Len(image) < place + n
      /\ (rest = 0 \/ place + rest <= Len(image)) /\ Len(image) <= place + rest
  BY <1>1
<1>3. ASSUME NEW i \in 1..rest PROVE from + i \in 1..Len(w) /\ at + (from + i) = place + i
  BY <1>1
<1> place \in Nat
  OBVIOUS
<1> HIDE DEF rest, place
<1>4. a \in Seq(Nat) /\ Len(a) = rest /\ \A i \in 1..rest : a[i] = w[from + i]
  <2>1. /\ a \in Seq(Nat) /\ \A i \in 1..Len(a) : a[i] = w[from + i]
        /\ Len(a) = IF from + n <= Len(w) THEN n ELSE IF from <= Len(w) THEN Len(w) - from ELSE 0
    BY <1>1, WindowIs
  <2> HIDE DEF a
  <2>2. Len(a) = rest
    BY <1>1, <1>2, <2>1 DEF rest
  <2> QED
    BY <2>1, <2>2
<1>5. b \in Seq(Nat) /\ Len(b) = rest /\ \A i \in 1..rest : b[i] = image[place + i]
  <2>1. /\ b \in Seq(Nat) /\ \A i \in 1..Len(b) : b[i] = image[place + i]
        /\ Len(b) = IF place + n <= Len(image) THEN n
                    ELSE IF place <= Len(image) THEN Len(image) - place ELSE 0
    BY WindowIs
  <2> HIDE DEF b
  <2>2. Len(b) = rest
    BY <1>2, <2>1
  <2> QED
    BY <2>1, <2>2
<1>6. \A i \in 1..rest : w[from + i] = image[place + i]
  BY <1>1, <1>3
<1>7. a = b
  <2> HIDE DEF a, b
  <2>1. a \in Seq(Nat) /\ b \in Seq(Nat) /\ Len(a) = Len(b)
    BY <1>4, <1>5
  <2>2. \A i \in 1..Len(a) : a[i] = b[i]
    BY <1>4, <1>5, <1>6
  <2> QED
    BY <2>1, <2>2, SameList
<1> QED
  BY <1>7 DEF w, place

(* What find_bytes finds.                                                  *)
LEMMA FindIs ==
  ASSUME NEW buffer \in Seq(Nat), NEW needle \in Seq(Nat)
  PROVE  /\ Places(buffer, needle) \in SUBSET Nat
         /\ \A p \in Places(buffer, needle) :
              p + Len(needle) <= Len(buffer) /\ Window(buffer, p, Len(needle)) = needle
         /\ FindBytes(buffer, needle) = NoEnd <=> Places(buffer, needle) = {}
         /\ Places(buffer, needle) # {} =>
              /\ FindBytes(buffer, needle) \in Places(buffer, needle)
              /\ \A p \in Places(buffer, needle) : FindBytes(buffer, needle) <= p
<1> DEFINE places == Places(buffer, needle)
<1>1. /\ places \in SUBSET Nat
      /\ \A p \in places : p + Len(needle) <= Len(buffer) /\ Window(buffer, p, Len(needle)) = needle
  BY DEF Places
<1> HIDE DEF places
<1>2. ASSUME places # {}
      PROVE  Min(places) \in places /\ \A p \in places : Min(places) <= p
  <2>1. \E x \in places : \A y \in places : x <= y
    BY <1>1, <1>2, LeastNumber
  <2> QED
    BY <2>1 DEF Min
<1>3. FindBytes(buffer, needle) = IF places = {} THEN NoEnd ELSE Min(places)
  BY DEF FindBytes, places
<1>4. places # {} => Min(places) # NoEnd
  BY <1>1, <1>2 DEF NoEnd
<1> QED
  BY <1>1, <1>2, <1>3, <1>4 DEF places

(* A header of the image that lies in a window is found there, and what is *)
(* found in a window is in the image.                                      *)
LEMMA PlacesInWindow ==
  ASSUME NEW image \in Seq(Nat), NEW at \in Nat, NEW length \in Nat, NEW needle \in Seq(Nat),
         Len(needle) > 0
  PROVE  LET w == Window(image, at, length)
         IN  /\ \A p \in Places(image, needle) :
                  (at <= p /\ p + Len(needle) <= at + Len(w)) => p - at \in Places(w, needle)
             /\ \A q \in Places(w, needle) :
                  at + q \in Places(image, needle) /\ at + q + Len(needle) <= at + Len(w)
<1> DEFINE w == Window(image, at, length)
           n == Len(needle)
<1>1. w \in Seq(Nat) /\ Len(w) \in Nat /\ n \in Nat /\ (Len(w) = 0 \/ at + Len(w) <= Len(image))
  BY WindowIs
<1>2. ASSUME NEW q \in Nat, q + n <= Len(w) PROVE Window(w, q, n) = Window(image, at + q, n)
  BY <1>2, WindowOfWindow
<1> HIDE DEF w
<1>3. ASSUME NEW p \in Places(image, needle), at <= p, p + n <= at + Len(w)
      PROVE  p - at \in Places(w, needle)
  <2>1. p \in Nat /\ Window(image, p, n) = needle
    BY FindIs
  <2>2. p - at \in Nat /\ (p - at) + n <= Len(w) /\ at + (p - at) = p
    BY <1>1, <1>3, <2>1
  <2>3. Window(w, p - at, n) = needle
    BY <1>2, <2>1, <2>2
  <2> QED
    BY <1>1, <2>2, <2>3 DEF Places
<1>4. ASSUME NEW q \in Places(w, needle)
      PROVE  at + q \in Places(image, needle) /\ at + q + n <= at + Len(w)
  <2>1. q \in Nat /\ q + n <= Len(w) /\ Window(w, q, n) = needle
    BY <1>1, FindIs
  <2>2. at + q \in 0..(Len(image) - n)
    BY <1>1, <2>1
  <2>3. Window(image, at + q, n) = needle
    BY <1>2, <2>1
  <2> QED
    BY <1>1, <2>1, <2>2, <2>3 DEF Places
<1> QED
  BY <1>3, <1>4 DEF w

(* A place is that of one signature only: the first cells differ.          *)
LEMMA OneSignature ==
  ASSUME NEW image \in Seq(Nat), NEW p, NEW i \in 1..10, NEW j \in 1..10,
         p \in Places(image, Signatures[i].header), p \in Places(image, Signatures[j].header)
  PROVE  i = j
<1>1. ASSUME NEW k \in 1..10, p \in Places(image, Signatures[k].header)
      PROVE  Signatures[k].header[1] = image[p + 1]
  <2> DEFINE header == Signatures[k].header
  <2>1. header \in Seq(Nat) /\ Len(header) \in {1, 2}
    BY SignaturesAre DEF IsSignature
  <2> HIDE DEF header
  <2>2. p \in Nat /\ Window(image, p, Len(header)) = header /\ p + Len(header) <= Len(image)
    BY <1>1, <2>1, FindIs DEF header
  <2>3. Window(image, p, Len(header))[1] = image[p + 1]
    <3> DEFINE w == Window(image, p, Len(header))
    <3>1. \A x \in 1..Len(w) : w[x] = image[p + x]
      BY <2>1, <2>2, WindowIs
    <3>2. w = header
      BY <2>2
    <3> HIDE DEF w
    <3> QED
      BY <2>1, <3>1, <3>2 DEF w
  <2> QED
    BY <2>2, <2>3 DEF header
<1>2. Signatures[i].header[1] = image[p + 1] /\ Signatures[j].header[1] = image[p + 1]
  BY <1>1
<1> QED
  BY <1>2, SignaturesDiffer

(* The lengths of what tells a signature.                                  *)
LEMMA HeaderLengths ==
  ASSUME NEW i \in 1..10
  PROVE  /\ Signatures[i].header \in Seq(Nat) /\ Len(Signatures[i].header) \in {1, 2}
         /\ Signatures[i].sub \in Seq(Nat) /\ Len(Signatures[i].sub) \in Nat
<1> DEFINE s == Signatures[i]
           header == s.header
           sub == s.sub
<1>1. IsSignature(s)
  BY SignaturesAre
<1>2. header \in Seq(Nat) /\ Len(header) \in {1, 2} /\ sub \in Seq(Nat)
  BY <1>1, Zenon DEF IsSignature
<1> HIDE DEF header, sub
<1>3. Len(sub) \in Nat
  BY <1>2
<1> QED
  BY <1>2, <1>3 DEF header, sub

(* How far a signature is looked at.                                       *)
LEMMA ReachIs ==
  ASSUME NEW i \in 1..10
  PROVE  LET s == Signatures[i]
         IN  /\ Reach(s) \in Nat /\ Reach(s) >= Len(s.header) /\ Len(s.header) \in Nat
             /\ s.sub = <<>> => Reach(s) \in {1, 2}
             /\ s.sub # <<>> => Reach(s) = Len(s.header) + 1 + Len(s.sub)
<1> DEFINE s == Signatures[i]
           h == Len(s.header)
           l == Len(s.sub)
<1>1. h \in {1, 2} /\ l \in Nat
  BY HeaderLengths
<1>2. Reach(s) = h + (IF s.sub = <<>> THEN 0 ELSE 1 + l)
  BY DEF Reach
<1> HIDE DEF h, l
<1>3. Reach(s) \in Nat /\ Reach(s) >= h /\ h \in Nat
  BY <1>1, <1>2
<1>4. s.sub = <<>> => Reach(s) \in {1, 2}
  BY <1>1, <1>2
<1>5. s.sub # <<>> => Reach(s) = h + 1 + l
  BY <1>1, <1>2
<1> QED
  BY <1>3, <1>4, <1>5 DEF h, l

(* What follows a header in a window that reaches so far follows it in the *)
(* image.                                                                  *)
LEMMA SubInWindow ==
  ASSUME NEW image \in Seq(Nat), NEW at \in Nat, NEW length \in Nat, NEW q \in Nat, NEW i \in 1..10,
         q + Reach(Signatures[i]) <= Len(Window(image, at, length))
  PROVE  SubFollows(Window(image, at, length), q, Signatures[i])
           <=> SubFollows(image, at + q, Signatures[i])
<1> DEFINE s == Signatures[i]
           w == Window(image, at, length)
           n == Len(w)
           h == Len(s.header)
           l == Len(s.sub)
           from == q + h + 1
<1>1. CASE s.sub = <<>>
  BY <1>1 DEF SubFollows
<1>2. CASE s.sub # <<>>
  <2>1. h \in Nat /\ l \in Nat /\ n \in Nat
    <3>1. h \in Nat
      BY ReachIs
    <3>2. l \in Nat
      BY HeaderLengths
    <3>3. n \in Nat
      BY WindowIs
    <3> QED
      BY <3>1, <3>2, <3>3
  <2>2. from \in Nat /\ from + l <= n
    <3>1. Reach(s) = h + 1 + l
      BY <1>2, ReachIs
    <3>2. q + Reach(s) <= n
      OBVIOUS
    <3> HIDE DEF h, l, n
    <3> QED
      BY <2>1, <3>1, <3>2
  <2>3. Window(w, from, l) = Window(image, at + from, l)
    <3>1. from \in Nat /\ l \in Nat /\ from + l <= Len(Window(image, at, length))
      BY <2>1, <2>2
    <3> HIDE DEF from, l
    <3> QED
      BY <3>1, WindowOfWindow
  <2>4. at + from = (at + q) + h + 1
    <3> HIDE DEF h
    <3> QED
      BY <2>1
  <2>5. SubFollows(w, q, s) <=> Window(w, from, l) = s.sub
    BY <1>2, Zenon DEF SubFollows
  <2>6. SubFollows(image, at + q, s) <=> Window(image, (at + q) + h + 1, l) = s.sub
    BY <1>2, Zenon DEF SubFollows
  <2> HIDE DEF w, h, l, from
  <2> QED
    BY <2>3, <2>4, <2>5, <2>6, Zenon DEF w
<1> QED
  BY <1>1, <1>2

(* What find_next_signature finds: the first of the matches, and of every  *)
(* signature the first place of its header, when its second part follows.  *)
LEMMA MatchesAre ==
  ASSUME NEW buffer \in Seq(Nat)
  PROVE  LET matches == SignatureMatches(buffer)
         IN  /\ \A m \in matches : m[2] \in 1..10 /\ m[1] \in Places(buffer, Signatures[m[2]].header)
             /\ \A i \in 1..10 : \A p \in Places(buffer, Signatures[i].header) :
                  (\A q \in Places(buffer, Signatures[i].header) :
                     q <= p => SubFollows(buffer, q, Signatures[i]))
                  => \E m \in matches : m[1] <= p
             /\ matches # {} => /\ FirstMatch(matches) \in matches
                                /\ \A m \in matches : FirstMatch(matches)[1] <= m[1]
<1> DEFINE matches == SignatureMatches(buffer)
           At(i) == FindBytes(buffer, Signatures[i].header)
           HeaderFits(i) == At(i) # NoEnd /\ SubFollows(buffer, At(i), Signatures[i])
<1>1. matches = {<<At(i), i>> : i \in {i \in 1..10 : HeaderFits(i)}}
  BY SignaturesAre DEF SignatureMatches
<1>2. \A i \in 1..10 : Signatures[i].header \in Seq(Nat)
  BY SignaturesAre DEF IsSignature
<1>3. \A i \in 1..10 : At(i) # NoEnd => At(i) \in Places(buffer, Signatures[i].header)
  BY <1>2, FindIs
<1>4. \A i \in 1..10 : Places(buffer, Signatures[i].header) \in SUBSET Nat
  BY <1>2, FindIs
<1>5. \A i \in 1..10 : \A p \in Places(buffer, Signatures[i].header) : At(i) # NoEnd /\ At(i) <= p
  BY <1>2, FindIs
<1> HIDE DEF At
<1>6. ASSUME NEW m \in matches
      PROVE  /\ m[2] \in 1..10 /\ m[1] \in Places(buffer, Signatures[m[2]].header)
             /\ m[1] \in Nat /\ m = <<m[1], m[2]>>
  <2>1. PICK i \in 1..10 : HeaderFits(i) /\ m = <<At(i), i>>
    BY <1>1
  <2> QED
    BY <1>3, <1>4, <2>1
<1>7. ASSUME NEW i \in 1..10, NEW p \in Places(buffer, Signatures[i].header),
             \A q \in Places(buffer, Signatures[i].header) : q <= p => SubFollows(buffer, q, Signatures[i])
      PROVE  \E m \in matches : m[1] <= p
  <2>1. HeaderFits(i) /\ At(i) <= p
    BY <1>3, <1>5, <1>7
  <2>2. <<At(i), i>> \in matches
    BY <1>1, <2>1
  <2> QED
    BY <2>1, <2>2
<1> HIDE DEF matches, HeaderFits
<1>8. ASSUME matches # {}
      PROVE  /\ FirstMatch(matches) \in matches
             /\ \A m \in matches : FirstMatch(matches)[1] <= m[1]
  <2> DEFINE ps == {m[1] : m \in matches}
             a == Min(ps)
             is == {m[2] : m \in {m \in matches : m[1] = a}}
             b == Min(is)
  <2>1. ps \in SUBSET Nat /\ ps # {}
    BY <1>6, <1>8
  <2>2. a \in ps /\ \A p \in ps : a <= p
    <3>1. \E x \in ps : \A y \in ps : x <= y
      <4> HIDE DEF ps
      <4> QED
        BY <2>1, LeastNumber
    <3> QED
      BY <3>1 DEF Min
  <2> HIDE DEF a
  <2>3. is \in SUBSET Nat /\ is # {}
    <3>1. is # {}
      BY <2>2
    <3>2. \A m \in matches : m[2] \in Nat
      BY <1>6
    <3> QED
      BY <3>1, <3>2
  <2>4. b \in is /\ \A i \in is : b <= i
    <3>1. \E x \in is : \A y \in is : x <= y
      <4> HIDE DEF is
      <4> QED
        BY <2>3, LeastNumber
    <3> QED
      BY <3>1 DEF Min
  <2> HIDE DEF b
  <2>5. <<a, b>> \in matches
    <3>1. PICK m \in matches : m[1] = a /\ m[2] = b
      BY <2>4
    <3> QED
      BY <1>6, <3>1
  <2>6. \A n \in matches : a < n[1] \/ (a = n[1] /\ b <= n[2])
    <3> SUFFICES ASSUME NEW n \in matches PROVE a < n[1] \/ (a = n[1] /\ b <= n[2])
      OBVIOUS
    <3>1. a \in Nat /\ n[1] \in Nat /\ a <= n[1]
      BY <1>6, <2>1, <2>2
    <3>2. n[1] = a => b <= n[2]
      BY <2>4
    <3> QED
      BY <3>1, <3>2
  <2> DEFINE First(m) == \A n \in matches : m[1] < n[1] \/ (m[1] = n[1] /\ m[2] <= n[2])
  <2>7. FirstMatch(matches) = CHOOSE m \in matches : First(m)
    BY DEF FirstMatch
  <2>8. First(<<a, b>>)
    BY <2>6
  <2>9. FirstMatch(matches) \in matches /\ First(FirstMatch(matches))
    <3> HIDE DEF First
    <3> QED
      BY <2>5, <2>7, <2>8
  <2> QED
    BY <1>6, <2>9
<1> QED
  BY <1>6, <1>7, <1>8 DEF matches

(* The windows of a scan overlap by a signature at least, and hold whole   *)
(* pages.                                                                  *)
LEMMA Lengths ==
  /\ CarvingChunkSize \in Nat \ {0} /\ ErasedPageSize \in Nat \ {0} /\ MinSegmentSize \in Nat \ {0}
  /\ FragmentGapMinSize \in Nat \ {0} /\ CarvingOverlapSize \in Nat
  /\ MaxRemovableGaps \in Nat /\ MaxAssemblySegments \in Nat /\ MaxFragmentGapCandidates \in Nat
  /\ CarvingChunkSize % ErasedPageSize = 0 /\ CarvingOverlapSize < CarvingChunkSize
  /\ \A i \in 1..10 : Reach(Signatures[i]) <= CarvingOverlapSize
<1>1. WindowsOverlap
  BY CarvingAssumption
<1>2. \A s \in Range(Signatures) : Reach(s) <= CarvingOverlapSize
  BY <1>1 DEF WindowsOverlap
<1> QED
  BY <1>1, <1>2, SignaturesAre DEF WindowsOverlap

(* In an image without an erased page no window is skipped.                *)
LEMMA NothingIsSkipped ==
  ASSUME NEW image \in Seq(Nat), NEW at \in Nat, NoErasedPage(image),
         Window(image, at, CarvingChunkSize) # <<>>
  PROVE  ~SkipsWindow(Window(image, at, CarvingChunkSize))
<1> DEFINE w == Window(image, at, CarvingChunkSize)
           n == Len(w)
           P == ErasedPageSize
           c == CarvingChunkSize \div P
           Page(k) == Window(w, k * P, P)
           AllErased(bytes) == Range(bytes) = {Erased}
           zero == Cardinality({k \in 0..((n - 1) \div P) : AllErased(Page(k))})
<1>1. P \in Nat \ {0} /\ CarvingChunkSize \in Nat \ {0} /\ c \in Nat /\ CarvingChunkSize = P * c
  <2>1. CarvingChunkSize \div P \in Nat /\ CarvingChunkSize = P * (CarvingChunkSize \div P) + (CarvingChunkSize % P)
    <3>1. P \in Nat \ {0} /\ CarvingChunkSize \in Nat
      BY Lengths
    <3> QED
      BY <3>1, DivMod
  <2> QED
    BY <2>1, Lengths
<1>2. c # 0
  BY <1>1
<1>3. P \in Nat /\ P >= 1 /\ CarvingChunkSize \in Nat /\ CarvingChunkSize >= P
  <2>1. P * c >= P * 1
    BY <1>1, <1>2, ProductGrows
  <2> QED
    BY <1>1, <2>1
<1>4. /\ w \in Seq(Nat) /\ n \in Nat /\ n > 0 /\ at + n <= Len(image) /\ n <= CarvingChunkSize
      /\ n = CarvingChunkSize \/ (n < CarvingChunkSize /\ Len(image) <= at + n)
      /\ \A i \in 1..n : w[i] = image[at + i]
  <2>1. /\ w \in Seq(Nat) /\ n \in Nat
        /\ n = IF at + CarvingChunkSize <= Len(image) THEN CarvingChunkSize
               ELSE IF at <= Len(image) THEN Len(image) - at ELSE 0
        /\ \A i \in 1..n : w[i] = image[at + i]
    <3>1. CarvingChunkSize \in Nat
      BY <1>3
    <3> QED
      BY <3>1, WindowIs
  <2>2. n # 0
    BY <2>1
  <2> QED
    BY <1>3, <2>1, <2>2
<1> HIDE DEF w
<1>5. ASSUME NEW from \in 0..(n - 1) PROVE ~AllErased(Window(image, at + from, P))
  <2>1. at + from \in 0..(Len(image) - 1)
    BY <1>4
  <2> QED
    BY <2>1 DEF NoErasedPage
<1>6. ~AllErased(w)
  <2> SUFFICES ASSUME AllErased(w) PROVE FALSE
    OBVIOUS
  <2> DEFINE page == Window(image, at, P)
  <2>1. /\ Len(page) \in 1..n /\ DOMAIN page = 1..Len(page)
        /\ \A i \in 1..Len(page) : page[i] = image[at + i]
    <3>1. /\ Len(page) \in Nat /\ DOMAIN page = 1..Len(page)
          /\ Len(page) = IF at + P <= Len(image) THEN P ELSE IF at <= Len(image) THEN Len(image) - at ELSE 0
          /\ \A i \in 1..Len(page) : page[i] = image[at + i]
      BY <1>3, WindowIs
    <3> HIDE DEF page
    <3>2. Len(page) <= n
      BY <1>3, <1>4, <3>1
    <3>3. Len(page) >= 1
      BY <1>3, <1>4, <3>1
    <3> QED
      BY <3>1, <3>2, <3>3
  <2> HIDE DEF page
  <2>2. \A i \in 1..n : w[i] = Erased
    <3>1. DOMAIN w = 1..n
      BY <1>4
    <3> QED
      BY <3>1 DEF Range
  <2>3. \A i \in 1..Len(page) : page[i] = Erased
    <3> SUFFICES ASSUME NEW i \in 1..Len(page) PROVE page[i] = Erased
      OBVIOUS
    <3>1. i \in 1..n
      BY <1>4, <2>1
    <3> QED
      BY <1>4, <2>1, <2>2, <3>1
  <2>4. 1 \in DOMAIN page
    BY <2>1
  <2>5. AllErased(page)
    BY <2>1, <2>3, <2>4 DEF Range
  <2>6. at + 0 = at /\ 0 \in 0..(n - 1)
    BY <1>4
  <2> QED
    BY <1>5, <2>5, <2>6 DEF page
<1>7. ASSUME NEW k \in 0..((n - 1) \div P) PROVE ~AllErased(Page(k))
  <2> DEFINE from == k * P
             page == Window(image, at + from, P)
  <2>1. k \in Nat /\ from \in 0..(n - 1)
    <3> DEFINE m == (n - 1) \div P
               r == (n - 1) % P
    <3>1. n - 1 \in Nat
      BY <1>4
    <3>2. m \in Nat /\ r \in 0..(P - 1) /\ n - 1 = P * m + r
      BY <1>1, <3>1, DivMod
    <3> HIDE DEF m, r
    <3>3. k \in Nat /\ m >= k
      BY <3>2 DEF m
    <3>4. P * m >= P * k
      BY <1>1, <3>2, <3>3, ProductGrows
    <3>5. from = P * k /\ P * k \in Nat /\ P * m \in Nat
      BY <1>1, <3>2, <3>3
    <3> QED
      BY <3>2, <3>3, <3>4, <3>5
  <2>2. from + P <= n \/ (n < from + P /\ Len(image) <= at + n)
    <3> DEFINE full == P * c
               next == P * (k + 1)
    <3>1. /\ P \in Nat \ {0} /\ c \in Nat /\ k \in Nat /\ k + 1 \in Nat /\ from \in Nat /\ from <= n - 1
          /\ n \in Nat
      BY <1>1, <1>4, <2>1
    <3>2. full \in Nat /\ next \in Nat /\ next = from + P /\ P * k = from
      BY <3>1
    <3>3. k >= c => from >= full
      BY <3>1, <3>2, ProductGrows
    <3>4. c >= k + 1 => full >= next
      <4> HIDE DEF from
      <4> QED
        BY <3>1, ProductGrows
    <3>5. n = full \/ Len(image) <= at + n
      BY <1>1, <1>4
    <3> HIDE DEF full, next, from
    <3>6. CASE n = full
      <4>1. c >= k + 1
        BY <3>1, <3>2, <3>3, <3>6
      <4> QED
        BY <3>1, <3>2, <3>4, <3>6, <4>1
    <3>7. CASE Len(image) <= at + n
      BY <3>1, <3>7
    <3> QED
      BY <3>5, <3>6, <3>7
  <2> HIDE DEF from
  <2>3. Window(w, from, P) = page
    <3>1. CASE from + P <= n
      <4>1. from \in Nat /\ from + P <= Len(Window(image, at, CarvingChunkSize))
        BY <2>1, <3>1 DEF w
      <4>2. P \in Nat /\ CarvingChunkSize \in Nat
        BY <1>3
      <4> QED
        BY <4>1, <4>2, WindowOfWindow DEF w
    <3>2. CASE n < from + P /\ Len(image) <= at + n
      <4>1. from \in Nat /\ P \in Nat /\ CarvingChunkSize \in Nat
        BY <1>3, <2>1
      <4>2. /\ from <= Len(Window(image, at, CarvingChunkSize))
            /\ Len(Window(image, at, CarvingChunkSize)) < from + P
            /\ Len(image) <= at + Len(Window(image, at, CarvingChunkSize))
        BY <2>1, <3>2 DEF w
      <4> QED
        BY <4>1, <4>2, EndOfWindow DEF w
    <3> QED
      BY <2>2, <3>1, <3>2
  <2> QED
    BY <1>5, <2>1, <2>3 DEF from
<1>8. zero = 0
  <2>1. {k \in 0..((n - 1) \div P) : AllErased(Page(k))} = {}
    BY <1>7
  <2> QED
    BY <2>1, FS_EmptySet
<1> HIDE DEF zero, AllErased
<1>9. n >= P => ~((zero * 100) \div (n \div P) > 80)
  <2> SUFFICES ASSUME n >= P PROVE (0 * 100) \div (n \div P) = 0
    BY <1>8
  <2> DEFINE m == n \div P
  <2>1. m \in Nat /\ n = P * m + (n % P) /\ n % P \in 0..(P - 1)
    BY <1>1, <1>4, DivMod
  <2>2. m # 0
    BY <1>1, <1>4, <2>1
  <2> HIDE DEF m
  <2>3. (m * 0 + 0) \div m = 0
    BY <2>1, <2>2, DivUnique
  <2>4. m * 0 + 0 = 0 * 100
    BY <2>1
  <2> QED
    BY <2>3, <2>4 DEF m
<1>10. SkipsWindow(w) <=> \/ AllErased(w)
                          \/ n >= P /\ (zero * 100) \div (n \div P) > 80
  BY DEF SkipsWindow, AllErased, zero
<1> QED
  BY <1>6, <1>9, <1>10 DEF w

-------------------------------------------------------------------------------
(* Walks through an image.                                                 *)

(* The larger of two numbers.                                              *)
LEMMA MaxOfTwo ==
  ASSUME NEW a \in Int, NEW b \in Int
  PROVE  Max({a, b}) = IF a >= b THEN a ELSE b
BY DEF Max

(* A walk that only goes forward and ends at a bound: the recursive        *)
(* functions of the module are of this form.  "T" is where it stops.       *)
Walk(D, bound, T, base, next, wrap) ==
  /\ bound \in Nat /\ T \in SUBSET Nat /\ \A n \in Nat : n >= bound => n \in T
  /\ base \in [Nat -> D] /\ wrap \in [Nat \X D -> D]
  /\ next \in [Nat -> Nat] /\ \A n \in Nat \ T : next[n] > n

LEMMA Unwinds ==
  ASSUME NEW D, NEW bound, NEW T, NEW base, NEW next, NEW wrap, Walk(D, bound, T, base, next, wrap)
  PROVE  \E f \in [Nat -> D] :
           \A n \in Nat : f[n] = IF n \in T THEN base[n] ELSE wrap[<<n, f[next[n]]>>]
<1> USE DEF Walk
<1> DEFINE Right(f, n) == f[n] = IF n \in T THEN base[n] ELSE wrap[<<n, f[next[n]]>>]
           Unwound(m) == \E f \in [Nat -> D] : \A n \in Nat : n + m >= bound => Right(f, n)
           failing == {m \in Nat : ~Unwound(m)}
<1>1. SUFFICES ASSUME failing # {} PROVE FALSE
  <2>1. bound \notin failing => Unwound(bound)
    OBVIOUS
  <2>2. \A n \in Nat : n + bound >= bound
    OBVIOUS
  <2> QED
    BY <2>1, <2>2
<1>2. PICK m \in failing : \A k \in failing : m <= k
  <2>1. failing \in SUBSET Nat
    OBVIOUS
  <2> HIDE DEF failing
  <2> QED
    BY <1>1, <2>1, LeastNumber
<1>3. m \in Nat /\ ~Unwound(m)
  OBVIOUS
<1>4. m # 0
  <2>1. \A n \in Nat : n + 0 >= bound => Right(base, n)
    OBVIOUS
  <2> QED
    BY <1>3, <2>1
<1>5. Unwound(m - 1)
  <2>1. m - 1 \in Nat /\ ~(m <= m - 1)
    BY <1>3, <1>4
  <2>2. m - 1 \notin failing
    BY <1>2, <2>1
  <2> QED
    BY <2>1, <2>2
<1>6. PICK f \in [Nat -> D] : \A n \in Nat : n + (m - 1) >= bound => Right(f, n)
  BY <1>5
<1> DEFINE Late(n) == n + (m - 1) >= bound
           g == [n \in Nat |-> IF Late(n) THEN f[n]
                               ELSE IF n \in T THEN base[n] ELSE wrap[<<n, f[next[n]]>>]]
<1>7. g \in [Nat -> D]
  <2> SUFFICES ASSUME NEW n \in Nat PROVE wrap[<<n, f[next[n]]>>] \in D /\ f[n] \in D /\ base[n] \in D
    OBVIOUS
  <2>1. next[n] \in Nat
    OBVIOUS
  <2>2. <<n, f[next[n]]>> \in Nat \X D
    BY <2>1
  <2> QED
    BY <2>2
<1>8. ASSUME NEW n \in Nat, n + m >= bound PROVE Right(g, n)
  <2>1. CASE n \in T
    <3>1. g[n] = IF Late(n) THEN f[n] ELSE base[n]
      BY <2>1
    <3>2. Late(n) => f[n] = base[n]
      BY <1>6, <2>1
    <3> QED
      BY <2>1, <3>1, <3>2
  <2>2. CASE n \notin T
    <3>1. next[n] \in Nat /\ next[n] > n
      BY <2>2
    <3>2. Late(next[n])
      BY <1>3, <1>8, <3>1
    <3>3. g[next[n]] = f[next[n]]
      BY <3>1, <3>2
    <3>4. g[n] = IF Late(n) THEN f[n] ELSE wrap[<<n, f[next[n]]>>]
      BY <2>2
    <3>5. Late(n) => f[n] = wrap[<<n, f[next[n]]>>]
      BY <1>6, <2>2
    <3> QED
      BY <2>2, <3>3, <3>4, <3>5
  <2> QED
    BY <2>1, <2>2
<1> HIDE DEF g, Right
<1>9. Unwound(m)
  BY <1>7, <1>8
<1> QED
  BY <1>3, <1>9

(* What holds at a place when it holds at every later one, holds at all,   *)
(* if it holds from a bound on.                                            *)
LEMMA Backwards ==
  ASSUME NEW G \in SUBSET Nat, NEW bound \in Nat, \A n \in Nat : n >= bound => n \in G,
         \A n \in Nat : (\A k \in Nat : k > n => k \in G) => n \in G
  PROVE  G = Nat
<1> DEFINE Late(m) == \A n \in Nat : n + m >= bound => n \in G
           failing == {m \in Nat : ~Late(m)}
<1>1. SUFFICES ASSUME failing # {} PROVE FALSE
  <2>1. bound \notin failing => Late(bound)
    OBVIOUS
  <2>2. \A n \in Nat : n + bound >= bound
    OBVIOUS
  <2> QED
    BY <2>1, <2>2
<1>2. PICK m \in failing : \A k \in failing : m <= k
  <2>1. failing \in SUBSET Nat
    OBVIOUS
  <2> HIDE DEF failing
  <2> QED
    BY <1>1, <2>1, LeastNumber
<1>3. m \in Nat /\ ~Late(m)
  OBVIOUS
<1>4. m # 0
  BY <1>3
<1>5. Late(m - 1)
  <2>1. m - 1 \in Nat /\ ~(m <= m - 1)
    BY <1>3, <1>4
  <2>2. m - 1 \notin failing
    BY <1>2, <2>1
  <2> QED
    BY <2>1, <2>2
<1>6. ASSUME NEW n \in Nat, n + m >= bound PROVE n \in G
  <2>1. \A k \in Nat : k > n => k + (m - 1) >= bound
    BY <1>3, <1>6
  <2>2. \A k \in Nat : k > n => k \in G
    BY <1>5, <2>1
  <2> QED
    BY <2>2
<1> QED
  BY <1>3, <1>6

(* The atoms of a container: the walk is cut to the limit.                 *)
LEMMA ContainerEnds ==
  ASSUME NEW image \in Seq(Nat), NEW start \in Nat, NEW limit \in Nat
  PROVE  ContainerEnd(image, start, limit) \in Int /\ ContainerEnd(image, start, limit) <= limit
<1> DEFINE Stops(at) == at >= limit \/ at + 1 >= Len(image)
           AtomStarts(at) == at + 1 < Len(image) /\ CellAt(image, at) >= 2
           Data(at) == CellAt(image, at + 1) \in {62, 63}
           Step(f) == [at \in Nat |->
             IF at >= limit \/ at + 1 >= Len(image) THEN <<at, FALSE>>
             ELSE IF CellAt(image, at) = 0 THEN <<limit, TRUE>>
             ELSE IF ~AtomStarts(at) THEN <<at, FALSE>>
             ELSE <<f[at + CellAt(image, at)][1], f[at + CellAt(image, at)][2] \/ CellAt(image, at + 1) \in {62, 63}>>]
           walk == CHOOSE f : f = Step(f)
           D == Nat \X BOOLEAN
           T == {at \in Nat : Stops(at) \/ CellAt(image, at) = 0 \/ ~AtomStarts(at)}
           base == [at \in Nat |-> IF Stops(at) THEN <<at, FALSE>>
                                   ELSE IF CellAt(image, at) = 0 THEN <<limit, TRUE>> ELSE <<at, FALSE>>]
           next == [at \in Nat |-> IF at \in T THEN at ELSE at + CellAt(image, at)]
           wrap == [p \in Nat \X D |-> <<p[2][1], p[2][2] \/ Data(p[1])>>]
<1>1. ContainerEnd(image, start, limit)
        = IF walk[start][2] \/ walk[start][1] > start + 4 THEN Min({walk[start][1], limit}) ELSE NoEnd
  BY DEF ContainerEnd
<1>2. \A at \in Nat : ~Stops(at) => CellAt(image, at) \in Nat /\ at < limit
  <2> SUFFICES ASSUME NEW at \in Nat, ~Stops(at) PROVE CellAt(image, at) \in Nat
    OBVIOUS
  <2>1. at + 1 \in 1..Len(image)
    OBVIOUS
  <2> QED
    BY <2>1 DEF CellAt
<1>3. /\ T \in SUBSET Nat /\ \A n \in Nat : n >= limit => n \in T
      /\ \A n \in Nat \ T : ~Stops(n) /\ CellAt(image, n) \in Nat /\ CellAt(image, n) >= 2
  BY <1>2
<1>4. base \in [Nat -> D]
  OBVIOUS
<1>5. next \in [Nat -> Nat] /\ \A n \in Nat \ T : next[n] > n
  <2> HIDE DEF T
  <2> QED
    BY <1>3
<1>6. wrap \in [Nat \X D -> D]
  OBVIOUS
<1>7. \E f \in [Nat -> D] : f = Step(f)
  <2> HIDE DEF D, T, base, next, wrap
  <2>1. PICK f \in [Nat -> D] :
          \A n \in Nat : f[n] = IF n \in T THEN base[n] ELSE wrap[<<n, f[next[n]]>>]
    <3>1. Walk(D, limit, T, base, next, wrap)
      BY <1>3, <1>4, <1>5, <1>6 DEF Walk
    <3> QED
      BY <3>1, Unwinds
  <2>2. ASSUME NEW n \in Nat PROVE f[n] = Step(f)[n]
    <3>1. CASE n \in T
      <4>1. f[n] = base[n]
        BY <2>1, <3>1
      <4> QED
        BY <3>1, <4>1 DEF T, base
    <3>2. CASE n \notin T
      <4>1. next[n] = n + CellAt(image, n) /\ next[n] \in Nat
        BY <1>5, <3>2 DEF next
      <4>2. f[next[n]] \in D
        BY <4>1
      <4>3. wrap[<<n, f[next[n]]>>] = <<f[next[n]][1], f[next[n]][2] \/ Data(n)>>
        BY <4>2 DEF wrap
      <4>4. f[n] = <<f[next[n]][1], f[next[n]][2] \/ Data(n)>>
        BY <2>1, <3>2, <4>3
      <4> QED
        BY <3>2, <4>1, <4>4 DEF T
    <3> QED
      BY <3>1, <3>2
  <2>3. f = Step(f)
    <3>1. Step(f) = [n \in Nat |-> Step(f)[n]] /\ f = [n \in Nat |-> f[n]]
      OBVIOUS
    <3> HIDE DEF Step
    <3> QED
      BY <2>2, <3>1
  <2> QED
    BY <2>3
<1>8. walk = Step(walk)
  <2> HIDE DEF Step
  <2> QED
    BY <1>7
<1> DEFINE G == {n \in Nat : walk[n][1] \in Nat}
<1>9. G = Nat
  <2> HIDE DEF walk
  <2>1. \A n \in Nat : n >= limit => n \in G
    BY <1>8
  <2>2. ASSUME NEW n \in Nat, \A k \in Nat : k > n => k \in G PROVE n \in G
    <3>1. CASE Stops(n) \/ CellAt(image, n) = 0 \/ ~AtomStarts(n)
      <4>1. walk[n] = <<n, FALSE>> \/ walk[n] = <<limit, TRUE>>
        BY <1>8, <3>1
      <4>2. <<n, FALSE>>[1] = n /\ <<limit, TRUE>>[1] = limit
        OBVIOUS
      <4>3. walk[n][1] = n \/ walk[n][1] = limit
        BY <4>1, <4>2, Zenon
      <4> QED
        BY <4>3
    <3>2. CASE ~(Stops(n) \/ CellAt(image, n) = 0 \/ ~AtomStarts(n))
      <4>1. n + CellAt(image, n) \in Nat /\ n + CellAt(image, n) > n
        BY <1>2, <3>2
      <4>2. walk[n][1] = walk[n + CellAt(image, n)][1]
        <5> DEFINE to == n + CellAt(image, n)
                   data == walk[to][2] \/ CellAt(image, n + 1) \in {62, 63}
        <5>1. walk[n] = Step(walk)[n]
          BY <1>8
        <5>2. Step(walk)[n] = <<walk[to][1], data>>
          BY <3>2
        <5> HIDE DEF data, to, Step
        <5>3. <<walk[to][1], data>>[1] = walk[to][1]
          OBVIOUS
        <5> QED
          BY <5>1, <5>2, <5>3 DEF to
      <4> QED
        BY <2>2, <4>1, <4>2
    <3> QED
      BY <3>1, <3>2
  <2>3. G \in SUBSET Nat
    OBVIOUS
  <2> HIDE DEF G
  <2> QED
    BY <2>1, <2>2, <2>3, Backwards
<1>10. walk[start][1] \in Nat
  BY <1>9
<1> HIDE DEF walk
<1> DEFINE end == walk[start][1]
<1>11. end \in Nat
  BY <1>10
<1> HIDE DEF end
<1>12. Min({end, limit}) = IF end <= limit THEN end ELSE limit
  BY <1>11, MinOfTwo
<1> QED
  BY <1>1, <1>11, <1>12 DEF NoEnd, end

(* The frames of an MP3 file: the walk is cut to the limit.                *)
LEMMA Mp3Ends ==
  ASSUME NEW image \in Seq(Nat), NEW start \in Nat, NEW limit \in Nat
  PROVE  Mp3End(image, start, limit) \in Int /\ Mp3End(image, start, limit) <= limit
<1> DEFINE Stops(at) == at >= limit \/ at + 1 >= Len(image)
           NoFrame(at) == CellAt(image, at) # 96 \/ CellAt(image, at + 1) < 2
           Step(f) == [at \in Nat |->
             IF at >= limit \/ at + 1 >= Len(image) THEN <<at, 0>>
             ELSE IF NoFrame(at) THEN <<at, 0>>
             ELSE <<f[at + CellAt(image, at + 1)][1], f[at + CellAt(image, at + 1)][2] + 1>>]
           walk == CHOOSE f : f = Step(f)
           tag == IF start + 1 < Len(image) THEN start + 2 + CellAt(image, start + 1) ELSE start
           D == Nat \X Nat
           T == {at \in Nat : Stops(at) \/ NoFrame(at)}
           base == [at \in Nat |-> <<at, 0>>]
           next == [at \in Nat |-> IF at \in T THEN at ELSE at + CellAt(image, at + 1)]
           wrap == [p \in Nat \X D |-> <<p[2][1], p[2][2] + 1>>]
<1>1. Mp3End(image, start, limit) = IF walk[tag][2] >= 3 THEN Min({walk[tag][1], limit}) ELSE NoEnd
  BY DEF Mp3End
<1>2. \A at \in Nat : at + 1 < Len(image) => CellAt(image, at + 1) \in Nat
  <2> SUFFICES ASSUME NEW at \in Nat, at + 1 < Len(image) PROVE CellAt(image, at + 1) \in Nat
    OBVIOUS
  <2>1. (at + 1) + 1 \in 1..Len(image)
    OBVIOUS
  <2> QED
    BY <2>1 DEF CellAt
<1>3. /\ T \in SUBSET Nat /\ \A n \in Nat : n >= limit => n \in T
      /\ \A n \in Nat \ T : ~Stops(n) /\ CellAt(image, n + 1) \in Nat /\ CellAt(image, n + 1) >= 2
  BY <1>2
<1>4. base \in [Nat -> D]
  OBVIOUS
<1>5. next \in [Nat -> Nat] /\ \A n \in Nat \ T : next[n] > n
  <2> HIDE DEF T
  <2> QED
    BY <1>3
<1>6. wrap \in [Nat \X D -> D]
  OBVIOUS
<1>7. \E f \in [Nat -> D] : f = Step(f)
  <2> HIDE DEF D, T, base, next, wrap
  <2>1. PICK f \in [Nat -> D] :
          \A n \in Nat : f[n] = IF n \in T THEN base[n] ELSE wrap[<<n, f[next[n]]>>]
    <3>1. Walk(D, limit, T, base, next, wrap)
      BY <1>3, <1>4, <1>5, <1>6 DEF Walk
    <3> QED
      BY <3>1, Unwinds
  <2>2. ASSUME NEW n \in Nat PROVE f[n] = Step(f)[n]
    <3>1. CASE n \in T
      <4>1. f[n] = base[n]
        BY <2>1, <3>1
      <4> QED
        BY <3>1, <4>1 DEF T, base
    <3>2. CASE n \notin T
      <4>1. next[n] = n + CellAt(image, n + 1) /\ next[n] \in Nat
        BY <1>5, <3>2 DEF next
      <4>2. f[next[n]] \in D
        BY <4>1
      <4>3. wrap[<<n, f[next[n]]>>] = <<f[next[n]][1], f[next[n]][2] + 1>>
        BY <4>2 DEF wrap
      <4>4. f[n] = <<f[next[n]][1], f[next[n]][2] + 1>>
        BY <2>1, <3>2, <4>3
      <4> QED
        BY <3>2, <4>1, <4>4 DEF T
    <3> QED
      BY <3>1, <3>2
  <2>3. f = Step(f)
    <3>1. Step(f) = [n \in Nat |-> Step(f)[n]] /\ f = [n \in Nat |-> f[n]]
      OBVIOUS
    <3> HIDE DEF Step
    <3> QED
      BY <2>2, <3>1
  <2> QED
    BY <2>3
<1>8. walk = Step(walk)
  <2> HIDE DEF Step
  <2> QED
    BY <1>7
<1> DEFINE G == {n \in Nat : walk[n][1] \in Nat}
<1>9. G = Nat
  <2> HIDE DEF walk
  <2>1. \A n \in Nat : n >= limit => n \in G
    BY <1>8
  <2>2. ASSUME NEW n \in Nat, \A k \in Nat : k > n => k \in G PROVE n \in G
    <3>1. CASE Stops(n) \/ NoFrame(n)
      <4>1. walk[n] = <<n, 0>>
        BY <1>8, <3>1
      <4> QED
        BY <4>1
    <3>2. CASE ~(Stops(n) \/ NoFrame(n))
      <4>1. n + CellAt(image, n + 1) \in Nat /\ n + CellAt(image, n + 1) > n
        BY <1>2, <3>2
      <4>2. walk[n][1] = walk[n + CellAt(image, n + 1)][1]
        <5> DEFINE to == n + CellAt(image, n + 1)
                   count == walk[to][2] + 1
        <5>1. walk[n] = Step(walk)[n]
          BY <1>8
        <5>2. Step(walk)[n] = <<walk[to][1], count>>
          BY <3>2
        <5> HIDE DEF count, to, Step
        <5>3. <<walk[to][1], count>>[1] = walk[to][1]
          OBVIOUS
        <5> QED
          BY <5>1, <5>2, <5>3 DEF to
      <4> QED
        BY <2>2, <4>1, <4>2
    <3> QED
      BY <3>1, <3>2
  <2>3. G \in SUBSET Nat
    OBVIOUS
  <2> HIDE DEF G
  <2> QED
    BY <2>1, <2>2, <2>3, Backwards
<1>10. walk[tag][1] \in Nat
  <2>1. tag \in Nat
    BY <1>2
  <2> HIDE DEF tag, walk
  <2> QED
    BY <1>9, <2>1
<1> HIDE DEF walk, tag
<1> DEFINE end == walk[tag][1]
<1>11. end \in Nat
  BY <1>10
<1> HIDE DEF end
<1>12. Min({end, limit}) = IF end <= limit THEN end ELSE limit
  BY <1>11, MinOfTwo
<1> QED
  BY <1>1, <1>11, <1>12 DEF NoEnd, end

(* The end records of an archive.                                          *)
LEMMA ZipEnds ==
  ASSUME NEW buffer \in Seq(Nat), NEW from \in Nat, NEW limit \in Nat, from + Len(buffer) <= limit
  PROVE  ZipEnd(from, buffer, limit) \in Int /\ ZipEnd(from, buffer, limit) <= limit
<1> DEFINE places == Places(buffer, <<32>>)
           cut == {m \in places : m + 2 > Len(buffer)}
           End(m) == m + 2 + CellAt(buffer, m + 1)
           whole == {m \in places \ cut : End(m) <= Len(buffer)}
<1>1. places \in SUBSET Nat
  <2> DEFINE mark == <<32>>
  <2>1. mark \in Seq(Nat)
    OBVIOUS
  <2> HIDE DEF mark
  <2>2. Places(buffer, mark) \in SUBSET Nat
    BY <2>1, FindIs
  <2> QED
    BY <2>2 DEF mark
<1>2. /\ cut \in SUBSET Nat /\ whole \in SUBSET Nat
      /\ \A m \in whole : m \notin cut /\ End(m) \in Nat /\ End(m) <= Len(buffer)
  <2>1. \A m \in places \ cut : CellAt(buffer, m + 1) \in Nat
    <3> SUFFICES ASSUME NEW m \in places \ cut PROVE CellAt(buffer, m + 1) \in Nat
      OBVIOUS
    <3>1. (m + 1) + 1 \in 1..Len(buffer)
      BY <1>1
    <3> QED
      BY <3>1 DEF CellAt
  <2> QED
    BY <1>1, <2>1
<1>3. ZipEnd(from, buffer, limit)
        = IF cut \cup whole = {} THEN NoEnd
          ELSE IF Min(cut \cup whole) \in cut THEN limit ELSE from + End(Min(whole))
  BY DEF ZipEnd
<1> HIDE DEF cut, whole, End
<1>4. ASSUME NEW S \in SUBSET Nat, S # {} PROVE Min(S) \in S
  <2>1. \E x \in S : \A y \in S : x <= y
    BY <1>4, LeastNumber
  <2> QED
    BY <2>1 DEF Min
<1>5. CASE cut \cup whole = {}
  BY <1>3, <1>5 DEF NoEnd
<1>6. CASE cut \cup whole # {}
  <2>1. Min(cut \cup whole) \in cut \cup whole
    BY <1>2, <1>4, <1>6
  <2>2. CASE Min(cut \cup whole) \in cut
    BY <1>3, <1>6, <2>2
  <2>3. CASE Min(cut \cup whole) \notin cut
    <3>1. whole # {}
      BY <2>1, <2>3
    <3>2. Min(whole) \in whole
      BY <1>2, <1>4, <3>1
    <3>3. End(Min(whole)) \in Nat /\ End(Min(whole)) <= Len(buffer)
      BY <1>2, <3>2
    <3> QED
      BY <1>3, <1>6, <2>3, <3>3
  <2> QED
    BY <2>2, <2>3
<1> QED
  BY <1>5, <1>6

(* The header and the segment of a Matroska file.                          *)
LEMMA EbmlEnds ==
  ASSUME NEW image \in Seq(Nat), NEW start \in Nat, NEW limit \in Nat
  PROVE  EbmlEnd(image, start, limit) \in Int /\ EbmlEnd(image, start, limit) <= limit
<1> DEFINE after == start + 2 + CellAt(image, start + 1)
           end == after + 2 + CellAt(image, after + 1)
<1>1. EbmlEnd(image, start, limit)
        = IF start + 1 >= Len(image) THEN NoEnd
          ELSE IF Window(image, after, 1) # <<72>> \/ after + 1 >= Len(image) THEN NoEnd
          ELSE Min({end, limit})
  BY DEF EbmlEnd
<1>2. \A at \in Nat : at + 1 < Len(image) => CellAt(image, at + 1) \in Nat
  <2> SUFFICES ASSUME NEW at \in Nat, at + 1 < Len(image) PROVE CellAt(image, at + 1) \in Nat
    OBVIOUS
  <2>1. (at + 1) + 1 \in 1..Len(image)
    OBVIOUS
  <2> QED
    BY <2>1 DEF CellAt
<1>3. start + 1 < Len(image) => after \in Nat
  BY <1>2
<1> HIDE DEF after
<1>4. (start + 1 < Len(image) /\ after + 1 < Len(image)) => end \in Nat
  BY <1>2, <1>3
<1> HIDE DEF end
<1> DEFINE least == Min({end, limit})
<1>5. end \in Nat => least \in Int /\ least <= limit
  <2>1. end \in Nat => least = IF end <= limit THEN end ELSE limit
    BY MinOfTwo
  <2> HIDE DEF least
  <2> QED
    BY <2>1
<1> HIDE DEF least
<1>6. \/ EbmlEnd(image, start, limit) = NoEnd
      \/ /\ start + 1 < Len(image) /\ after + 1 < Len(image)
         /\ EbmlEnd(image, start, limit) = least
  <2>1. CASE start + 1 >= Len(image)
    BY <1>1, <2>1
  <2>2. CASE start + 1 < Len(image)
    <3>1. ~(start + 1 >= Len(image)) /\ after \in Nat
      BY <1>3, <2>2
    <3>2. CASE after + 1 >= Len(image)
      BY <1>1, <3>1, <3>2
    <3>3. CASE after + 1 < Len(image)
      <4>1. ~(after + 1 >= Len(image))
        BY <3>1, <3>3
      <4>2. EbmlEnd(image, start, limit) = IF Window(image, after, 1) # <<72>> THEN NoEnd ELSE least
        BY <1>1, <3>1, <4>1 DEF least
      <4> QED
        BY <2>2, <3>3, <4>2
    <3> QED
      BY <3>1, <3>2, <3>3
  <2> QED
    BY <2>1, <2>2
<1>7. NoEnd \in Int /\ NoEnd <= limit
  BY DEF NoEnd
<1> QED
  BY <1>4, <1>5, <1>6, <1>7

(* Whatever the strategy, a candidate does not end past its limit.         *)
LEMMA StrategyEnds ==
  ASSUME NEW image \in Seq(Nat), NEW s, IsSignature(s), NEW start \in Nat, NEW limit \in Nat,
         limit <= Len(image), start + Len(s.header) <= limit
  PROVE  StrategyEnd(image, start, s, limit) \in Int /\ StrategyEnd(image, start, s, limit) <= limit
<1> DEFINE searchStart == start + Len(s.header)
           buffer == Window(image, searchStart, Max({0, limit - searchStart}))
           found == FindBytes(buffer, s.footer)
           field == IF start + 1 < limit THEN CellAt(image, start + 1) ELSE NoEnd
           Within(end, size) == IF field # NoEnd /\ end <= limit /\ size >= s.minSize THEN end ELSE NoEnd
           result == StrategyEnd(image, start, s, limit)
<1>1. searchStart \in Nat /\ s.footer \in Seq(Nat) /\ s.kind \in Kinds
  BY DEF IsSignature
<1>2. buffer \in Seq(Nat) /\ Len(buffer) = limit - searchStart
  <2> DEFINE room == limit - searchStart
  <2>1. room \in Nat /\ searchStart + room <= Len(image)
    BY <1>1
  <2> HIDE DEF room, searchStart
  <2>2. Max({0, room}) = room
    BY <2>1, MaxOfTwo
  <2>3. Window(image, searchStart, room) \in Seq(Nat) /\ Len(Window(image, searchStart, room)) = room
    BY <1>1, <2>1, WindowIs
  <2> QED
    BY <2>2, <2>3 DEF room
<1>3. field \in Int
  <2>1. start + 1 < limit => (start + 1) + 1 \in 1..Len(image)
    BY <1>1
  <2> QED
    BY <2>1 DEF CellAt, NoEnd
<1>4. /\ s.kind = "fixed" => result = IF found = NoEnd THEN NoEnd ELSE searchStart + found + Len(s.footer)
      /\ s.kind = "eocd" => result = ZipEnd(searchStart, buffer, limit)
      /\ s.kind = "riff" => result = Within(start + field + 2, field)
      /\ s.kind = "size" => result = Within(start + field, field)
      /\ s.kind = "ole" => result = Within(start + (field + 1) * 2, IF field > 0 THEN s.minSize ELSE 0)
      /\ s.kind = "atom" => result = ContainerEnd(image, start, limit)
      /\ s.kind = "ebml" => result = EbmlEnd(image, start, limit)
      /\ s.kind = "id3" => result = Mp3End(image, start, limit)
      /\ s.kind = "max" => result = NoEnd
  BY DEF StrategyEnd
<1> SUFFICES result \in Int /\ result <= limit
  OBVIOUS
<1> HIDE DEF searchStart, buffer, field, result
<1>5. \A end \in Int : \A size : Within(end, size) \in Int /\ Within(end, size) <= limit
  BY DEF NoEnd
<1>6. CASE s.kind = "fixed"
  <2>1. CASE found = NoEnd
    BY <1>4, <1>6, <2>1 DEF NoEnd
  <2>2. CASE found # NoEnd
    <3>1. found \in Nat /\ found + Len(s.footer) <= Len(buffer)
      BY <1>1, <1>2, <2>2, FindIs
    <3> QED
      BY <1>1, <1>2, <1>4, <1>6, <2>2, <3>1
  <2> QED
    BY <2>1, <2>2
<1>7. CASE s.kind = "eocd"
  <2>1. searchStart + Len(buffer) <= limit
    BY <1>1, <1>2
  <2> QED
    BY <1>1, <1>2, <1>4, <1>7, <2>1, ZipEnds
<1>8. CASE s.kind = "riff"
  <2>1. start + field + 2 \in Int
    BY <1>3
  <2> QED
    BY <1>4, <1>5, <1>8, <2>1
<1>9. CASE s.kind = "size"
  <2>1. start + field \in Int
    BY <1>3
  <2> QED
    BY <1>4, <1>5, <1>9, <2>1
<1>10. CASE s.kind = "ole"
  <2>1. start + (field + 1) * 2 \in Int
    BY <1>3
  <2> QED
    BY <1>4, <1>5, <1>10, <2>1
<1>11. CASE s.kind \in {"atom", "ebml", "id3", "max"}
  <2>1. CASE s.kind = "atom"
    BY <1>4, <2>1, ContainerEnds
  <2>2. CASE s.kind = "ebml"
    BY <1>4, <2>2, EbmlEnds
  <2>3. CASE s.kind = "id3"
    BY <1>4, <2>3, Mp3Ends
  <2>4. CASE s.kind = "max"
    BY <1>4, <2>4 DEF NoEnd
  <2> QED
    BY <1>11, <2>1, <2>2, <2>3, <2>4
<1> QED
  BY <1>1, <1>6, <1>7, <1>8, <1>9, <1>10, <1>11 DEF Kinds

-------------------------------------------------------------------------------
(* Fragmented candidates.                                                  *)

(* Sets of numbers in the order in which they are tried: by their first    *)
(* difference.                                                             *)
ComesFirst(a, b) == \E m \in a : m \notin b /\ \A k \in Nat : k < m => (k \in a <=> k \in b)

LEMMA FirstDifference ==
  ASSUME NEW a \in SUBSET Nat, NEW b \in SUBSET Nat, a # b
  PROVE  /\ Min((a \ b) \cup (b \ a)) \in a <=> ComesFirst(a, b)
         /\ ComesFirst(a, b) \/ ComesFirst(b, a)
         /\ ~(ComesFirst(a, b) /\ ComesFirst(b, a))
<1> DEFINE D == (a \ b) \cup (b \ a)
           m == Min(D)
<1>1. D \in SUBSET Nat /\ D # {}
  OBVIOUS
<1>2. m \in D /\ \A k \in D : m <= k
  <2>1. \E x \in D : \A y \in D : x <= y
    <3> HIDE DEF D
    <3> QED
      BY <1>1, LeastNumber
  <2> QED
    BY <2>1 DEF Min
<1> HIDE DEF m
<1>3. \A k \in Nat : k < m => (k \in a <=> k \in b)
  BY <1>1, <1>2
<1>4. m \in Nat /\ (m \in a <=> m \notin b)
  BY <1>2
<1>5. ASSUME NEW x, NEW y, (x = a /\ y = b) \/ (x = b /\ y = a), ComesFirst(x, y) PROVE m \in x
  <2>1. PICK n \in x : n \notin y /\ \A k \in Nat : k < n => (k \in x <=> k \in y)
    BY <1>5 DEF ComesFirst
  <2>2. n \in D /\ n \in Nat
    BY <1>5, <2>1
  <2>3. ~(m < n)
    BY <1>4, <1>5, <2>1
  <2>4. m = n
    BY <1>2, <1>4, <2>2, <2>3
  <2> QED
    BY <2>1, <2>4
<1>6. m \in a => ComesFirst(a, b)
  BY <1>3, <1>4 DEF ComesFirst
<1>7. m \in b => ComesFirst(b, a)
  BY <1>3, <1>4 DEF ComesFirst
<1>8. ComesFirst(a, b) => m \in a
  <2>1. (a = a /\ b = b) \/ (a = b /\ b = a)
    OBVIOUS
  <2> QED
    BY <1>5, <2>1, Zenon
<1>9. ComesFirst(b, a) => m \in b
  BY <1>5
<1>10. (m \in a \/ m \in b) /\ ~(m \in a /\ m \in b)
  BY <1>2, <1>4
<1> QED
  BY <1>6, <1>7, <1>8, <1>9, <1>10 DEF m

LEMMA ComesFirstIsTransitive ==
  ASSUME NEW a \in SUBSET Nat, NEW b \in SUBSET Nat, NEW c \in SUBSET Nat, ComesFirst(a, b), ComesFirst(b, c)
  PROVE  ComesFirst(a, c)
<1>1. PICK m \in a : m \notin b /\ \A k \in Nat : k < m => (k \in a <=> k \in b)
  BY DEF ComesFirst
<1>2. PICK n \in b : n \notin c /\ \A k \in Nat : k < n => (k \in b <=> k \in c)
  BY DEF ComesFirst
<1>3. m \in Nat /\ n \in Nat /\ m # n
  BY <1>1, <1>2
<1>4. CASE m < n
  <2>1. m \notin c /\ \A k \in Nat : k < m => (k \in a <=> k \in c)
    BY <1>1, <1>2, <1>3, <1>4
  <2> QED
    BY <2>1 DEF ComesFirst
<1>5. CASE n < m
  <2>1. n \in a /\ n \notin c /\ \A k \in Nat : k < n => (k \in a <=> k \in c)
    BY <1>1, <1>2, <1>3, <1>5
  <2> QED
    BY <2>1 DEF ComesFirst
<1> QED
  BY <1>3, <1>4, <1>5

(* Of some choices of gaps one comes first.                                *)
LEMMA FewestGapsIs ==
  ASSUME NEW n \in Nat, NEW choices \in SUBSET SUBSET (1..n), choices # {}
  PROVE  FewestGaps(choices) \in choices
<1> DEFINE Earlier(a, b) == \/ Cardinality(a) < Cardinality(b)
                            \/ /\ Cardinality(a) = Cardinality(b) /\ a # b
                               /\ Min((a \ b) \cup (b \ a)) \in a
           before == {p \in choices \X choices : Earlier(p[1], p[2])}
<1>1. \A a \in choices : a \in SUBSET Nat /\ Cardinality(a) \in Nat
  <2> SUFFICES ASSUME NEW a \in choices PROVE IsFiniteSet(a) /\ a \in SUBSET Nat
    BY FS_CardinalityType
  <2>1. IsFiniteSet(1..n) /\ a \subseteq 1..n
    BY FS_Interval
  <2>2. IsFiniteSet(a)
    BY <2>1, FS_Subset
  <2> QED
    BY <2>1, <2>2
<1>2. \A a, b \in choices :
        Earlier(a, b) <=> \/ Cardinality(a) < Cardinality(b)
                          \/ Cardinality(a) = Cardinality(b) /\ a # b /\ ComesFirst(a, b)
  BY <1>1, FirstDifference, ZenonT(60)
<1>3. \A a, b \in choices : <<a, b>> \in before <=> Earlier(a, b)
  OBVIOUS
<1> HIDE DEF before, Earlier
<1>4. Orders(before, choices)
  <2>1. \A x \in choices : <<x, x>> \notin before
    BY <1>1, <1>2, <1>3
  <2>2. ASSUME NEW x \in choices, NEW y \in choices, NEW z \in choices, Earlier(x, y), Earlier(y, z)
        PROVE  Earlier(x, z)
    <3>1. /\ Cardinality(x) \in Nat /\ Cardinality(y) \in Nat /\ Cardinality(z) \in Nat
          /\ x \in SUBSET Nat /\ y \in SUBSET Nat /\ z \in SUBSET Nat
      BY <1>1
    <3>2. Cardinality(x) <= Cardinality(y) /\ Cardinality(y) <= Cardinality(z)
      BY <1>2, <2>2, <3>1
    <3>3. CASE Cardinality(x) < Cardinality(z)
      BY <1>2, <3>3
    <3>4. CASE Cardinality(x) = Cardinality(z)
      <4>1. Cardinality(x) = Cardinality(y) /\ Cardinality(y) = Cardinality(z)
        BY <3>1, <3>2, <3>4
      <4>2. /\ ~(Cardinality(x) < Cardinality(y)) /\ ~(Cardinality(y) < Cardinality(z))
        BY <3>1, <4>1
      <4>3. x # y /\ ComesFirst(x, y) /\ y # z /\ ComesFirst(y, z)
        BY <1>2, <2>2, <4>2
      <4>4. ComesFirst(x, z)
        BY <3>1, <4>3, ComesFirstIsTransitive
      <4>5. x # z
        BY <3>1, <4>3, FirstDifference
      <4> QED
        BY <1>2, <3>4, <4>4, <4>5
    <3> QED
      BY <3>1, <3>2, <3>3, <3>4
  <2>3. ASSUME NEW x \in choices, NEW y \in choices, x # y PROVE Earlier(x, y) \/ Earlier(y, x)
    <3>1. ComesFirst(x, y) \/ ComesFirst(y, x)
      BY <1>1, <2>3, FirstDifference
    <3> QED
      BY <1>1, <1>2, <2>3, <3>1
  <2> QED
    BY <1>3, <2>1, <2>2, <2>3 DEF Orders
<1>5. IsFiniteSet(choices)
  <2>1. IsFiniteSet(SUBSET (1..n))
    <3>1. IsFiniteSet(1..n)
      BY FS_Interval
    <3> QED
      BY <3>1, FS_SUBSET
  <2> QED
    BY <2>1, FS_Subset
<1>6. \E a \in choices : \A b \in choices : a = b \/ Earlier(a, b)
  <2> DEFINE r == Ranked(choices, before)
             k == Cardinality(choices)
  <2>1. /\ k \in Nat /\ r \in [1..k -> choices] /\ Range(r) = choices
        /\ \A i, j \in 1..k : i < j => <<r[i], r[j]>> \in before
    BY <1>4, <1>5, RankedIs
  <2> HIDE DEF r, k
  <2>2. \A b \in choices : \E i \in 1..k : b = r[i]
    BY <2>1 DEF Range
  <2>3. 1 \in 1..k
    BY <2>1, <2>2
  <2>4. ASSUME NEW b \in choices PROVE r[1] = b \/ Earlier(r[1], b)
    <3>1. PICK i \in 1..k : b = r[i]
      BY <2>2
    <3>2. CASE i = 1
      BY <3>1, <3>2
    <3>3. CASE i # 1
      <4>1. <<r[1], b>> \in before
        BY <2>1, <2>3, <3>1, <3>3
      <4> QED
        BY <1>3, <2>1, <2>3, <4>1
    <3> QED
      BY <3>2, <3>3
  <2> QED
    BY <2>1, <2>3, <2>4
<1>7. FewestGaps(choices) = CHOOSE a \in choices : \A b \in choices : a = b \/ Earlier(a, b)
  BY DEF FewestGaps, Earlier
<1> QED
  BY <1>6, <1>7

\* A list of pairs of places, each after the other.
InOrderWithin(pieces, length) ==
  /\ pieces \in Seq((0..length) \X (0..length))
  /\ \A i \in 1..Len(pieces) : pieces[i][1] < pieces[i][2]

(* What removable_gap_ranges finds.                                        *)
LEMMA GapsAre ==
  ASSUME NEW bytes \in Seq(Nat)
  PROVE  GapRanges(bytes) \in Seq((0..Len(bytes)) \X (0..Len(bytes)))
<1> DEFINE n == Len(bytes)
           Fill(from, to) == \E v \in {Erased, Filled} : \A i \in from..(to - 1) : CellAt(bytes, i) = v
           IsRun(from, to) == /\ to - from >= FragmentGapMinSize /\ Fill(from, to)
                              /\ from > 0 => ~Fill(from - 1, to)
                              /\ to < Len(bytes) => ~Fill(from, to + 1)
           runs == {run \in (0..n) \X (0..n) : IsRun(run[1], run[2])}
           Before(g, h) == \/ g[2] - g[1] > h[2] - h[1]
                           \/ g[2] - g[1] = h[2] - h[1] /\ g[1] < h[1]
           before == {p \in runs \X runs : Before(p[1], p[2])}
<1>1. GapRanges(bytes) = Ranked(runs, before)
  BY DEF GapRanges
<1>2. runs \in SUBSET ((0..n) \X (0..n)) /\ n \in Nat
  OBVIOUS
<1> HIDE DEF runs
<1>3. IsFiniteSet(runs)
  <2>1. IsFiniteSet(0..n)
    BY <1>2, FS_Interval
  <2>2. IsFiniteSet((0..n) \X (0..n))
    BY <2>1, FS_Product
  <2> QED
    BY <1>2, <2>2, FS_Subset
<1>4. \A g \in runs : g[1] \in Nat /\ g[2] \in Nat /\ g = <<g[1], g[2]>>
  BY <1>2
<1>5. \A g, h \in runs : <<g, h>> \in before <=> Before(g, h)
  OBVIOUS
<1> HIDE DEF before
<1>6. Orders(before, runs)
  <2>1. \A g \in runs : ~Before(g, g)
    BY <1>4
  <2>2. ASSUME NEW f \in runs, NEW g \in runs, NEW h \in runs, Before(f, g), Before(g, h) PROVE Before(f, h)
    BY <1>4, <2>2
  <2>3. ASSUME NEW g \in runs, NEW h \in runs, g # h PROVE Before(g, h) \/ Before(h, g)
    <3>1. g[1] # h[1] \/ g[2] # h[2]
      BY <1>4, <2>3
    <3> DEFINE a == g[1]
               b == g[2]
               c == h[1]
               d == h[2]
    <3>2. a \in Nat /\ b \in Nat /\ c \in Nat /\ d \in Nat /\ (a # c \/ b # d)
      BY <1>4, <3>1
    <3> SUFFICES \/ b - a > d - c \/ (b - a = d - c /\ a < c)
                 \/ d - c > b - a \/ (d - c = b - a /\ c < a)
      OBVIOUS
    <3> HIDE DEF a, b, c, d
    <3> QED
      BY <3>2
  <2> HIDE DEF Before
  <2> QED
    BY <1>5, <2>1, <2>2, <2>3 DEF Orders
<1>7. Cardinality(runs) \in Nat /\ Ranked(runs, before) \in [1..Cardinality(runs) -> runs]
  BY <1>3, <1>6, RankedIs
<1>8. Ranked(runs, before) \in Seq(runs)
  BY <1>7, ListMade
<1> QED
  BY <1>1, <1>2, <1>8 DEF n

(* What is left of a candidate without some gaps: pieces of it, none of    *)
(* them empty.                                                             *)
LEMMA PiecesAre ==
  ASSUME NEW length \in Nat, NEW gaps \in SUBSET ((0..length) \X (0..length))
  PROVE  InOrderWithin(PiecesLeft(length, gaps), length)
<1> DEFINE cuts == {0} \cup {g[2] : g \in gaps}
           Stops(from) == {length} \cup {g[1] : g \in {g \in gaps : g[1] >= from}}
           Stop(from) == Min(Stops(from))
           left == {<<from, Stop(from)>> : from \in {c \in cuts : c < Stop(c)}}
           before == {p \in left \X left : p[1][1] < p[2][1]}
<1>1. PiecesLeft(length, gaps) = Ranked(left, before)
  BY DEF PiecesLeft
<1>2. cuts \in SUBSET (0..length)
  OBVIOUS
<1>3. ASSUME NEW from \in cuts PROVE Stop(from) \in 0..length
  <2>1. Stops(from) \in SUBSET (0..length) /\ Stops(from) \in SUBSET Nat /\ Stops(from) # {}
    OBVIOUS
  <2> HIDE DEF Stops
  <2>2. \E x \in Stops(from) : \A y \in Stops(from) : x <= y
    BY <2>1, LeastNumber
  <2>3. Stop(from) \in Stops(from)
    BY <2>2 DEF Min
  <2> QED
    BY <2>1, <2>3
<1> HIDE DEF Stop, cuts
<1>4. \A p \in left : /\ p \in (0..length) \X (0..length) /\ p[1] < p[2]
                      /\ p = <<p[1], Stop(p[1])>>
  <2> SUFFICES ASSUME NEW p \in left
               PROVE  p \in (0..length) \X (0..length) /\ p[1] < p[2] /\ p = <<p[1], Stop(p[1])>>
    OBVIOUS
  <2>1. PICK c \in cuts : c < Stop(c) /\ p = <<c, Stop(c)>>
    OBVIOUS
  <2> QED
    BY <1>2, <1>3, <2>1
<1> HIDE DEF left
<1>5. IsFiniteSet(left)
  <2>1. IsFiniteSet(0..length)
    BY FS_Interval
  <2>2. IsFiniteSet((0..length) \X (0..length))
    BY <2>1, FS_Product
  <2> QED
    BY <1>4, <2>2, FS_Subset
<1>6. \A p, q \in left : <<p, q>> \in before <=> p[1] < q[1]
  OBVIOUS
<1>7. \A p \in left : p[1] \in Nat
  BY <1>4
<1> HIDE DEF before
<1>8. Orders(before, left)
  <2>1. \A p, q \in left : p # q => p[1] # q[1]
    BY <1>4
  <2> QED
    BY <1>6, <1>7, <2>1 DEF Orders
<1>9. Cardinality(left) \in Nat /\ Ranked(left, before) \in [1..Cardinality(left) -> left]
  BY <1>5, <1>8, RankedIs
<1> DEFINE pieces == Ranked(left, before)
<1>10. pieces \in Seq(left)
  BY <1>9, ListMade
<1> HIDE DEF pieces
<1>11. pieces \in Seq((0..length) \X (0..length)) /\ \A i \in 1..Len(pieces) : pieces[i] \in left
  BY <1>4, <1>10
<1> QED
  BY <1>1, <1>4, <1>11 DEF InOrderWithin, pieces

(* The pieces that recover_fragmented_candidate_runs gives make a file     *)
(* that validates.                                                         *)
LEMMA FragmentsValidate ==
  ASSUME NEW s, NEW bytes \in Seq(Nat), FragmentedPieces(s, bytes, GapRanges(bytes)) # <<>>
  PROVE  LET pieces == FragmentedPieces(s, bytes, GapRanges(bytes))
         IN  InOrderWithin(pieces, Len(bytes)) /\ Validates(s, Stitched(bytes, pieces))
<1> DEFINE ranges == GapRanges(bytes)
           count == Min({Len(ranges), MaxFragmentGapCandidates})
           tried == SubSeq(ranges, 1, count)
           working == {chosen \in SUBSET DOMAIN tried : Works(s, bytes, tried, chosen)}
           best == FewestGaps(working)
           pieces == FragmentedPieces(s, bytes, GapRanges(bytes))
           pairs == (0..Len(bytes)) \X (0..Len(bytes))
<1>1. pieces = IF working = {} THEN <<>> ELSE PiecesLeft(Len(bytes), {ranges[i] : i \in best})
  BY DEF FragmentedPieces
<1>2. ranges \in Seq(pairs)
  BY GapsAre
<1> HIDE DEF ranges, pairs
<1>3. count \in Nat /\ count <= Len(ranges)
  <2>1. Len(ranges) \in Nat /\ MaxFragmentGapCandidates \in Nat
    BY <1>2, Lengths
  <2> QED
    BY <2>1, MinOfTwo
<1> HIDE DEF count
<1>4. DOMAIN tried = 1..count /\ \A i \in 1..count : tried[i] = ranges[i] /\ tried[i] \in pairs
  BY <1>2, <1>3
<1> HIDE DEF tried
<1>5. working # {}
  BY <1>1
<1>6. best \in working
  <2>1. working \in SUBSET SUBSET (1..count)
    BY <1>4
  <2> HIDE DEF working
  <2> QED
    BY <1>3, <1>5, <2>1, FewestGapsIs
<1>7. best \in SUBSET (1..count) /\ Works(s, bytes, tried, best)
  BY <1>4, <1>6
<1> HIDE DEF best, working
<1>8. {ranges[i] : i \in best} = {tried[i] : i \in best} /\ {tried[i] : i \in best} \in SUBSET pairs
  BY <1>4, <1>7
<1>9. pieces = PiecesLeft(Len(bytes), {tried[i] : i \in best})
  BY <1>1, <1>5, <1>8
<1>10. InOrderWithin(pieces, Len(bytes))
  BY <1>8, <1>9, PiecesAre DEF pairs
<1>11. Validates(s, Stitched(bytes, pieces))
  BY <1>7, <1>9 DEF Works
<1> QED
  BY <1>10, <1>11 DEF pieces

-------------------------------------------------------------------------------
(* Candidates.                                                             *)

(* The bytes of one piece.                                                 *)
LEMMA OnePiece ==
  ASSUME NEW image, NEW a, NEW b
  PROVE  Stitched(image, <<<<a, b>>>>) = Window(image, a, b - a)
<1> DEFINE pieces == <<<<a, b>>>>
           seqs == [i \in DOMAIN pieces |-> Window(image, pieces[i][1], pieces[i][2] - pieces[i][1])]
           Step(f) == [i \in 1..Len(seqs) |-> IF i = 1 THEN seqs[i] ELSE f[i - 1] \o seqs[i]]
           flatten == CHOOSE f : f = Step(f)
<1>1. DOMAIN pieces = 1..1 /\ pieces[1][1] = a /\ pieces[1][2] = b
  OBVIOUS
<1> HIDE DEF pieces
<1>2. DOMAIN seqs = 1..1 /\ seqs[1] = Window(image, a, b - a) /\ Len(seqs) = 1
  <2>1. DOMAIN seqs = 1..1 /\ seqs[1] = Window(image, a, b - a)
    BY <1>1
  <2>2. seqs \in Seq({seqs[1]})
    <3>1. seqs = [i \in 1..1 |-> seqs[1]]
      BY <1>1
    <3> HIDE DEF seqs
    <3> QED
      BY <3>1
  <2> HIDE DEF seqs
  <2> QED
    BY <2>1, <2>2
<1>3. FlattenSeq(seqs) = flatten[1]
  <2> HIDE DEF seqs
  <2> QED
    BY <1>2 DEF FlattenSeq
<1> HIDE DEF seqs
<1>4. \E f : f = Step(f)
  <2> DEFINE g == [i \in 1..1 |-> seqs[1]]
  <2>1. g = Step(g)
    BY <1>2
  <2> QED
    BY <2>1
<1>5. flatten = Step(flatten)
  <2> HIDE DEF Step
  <2> QED
    BY <1>4
<1> HIDE DEF flatten
<1>6. flatten[1] = seqs[1]
  BY <1>2, <1>5
<1>7. Stitched(image, pieces) = FlattenSeq(seqs)
  BY DEF Stitched, seqs
<1> QED
  BY <1>2, <1>3, <1>6, <1>7 DEF pieces

\* Pieces of a candidate as pieces of the image.
Shifted(start, pieces) == [i \in DOMAIN pieces |-> <<start + pieces[i][1], start + pieces[i][2]>>]

(* The pieces of a candidate are pieces of the image.                      *)
LEMMA PiecesOfImage ==
  ASSUME NEW image \in Seq(Nat), NEW start \in Nat, NEW length \in Nat, start + length <= Len(image),
         NEW pieces, InOrderWithin(pieces, length)
  PROVE  Stitched(image, Shifted(start, pieces)) = Stitched(Window(image, start, length), pieces)
<1> DEFINE w == Window(image, start, length)
           runs == Shifted(start, pieces)
           PieceCells(i) == Window(image, runs[i][1], runs[i][2] - runs[i][1])
           Bytes(i) == Window(w, pieces[i][1], pieces[i][2] - pieces[i][1])
<1>1. Len(w) = length
  BY WindowIs
<1>2. DOMAIN runs = DOMAIN pieces
  BY DEF Shifted
<1>3. ASSUME NEW i \in DOMAIN pieces PROVE PieceCells(i) = Bytes(i)
  <2> DEFINE a == pieces[i][1]
             b == pieces[i][2]
  <2>1. a \in Nat /\ b \in Nat /\ a < b /\ b <= length
    <3>1. i \in 1..Len(pieces) /\ pieces[i] \in (0..length) \X (0..length) /\ pieces[i][1] < pieces[i][2]
      BY <1>3 DEF InOrderWithin
    <3> QED
      BY <3>1
  <2>2. runs[i][1] = start + a /\ runs[i][2] = start + b
    BY <1>3 DEF Shifted
  <2> HIDE DEF a, b, runs
  <2>3. (start + b) - (start + a) = b - a /\ b - a \in Nat /\ a + (b - a) <= length
    BY <2>1
  <2>4. PieceCells(i) = Window(image, start + a, b - a)
    BY <2>2, <2>3
  <2>5. Window(w, a, b - a) = Window(image, start + a, b - a)
    BY <1>1, <2>1, <2>3, WindowOfWindow
  <2> QED
    BY <2>4, <2>5 DEF a, b
<1>4. Stitched(image, runs) = FlattenSeq([i \in DOMAIN runs |-> PieceCells(i)])
  BY DEF Stitched
<1>5. Stitched(w, pieces) = FlattenSeq([i \in DOMAIN pieces |-> Bytes(i)])
  BY DEF Stitched
<1> HIDE DEF PieceCells, Bytes
<1>6. [i \in DOMAIN runs |-> PieceCells(i)] = [i \in DOMAIN pieces |-> Bytes(i)]
  BY <1>2, <1>3
<1> QED
  BY <1>4, <1>5, <1>6

(* What carve_candidate makes of a header, when it is not too small.       *)
LEMMA CandidateIs ==
  ASSUME NEW image \in Seq(Nat), NEW s, IsSignature(s), NEW p \in Places(image, s.header),
         ~TooSmall(CarvedAt(image, p, s), s)
  PROVE  LET c == CarvedAt(image, p, s)
         IN  /\ c.start = p /\ c.ext = s.ext /\ p \in Nat
             /\ CandidateEnd(c) \in Nat /\ p < CandidateEnd(c) /\ CandidateEnd(c) <= Len(image)
             /\ c.integrity \in {"intact", "fragmented"} => Validates(s, Stitched(image, c.runs))
<1> DEFINE n == Len(image)
           limit == Min({n, p + s.maxSize})
           strategy == StrategyEnd(image, p, s, limit)
           end == IF strategy = NoEnd THEN limit ELSE strategy
           bytes == Window(image, p, end - p)
           pieces == FragmentedPieces(s, bytes, GapRanges(bytes))
           judged == IF strategy # NoEnd /\ Len(bytes) = end - p THEN Judged(s, p, bytes, pieces)
                     ELSE [integrity |-> "partial", runs |-> <<<<p, end>>>>, status |-> "partial-unvalidated"]
           c == CarvedAt(image, p, s)
<1>1. /\ s.header \in Seq(Nat) /\ Len(s.header) \in {1, 2} /\ s.maxSize \in Nat /\ s.maxSize >= 2
      /\ s.minSize \in Nat \ {0}
  BY DEF IsSignature
<1>2. n \in Nat /\ p \in Nat /\ p + Len(s.header) <= n
  BY <1>1, FindIs
<1>3. limit \in Nat /\ limit <= n /\ p + Len(s.header) <= limit
  <2> DEFINE most == s.maxSize
             h == Len(s.header)
  <2>1. most \in Nat /\ most >= 2 /\ h \in {1, 2} /\ p + h <= n
    BY <1>1, <1>2
  <2> HIDE DEF most, h, n
  <2>2. Min({n, p + most}) = IF n <= p + most THEN n ELSE p + most
    BY <1>2, <2>1, MinOfTwo
  <2> DEFINE l == Min({n, p + most})
  <2>3. l \in Nat /\ l <= n /\ p + h <= l
    BY <1>2, <2>1, <2>2
  <2> HIDE DEF l
  <2> QED
    BY <2>3 DEF l, most, h
<1> HIDE DEF limit
<1>4. strategy \in Int /\ strategy <= limit
  BY <1>2, <1>3, StrategyEnds
<1> HIDE DEF strategy
<1>5. end \in Int /\ end <= limit
  BY <1>3, <1>4
<1>6. c = [start |-> p, size |-> end - p, ext |-> s.ext,
           integrity |-> judged.integrity, runs |-> judged.runs, status |-> judged.status]
  BY DEF CarvedAt, CarveCandidate, Candidate, strategy, limit
<1> HIDE DEF end, judged, c
<1>7. c.start = p /\ c.ext = s.ext /\ c.size = end - p /\ c.integrity = judged.integrity /\ c.runs = judged.runs
  BY <1>6
<1>8. ~(end - p < s.minSize)
  BY <1>7 DEF TooSmall, c
<1>9. end - p \in Nat /\ p < end /\ end <= n /\ end \in Nat
  <2> DEFINE least == s.minSize
  <2>1. least \in Nat \ {0} /\ ~(end - p < least)
    BY <1>1, <1>8
  <2> HIDE DEF least
  <2> QED
    BY <1>2, <1>3, <1>5, <2>1
<1>10. bytes \in Seq(Nat) /\ Len(bytes) = end - p
  <2> DEFINE room == end - p
             w == Window(image, p, room)
  <2>1. room \in Nat /\ p + room <= Len(image)
    BY <1>2, <1>9
  <2> HIDE DEF room
  <2>2. w \in Seq(Nat) /\ Len(w) = room
    BY <1>2, <2>1, WindowIs
  <2> QED
    BY <2>2 DEF room
<1> HIDE DEF pieces
<1> SUFFICES /\ CandidateEnd(c) \in Nat /\ p < CandidateEnd(c) /\ CandidateEnd(c) <= n
             /\ c.integrity \in {"intact", "fragmented"} => Validates(s, Stitched(image, c.runs))
  BY <1>2, <1>7 DEF c, n
<1>11. ASSUME c.runs = <<<<p, end>>>>
       PROVE  /\ CandidateEnd(c) \in Nat /\ p < CandidateEnd(c) /\ CandidateEnd(c) <= n
              /\ Stitched(image, c.runs) = bytes
  <2>1. CandidateEnd(c) = end
    <3> DEFINE runs == <<<<p, end>>>>
    <3>1. Len(runs) = 1 /\ runs[1][2] = end
      OBVIOUS
    <3> HIDE DEF runs
    <3>2. Last(runs)[2] = end
      BY <3>1 DEF Last
    <3> QED
      BY <1>11, <3>2 DEF CandidateEnd, runs
  <2>2. Stitched(image, c.runs) = bytes
    BY <1>11, OnePiece
  <2> QED
    BY <1>9, <2>1, <2>2
<1>12. CASE strategy = NoEnd
  <2>1. c.runs = <<<<p, end>>>> /\ c.integrity = "partial"
    BY <1>7, <1>12 DEF judged
  <2> QED
    BY <1>11, <2>1
<1>13. CASE strategy # NoEnd /\ Validates(s, bytes)
  <2>1. Judged(s, p, bytes, pieces).runs = <<<<p, p + Len(bytes)>>>>
    BY <1>13 DEF Judged
  <2>2. c.runs = <<<<p, p + Len(bytes)>>>>
    BY <1>7, <1>10, <1>13, <2>1 DEF judged
  <2>3. p + Len(bytes) = end
    BY <1>2, <1>9, <1>10
  <2> QED
    BY <1>11, <1>13, <2>2, <2>3
<1>14. CASE strategy # NoEnd /\ ~Validates(s, bytes) /\ pieces = <<>>
  <2>1. /\ Judged(s, p, bytes, pieces).runs = <<<<p, p + Len(bytes)>>>>
        /\ Judged(s, p, bytes, pieces).integrity = "corrupt"
    BY <1>14 DEF Judged
  <2>2. c.runs = <<<<p, p + Len(bytes)>>>> /\ c.integrity = "corrupt"
    BY <1>7, <1>10, <1>14, <2>1 DEF judged
  <2>3. p + Len(bytes) = end
    BY <1>2, <1>9, <1>10
  <2> QED
    BY <1>11, <2>2, <2>3
<1>15. CASE strategy # NoEnd /\ ~Validates(s, bytes) /\ pieces # <<>>
  <2>1. c.runs = [i \in DOMAIN pieces |-> <<p + pieces[i][1], p + pieces[i][2]>>]
    <3>1. Judged(s, p, bytes, pieces).runs = [i \in DOMAIN pieces |-> <<p + pieces[i][1], p + pieces[i][2]>>]
      BY <1>15 DEF Judged
    <3> QED
      BY <1>7, <1>10, <1>15, <3>1 DEF judged
  <2>2. InOrderWithin(pieces, end - p) /\ Validates(s, Stitched(bytes, pieces))
    <3> HIDE DEF bytes
    <3> QED
      BY <1>10, <1>15, FragmentsValidate DEF pieces
  <2>3. Stitched(image, c.runs) = Stitched(bytes, pieces)
    <3> DEFINE room == end - p
    <3>1. room \in Nat /\ p + room <= Len(image) /\ InOrderWithin(pieces, room)
      BY <1>2, <1>9, <2>2
    <3> HIDE DEF room
    <3>2. Stitched(image, Shifted(p, pieces)) = Stitched(Window(image, p, room), pieces)
      BY <1>2, <3>1, PiecesOfImage
    <3>3. c.runs = Shifted(p, pieces)
      BY <2>1 DEF Shifted
    <3> QED
      BY <3>2, <3>3 DEF room
  <2>4. CandidateEnd(c) \in Nat /\ p < CandidateEnd(c) /\ CandidateEnd(c) <= n
    <3> DEFINE k == Len(pieces)
               room == end - p
    <3>1. k \in Nat /\ k # 0 /\ DOMAIN pieces = 1..k
      BY <1>15, <2>2 DEF InOrderWithin
    <3>2. pieces[k] \in (0..room) \X (0..room) /\ pieces[k][1] < pieces[k][2]
      BY <2>2, <3>1 DEF InOrderWithin
    <3>3. CandidateEnd(c) = p + pieces[k][2]
      <4>1. c.runs \in Seq({c.runs[i] : i \in 1..k}) /\ Len(c.runs) = k
        <5> DEFINE runs == [i \in DOMAIN pieces |-> <<p + pieces[i][1], p + pieces[i][2]>>]
        <5>1. runs = [i \in 1..k |-> runs[i]]
          BY <3>1
        <5> HIDE DEF runs, k
        <5>2. runs \in Seq({runs[i] : i \in 1..k}) /\ Len(runs) = k
          BY <3>1, <5>1
        <5> QED
          BY <2>1, <5>2 DEF runs
      <4>2. c.runs[k][2] = p + pieces[k][2]
        BY <2>1, <3>1
      <4> QED
        BY <4>1, <4>2 DEF CandidateEnd, Last
    <3> DEFINE a == pieces[k][1]
               b == pieces[k][2]
    <3>4. a \in Nat /\ b \in Nat /\ a < b /\ b <= room
      BY <1>9, <3>2
    <3>5. CandidateEnd(c) = p + b
      BY <3>3
    <3> HIDE DEF a, b, n
    <3>6. p + b \in Nat /\ p < p + b /\ p + b <= n
      BY <1>2, <1>9, <3>4
    <3> QED
      BY <3>5, <3>6
  <2> QED
    BY <2>2, <2>3, <2>4
<1> QED
  BY <1>12, <1>13, <1>14, <1>15

-------------------------------------------------------------------------------
(* The scan of a segment.                                                  *)

\* What a scan may keep: candidates of headers, none of them too small.
Candidates(image) ==
  {CarvedAt(image, f[1], Signatures[f[2]]) :
     f \in {f \in (0..Len(image)) \X (1..10) :
              /\ f[1] \in Places(image, Signatures[f[2]].header)
              /\ ~TooSmall(CarvedAt(image, f[1], Signatures[f[2]]), Signatures[f[2]])}}

(* What a candidate is: where it lies, and of which signature.             *)
LEMMA CandidatesAre ==
  ASSUME NEW image \in Seq(Nat), NEW c \in Candidates(image)
  PROVE  /\ c.start \in Nat /\ CandidateEnd(c) \in Nat
         /\ c.start < CandidateEnd(c) /\ CandidateEnd(c) <= Len(image)
         /\ \E i \in 1..10 :
              /\ c.start \in Places(image, Signatures[i].header) /\ c = CarvedAt(image, c.start, Signatures[i])
              /\ c.ext = Signatures[i].ext
              /\ c.integrity \in {"intact", "fragmented"} => Validates(Signatures[i], Stitched(image, c.runs))
<1>1. PICK f \in (0..Len(image)) \X (1..10) :
        /\ f[1] \in Places(image, Signatures[f[2]].header)
        /\ ~TooSmall(CarvedAt(image, f[1], Signatures[f[2]]), Signatures[f[2]])
        /\ c = CarvedAt(image, f[1], Signatures[f[2]])
  BY DEF Candidates
<1> DEFINE p == f[1]
           i == f[2]
           s == Signatures[i]
<1>2. i \in 1..10
  OBVIOUS
<1>3. /\ p \in Places(image, s.header) /\ ~TooSmall(CarvedAt(image, p, s), s)
      /\ c = CarvedAt(image, p, s)
  BY <1>1
<1>4. IsSignature(s)
  BY <1>2, SignaturesAre
<1> HIDE DEF p, i, s
<1>5. /\ c.start = p /\ c.ext = s.ext /\ p \in Nat
      /\ CandidateEnd(c) \in Nat /\ p < CandidateEnd(c) /\ CandidateEnd(c) <= Len(image)
      /\ c.integrity \in {"intact", "fragmented"} => Validates(s, Stitched(image, c.runs))
  BY <1>3, <1>4, CandidateIs
<1> QED
  BY <1>2, <1>3, <1>5 DEF s

(* A header that is not too small gives a candidate, that starts there.    *)
LEMMA CandidateMade ==
  ASSUME NEW image \in Seq(Nat), NEW i \in 1..10, NEW p \in Places(image, Signatures[i].header),
         ~TooSmall(CarvedAt(image, p, Signatures[i]), Signatures[i])
  PROVE  CarvedAt(image, p, Signatures[i]) \in Candidates(image) /\ CarvedAt(image, p, Signatures[i]).start = p
<1>1. IsSignature(Signatures[i]) /\ Signatures[i].header \in Seq(Nat) /\ Len(Signatures[i].header) \in Nat
  <2>1. IsSignature(Signatures[i])
    BY SignaturesAre
  <2>2. Signatures[i].header \in Seq(Nat)
    BY <2>1 DEF IsSignature
  <2> QED
    BY <2>1, <2>2
<1>2. p \in Nat /\ p <= Len(image)
  <2> DEFINE header == Signatures[i].header
  <2>1. header \in Seq(Nat) /\ Len(header) \in Nat /\ p \in Places(image, header)
    BY <1>1
  <2> HIDE DEF header
  <2>2. p \in Nat /\ p + Len(header) <= Len(image)
    BY <2>1, FindIs
  <2> QED
    BY <2>1, <2>2
<1>3. <<p, i>> \in (0..Len(image)) \X (1..10)
  BY <1>2
<1>4. CarvedAt(image, p, Signatures[i]) \in Candidates(image)
  <2> DEFINE f == <<p, i>>
  <2>1. f \in (0..Len(image)) \X (1..10)
    BY <1>3
  <2>2. f[1] = p /\ f[2] = i
    OBVIOUS
  <2> HIDE DEF f
  <2>3. /\ f[1] \in Places(image, Signatures[f[2]].header)
        /\ ~TooSmall(CarvedAt(image, f[1], Signatures[f[2]]), Signatures[f[2]])
    BY <2>2
  <2>4. CarvedAt(image, f[1], Signatures[f[2]]) \in Candidates(image)
    BY <2>1, <2>3, ZenonT(30) DEF Candidates
  <2> QED
    BY <2>2, <2>4
<1>5. CarvedAt(image, p, Signatures[i]).start = p
  BY <1>1, CandidateIs
<1> QED
  BY <1>4, <1>5

(* At one place of the image there is one candidate only, and an image has *)
(* finitely many of them.                                                  *)
LEMMA CandidatesDiffer ==
  ASSUME NEW image \in Seq(Nat)
  PROVE  /\ \A c, d \in Candidates(image) : c.start = d.start => c = d
         /\ IsFiniteSet(Candidates(image))
<1>1. ASSUME NEW c \in Candidates(image), NEW d \in Candidates(image), c.start = d.start PROVE c = d
  <2>1. PICK i \in 1..10 : c.start \in Places(image, Signatures[i].header) /\ c = CarvedAt(image, c.start, Signatures[i])
    BY CandidatesAre
  <2>2. PICK j \in 1..10 : d.start \in Places(image, Signatures[j].header) /\ d = CarvedAt(image, d.start, Signatures[j])
    BY CandidatesAre
  <2>3. i = j
    BY <1>1, <2>1, <2>2, OneSignature
  <2> QED
    BY <1>1, <2>1, <2>2, <2>3
<1>2. IsFiniteSet(Candidates(image))
  <2> DEFINE all == (0..Len(image)) \X (1..10)
             good == {f \in all : /\ f[1] \in Places(image, Signatures[f[2]].header)
                                  /\ ~TooSmall(CarvedAt(image, f[1], Signatures[f[2]]), Signatures[f[2]])}
             At(f) == CarvedAt(image, f[1], Signatures[f[2]])
  <2>1. IsFiniteSet(all)
    <3>1. IsFiniteSet(0..Len(image))
      <4>1. 0 \in Int /\ Len(image) \in Int
        OBVIOUS
      <4> QED
        BY <4>1, FS_Interval
    <3>2. IsFiniteSet(1..10)
      <4>1. 1 \in Int /\ 10 \in Int
        OBVIOUS
      <4> QED
        BY <4>1, FS_Interval
    <3> QED
      BY <3>1, <3>2, FS_Product
  <2>2. good \in SUBSET all
    OBVIOUS
  <2>3. Candidates(image) = {At(f) : f \in good}
    BY DEF Candidates
  <2> HIDE DEF all, good, At
  <2>4. IsFiniteSet(good)
    BY <2>1, <2>2, FS_Subset
  <2> DEFINE made == [f \in good |-> At(f)]
  <2>5. made \in Surjection(good, Candidates(image))
    BY <2>3 DEF Surjection
  <2> QED
    BY <2>4, <2>5, FS_Surjection
<1> QED
  BY <1>1, <1>2

(* A signature with what must follow its header lies in the image.         *)
LEMMA ReachFits ==
  ASSUME NEW image \in Seq(Nat), NEW i \in 1..10, NEW p \in Places(image, Signatures[i].header),
         SubFollows(image, p, Signatures[i])
  PROVE  p + Reach(Signatures[i]) <= Len(image)
<1> DEFINE s == Signatures[i]
           h == Len(s.header)
           l == Len(s.sub)
           n == Len(image)
<1>1. s.header \in Seq(Nat) /\ h \in Nat /\ h \in {1, 2} /\ s.sub \in Seq(Nat) /\ l \in Nat /\ n \in Nat
  <2>1. n \in Nat
    OBVIOUS
  <2>2. h \in {1, 2} => h \in Nat
    <3> HIDE DEF h
    <3> QED
      OBVIOUS
  <2> QED
    BY <2>1, <2>2, HeaderLengths
<1>2. p \in Nat /\ p + h <= n
  BY <1>1, FindIs
<1>3. CASE s.sub = <<>>
  <2>1. Reach(s) = h + 0
    BY <1>3 DEF Reach
  <2> HIDE DEF h, n
  <2> QED
    BY <1>1, <1>2, <2>1 DEF n
<1>4. CASE s.sub # <<>>
  <2> DEFINE from == p + h + 1
             w == Window(image, from, l)
  <2>1. from \in Nat
    <3> HIDE DEF h
    <3> QED
      BY <1>1, <1>2
  <2>2. w = s.sub
    BY <1>4, Zenon DEF SubFollows
  <2>3. Len(w) = IF from + l <= n THEN l ELSE IF from <= n THEN n - from ELSE 0
    BY <1>1, <2>1, WindowIs
  <2>4. Len(w) = l /\ l > 0
    <3>1. Len(w) = l
      BY <2>2
    <3>2. l # 0
      BY <1>1, <1>4
    <3> HIDE DEF l, w
    <3> QED
      BY <1>1, <3>1, <3>2
  <2>5. Reach(s) = h + 1 + l
    BY <1>4, ReachIs
  <2> DEFINE m == Len(w)
  <2>6. m = l /\ m = IF from + l <= n THEN l ELSE IF from <= n THEN n - from ELSE 0
    BY <2>3, <2>4
  <2> HIDE DEF m, w
  <2>7. p + (h + 1 + l) <= n
    <3> HIDE DEF h, l, n
    <3> QED
      BY <1>1, <1>2, <2>1, <2>4, <2>6
  <2> QED
    BY <2>5, <2>7
<1> QED
  BY <1>3, <1>4

(* What one window says to do.                                             *)
LEMMA StepIs ==
  ASSUME NEW image \in Seq(Nat), NEW at \in Nat
  PROVE  LET w == Window(image, at, CarvingChunkSize)
             d == WindowStep(image, at, w, SignatureMatches(w))
         IN  /\ d.do \in {"stop", "move", "carve"}
             /\ d.do = "stop" => (NoErasedPage(image) => \A p \in Headers(image) : p < at)
             /\ d.do = "move" => /\ d.by \in Nat /\ d.by > 0
                                 /\ NoErasedPage(image) => \A p \in Headers(image) : p < at \/ p >= at + d.by
             /\ d.do = "carve" =>
                  \E i \in 1..10 : /\ d.sign = Signatures[i] /\ d.start \in Places(image, Signatures[i].header)
                                   /\ d.start \in Nat /\ d.start >= at
                                   /\ \A p \in Headers(image) : p < at \/ p >= d.start
<1> DEFINE w == Window(image, at, CarvingChunkSize)
           n == Len(w)
           matches == SignatureMatches(w)
           match == FirstMatch(matches)
           d == WindowStep(image, at, w, matches)
<1>1. /\ CarvingChunkSize \in Nat \ {0} /\ CarvingOverlapSize \in Nat /\ CarvingOverlapSize < CarvingChunkSize
      /\ \A i \in 1..10 : Reach(Signatures[i]) <= CarvingOverlapSize
  BY Lengths
<1>2. /\ w \in Seq(Nat) /\ n \in Nat
      /\ n = IF at + CarvingChunkSize <= Len(image) THEN CarvingChunkSize
             ELSE IF at <= Len(image) THEN Len(image) - at ELSE 0
  BY <1>1, WindowIs
<1>3. \A i \in 1..10 : /\ Signatures[i].header \in Seq(Nat) /\ Len(Signatures[i].header) \in {1, 2}
                       /\ Len(Signatures[i].header) > 0
  <2> SUFFICES ASSUME NEW i \in 1..10
               PROVE  /\ Signatures[i].header \in Seq(Nat) /\ Len(Signatures[i].header) \in {1, 2}
                      /\ Len(Signatures[i].header) > 0
    OBVIOUS
  <2>1. IsSignature(Signatures[i])
    BY SignaturesAre
  <2> DEFINE header == Signatures[i].header
             h == Len(header)
  <2>2. header \in Seq(Nat) /\ h \in {1, 2}
    BY <2>1 DEF IsSignature
  <2> HIDE DEF h
  <2>3. h > 0
    BY <2>2
  <2> QED
    BY <2>2, <2>3 DEF h
<1>4. \A i \in 1..10 :
        /\ \A p \in Places(image, Signatures[i].header) :
             at <= p /\ p + Len(Signatures[i].header) <= at + n => p - at \in Places(w, Signatures[i].header)
        /\ \A q \in Places(w, Signatures[i].header) :
             /\ at + q \in Places(image, Signatures[i].header)
             /\ at + q + Len(Signatures[i].header) <= at + n
  BY <1>1, <1>3, PlacesInWindow
<1>5. /\ \A m \in matches : m[2] \in 1..10 /\ m[1] \in Places(w, Signatures[m[2]].header)
      /\ \A i \in 1..10 : \A p \in Places(w, Signatures[i].header) :
           (\A q \in Places(w, Signatures[i].header) : q <= p => SubFollows(w, q, Signatures[i]))
           => \E m \in matches : m[1] <= p
      /\ matches # {} => match \in matches /\ \A m \in matches : match[1] <= m[1]
  BY <1>2, MatchesAre
<1> DEFINE HeaderOf(p, i) == /\ p \in Places(image, Signatures[i].header) /\ SubFollows(image, p, Signatures[i])
                             /\ ~Hidden(image, p, Signatures[i])
<1>6. \A p \in Headers(image) : /\ p \in Nat /\ p < Len(image)
                                /\ \E i \in 1..10 : HeaderOf(p, i) /\ p + Reach(Signatures[i]) <= Len(image)
  <2> SUFFICES ASSUME NEW p \in Headers(image)
               PROVE  /\ p \in Nat /\ p < Len(image)
                      /\ \E i \in 1..10 : HeaderOf(p, i) /\ p + Reach(Signatures[i]) <= Len(image)
    OBVIOUS
  <2>1. p \in Nat /\ p < Len(image) /\ \E i \in 1..10 : HeaderOf(p, i)
    BY SignaturesAre DEF Headers
  <2>2. PICK i \in 1..10 : HeaderOf(p, i)
    BY <2>1
  <2> HIDE DEF HeaderOf
  <2>3. p + Reach(Signatures[i]) <= Len(image)
    BY <2>1, <2>2, ReachFits DEF HeaderOf
  <2> QED
    BY <2>1, <2>2, <2>3
<1>7. \A i \in 1..10 : \A q \in Places(w, Signatures[i].header) : q \in Nat
  BY <1>2, <1>3, FindIs
<1>8. d = CASE w = <<>> -> [do |-> "stop"]
            [] w # <<>> /\ SkipsWindow(w) -> [do |-> "move", by |-> Len(w)]
            [] w # <<>> /\ ~SkipsWindow(w) ->
                 IF matches # {} THEN [do |-> "carve", start |-> at + match[1], sign |-> Signatures[match[2]]]
                 ELSE IF WindowAdvance(w) = 0 THEN [do |-> "stop"] ELSE [do |-> "move", by |-> WindowAdvance(w)]
  BY DEF WindowStep
<1>9. WindowAdvance(w) = IF n - CarvingOverlapSize <= 0 THEN 0 ELSE n - CarvingOverlapSize
  <2>1. n - CarvingOverlapSize \in Int
    BY <1>1, <1>2
  <2>2. Max({0, n - CarvingOverlapSize}) = IF 0 >= n - CarvingOverlapSize THEN 0 ELSE n - CarvingOverlapSize
    BY <2>1, MaxOfTwo
  <2> QED
    BY <1>1, <1>2, <2>1, <2>2 DEF WindowAdvance
<1>10. NoErasedPage(image) => (w = <<>> \/ ~SkipsWindow(w))
  BY NothingIsSkipped
<1>11. w = <<>> <=> n = 0
  BY <1>2
<1> HIDE DEF w, matches, match, d
(* A header that the window holds is not passed over.                      *)
<1>12. ASSUME NEW p \in Headers(image), at <= p,
              \A i \in 1..10 : (HeaderOf(p, i) /\ p + Reach(Signatures[i]) <= Len(image)) =>
                               p + Reach(Signatures[i]) <= at + n
       PROVE  \E m \in matches : at + m[1] <= p /\ m[1] \in Nat
  <2>1. PICK i \in 1..10 : HeaderOf(p, i) /\ p + Reach(Signatures[i]) <= Len(image)
    BY <1>6
  <2> DEFINE header == Signatures[i].header
             reach == Reach(Signatures[i])
  <2>2. /\ p \in Nat /\ p + reach <= at + n /\ reach \in Nat /\ Len(header) \in Nat /\ Len(header) <= reach
    BY <1>6, <1>12, <2>1, ReachIs
  <2>3. p \in Places(image, header) /\ SubFollows(image, p, Signatures[i]) /\ ~Hidden(image, p, Signatures[i])
    BY <2>1
  <2> HIDE DEF HeaderOf
  <2>4. p - at \in Places(w, header)
    <3>1. at <= p /\ p + Len(header) <= at + n
      <4> DEFINE h == Len(header)
      <4>1. h \in Nat /\ h <= reach
        BY <2>2
      <4> HIDE DEF h, reach, n
      <4>2. p + h <= at + n
        BY <1>2, <2>2, <4>1
      <4> QED
        BY <1>12, <4>2 DEF h
    <3> QED
      BY <1>4, <2>3, <3>1
  <2>5. ASSUME NEW q \in Places(w, header), q <= p - at PROVE SubFollows(w, q, Signatures[i])
    <3>1. q \in Nat /\ at + q \in Places(image, header)
      BY <1>4, <1>7
    <3>2. q + reach <= n /\ at + q <= p /\ p < at + q + CarvingChunkSize
      <4>1. n \in Nat /\ n <= CarvingChunkSize /\ CarvingChunkSize \in Nat
        <5> HIDE DEF n
        <5> QED
          BY <1>1, <1>2
      <4>2. reach >= 1
        <5>1. Len(header) \in {1, 2}
          BY <1>3
        <5> DEFINE h == Len(header)
        <5>2. h \in {1, 2} /\ h \in Nat /\ h <= reach
          BY <2>2, <5>1
        <5> HIDE DEF h, reach
        <5> QED
          BY <2>2, <5>2
      <4> HIDE DEF n, reach
      <4> QED
        BY <1>12, <2>2, <2>5, <3>1, <4>1, <4>2
    <3>3. SubFollows(image, at + q, Signatures[i])
      <4>1. CASE at + q = p
        BY <2>3, <4>1
      <4>2. CASE at + q # p
        <5>1. at + q < p
          BY <2>2, <3>1, <3>2, <4>2
        <5>2. Signatures[i].sub = <<>> => SubFollows(image, at + q, Signatures[i])
          BY DEF SubFollows
        <5> QED
          BY <2>3, <3>1, <3>2, <5>1, <5>2, Zenon DEF Hidden
      <4> QED
        BY <4>1, <4>2
    <3>4. CarvingChunkSize \in Nat /\ q + Reach(Signatures[i]) <= Len(Window(image, at, CarvingChunkSize))
      BY <1>1, <3>2 DEF w
    <3> QED
      BY <3>1, <3>3, <3>4, SubInWindow DEF w
  <2>6. PICK m \in matches : m[1] <= p - at
    BY <1>5, <2>4, <2>5
  <2>7. m[1] \in Nat
    BY <1>5, <1>7
  <2> QED
    BY <1>12, <2>2, <2>6, <2>7
<1>13. CASE w = <<>>
  <2>1. d = [do |-> "stop"]
    BY <1>8, <1>13
  <2>2. \A p \in Headers(image) : p < at
    <3> SUFFICES ASSUME NEW p \in Headers(image) PROVE p < at
      OBVIOUS
    <3>1. p \in Nat /\ p < Len(image)
      BY <1>6
    <3> QED
      BY <1>1, <1>2, <1>11, <1>13, <3>1
  <2> QED
    BY <2>1, <2>2 DEF d, w, matches
<1>14. CASE w # <<>> /\ SkipsWindow(w)
  <2>1. d = [do |-> "move", by |-> Len(w)]
    BY <1>8, <1>14
  <2>2. Len(w) \in Nat /\ Len(w) > 0 /\ ~NoErasedPage(image)
    BY <1>2, <1>10, <1>11, <1>14
  <2> QED
    BY <2>1, <2>2 DEF d, w, matches
<1>15. CASE w # <<>> /\ ~SkipsWindow(w) /\ matches # {}
  <2>1. d = [do |-> "carve", start |-> at + match[1], sign |-> Signatures[match[2]]]
    BY <1>8, <1>15
  <2>2. match \in matches /\ match[2] \in 1..10 /\ match[1] \in Places(w, Signatures[match[2]].header)
    BY <1>5, <1>15
  <2> DEFINE q == match[1]
             i == match[2]
  <2>3. /\ i \in 1..10 /\ q \in Nat /\ at + q \in Places(image, Signatures[i].header)
        /\ at + q + Len(Signatures[i].header) <= at + n
    BY <1>4, <1>7, <2>2
  <2>4. \A m \in matches : q <= m[1]
    BY <1>5, <1>15
  <2> HIDE DEF q, i
  <2>5. \A p \in Headers(image) : p < at \/ p >= at + q
    <3> SUFFICES ASSUME NEW p \in Headers(image), ~(p < at), ~(p >= at + q) PROVE FALSE
      OBVIOUS
    <3>1. p \in Nat
      BY <1>6
    <3>2. ASSUME NEW j \in 1..10, HeaderOf(p, j) PROVE p + Reach(Signatures[j]) <= at + n
      <4> DEFINE h == Len(Signatures[i].header)
                 reach == Reach(Signatures[j])
      <4>1. h \in {1, 2} /\ reach \in Nat
        BY <1>3, <2>3, ReachIs
      <4>2. at + q + h <= at + n
        BY <2>3
      <4>3. reach \in {1, 2} \/ p + reach <= at + q
        <5>1. CASE Signatures[j].sub = <<>>
          BY <5>1, ReachIs
        <5>2. CASE Signatures[j].sub # <<>>
          <6>1. Signatures[i] \in Range(Signatures)
            BY <2>3, SignaturesAre
          <6>2. ~(p < at + q /\ at + q < p + reach)
            BY <2>3, <3>2, <5>2, <6>1, Zenon DEF Hidden
          <6> HIDE DEF reach
          <6> QED
            BY <2>3, <3>1, <4>1, <6>2
        <5> QED
          BY <5>1, <5>2
      <4> HIDE DEF h, reach, n
      <4>4. p + reach <= at + n
        BY <1>2, <2>3, <3>1, <4>1, <4>2, <4>3
      <4> QED
        BY <4>4 DEF reach
    <3>3. PICK m \in matches : at + m[1] <= p /\ m[1] \in Nat
      BY <1>12, <3>1, <3>2
    <3> QED
      BY <2>3, <2>4, <3>1, <3>3
  <2>6. d.do = "carve" /\ d.start = at + q /\ d.sign = Signatures[i]
    BY <2>1 DEF q, i
  <2>7. at + q \in Nat /\ at + q >= at
    BY <2>3
  <2>8. \E j \in 1..10 : /\ d.sign = Signatures[j] /\ d.start \in Places(image, Signatures[j].header)
                         /\ d.start \in Nat /\ d.start >= at
                         /\ \A p \in Headers(image) : p < at \/ p >= d.start
    BY <2>3, <2>5, <2>6, <2>7
  <2> QED
    BY <2>6, <2>8 DEF d, w, matches
<1>16. CASE w # <<>> /\ ~SkipsWindow(w) /\ matches = {} /\ WindowAdvance(w) = 0
  <2>1. d = [do |-> "stop"]
    BY <1>8, <1>16
  <2>2. Len(image) <= at + n
    BY <1>1, <1>2, <1>9, <1>11, <1>16
  <2>3. ASSUME NEW p \in Headers(image) PROVE p < at
    <3>1. p \in Nat
      BY <1>6
    <3>2. ASSUME NEW i \in 1..10, p + Reach(Signatures[i]) <= Len(image)
          PROVE  p + Reach(Signatures[i]) <= at + n
      <4> DEFINE reach == Reach(Signatures[i])
      <4>1. reach \in Nat
        BY ReachIs
      <4>2. n \in Nat
        BY <1>2, Zenon
      <4>3. p + reach <= Len(image)
        BY <3>2
      <4> HIDE DEF reach, n
      <4>4. p + reach <= at + n
        BY <2>2, <3>1, <4>1, <4>2, <4>3
      <4> QED
        BY <4>4 DEF reach
    <3>3. at <= p => \E m \in matches : at + m[1] <= p /\ m[1] \in Nat
      BY <1>12, <3>2
    <3>4. ~(at <= p)
      BY <1>16, <3>3
    <3> QED
      BY <3>1, <3>4
  <2> QED
    BY <2>1, <2>3 DEF d, w, matches
<1>17. CASE w # <<>> /\ ~SkipsWindow(w) /\ matches = {} /\ WindowAdvance(w) # 0
  <2> DEFINE by == WindowAdvance(w)
  <2>1. d = [do |-> "move", by |-> by]
    BY <1>8, <1>17
  <2>2. by \in Nat /\ by > 0 /\ by = n - CarvingOverlapSize
    <3> DEFINE rest == n - CarvingOverlapSize
    <3>1. rest \in Int
      BY <1>1, <1>2
    <3>2. by = (IF rest <= 0 THEN 0 ELSE rest) /\ by # 0
      BY <1>9, <1>17
    <3> HIDE DEF rest, by
    <3>3. by \in Nat /\ by > 0 /\ by = rest
      BY <3>1, <3>2
    <3> QED
      BY <3>3 DEF rest
  <2> HIDE DEF by
  <2>3. ASSUME NEW p \in Headers(image), ~(p < at), ~(p >= at + by) PROVE FALSE
    <3>1. p \in Nat
      BY <1>6
    <3>2. \A i \in 1..10 : p + Reach(Signatures[i]) <= at + n
      <4> SUFFICES ASSUME NEW i \in 1..10 PROVE p + Reach(Signatures[i]) <= at + n
        OBVIOUS
      <4> DEFINE reach == Reach(Signatures[i])
      <4>1. reach \in Nat /\ reach <= CarvingOverlapSize
        BY <1>1, ReachIs
      <4>2. p < at + by /\ n \in Nat
        BY <1>2, <2>2, <2>3, <3>1
      <4> HIDE DEF reach, n
      <4>3. p + reach <= at + n
        BY <1>1, <2>2, <3>1, <4>1, <4>2
      <4> QED
        BY <4>3 DEF reach
    <3> QED
      BY <1>12, <1>17, <2>3, <3>1, <3>2
  <2>4. d.do = "move" /\ d.by = by
    BY <2>1
  <2> QED
    BY <2>2, <2>3, <2>4 DEF d, w, matches
<1> QED
  BY <1>13, <1>14, <1>15, <1>16, <1>17

\* A place lies in one of the candidates.
IsMet(p, found) == \E i \in 1..Len(found) : found[i].start <= p /\ p < CandidateEnd(found[i])

\* What a scan of "from" to "to" may give.
GoodScan(image, from, to, d) ==
  /\ d.ok \in BOOLEAN /\ d.found \in Seq(Candidates(image)) /\ d = Carved(d.ok, d.found)
  /\ \A i \in 1..Len(d.found) : d.found[i].start >= from
  /\ \A i, j \in 1..Len(d.found) : i < j => CandidateEnd(d.found[i]) <= d.found[j].start
  /\ (d.ok /\ NoErasedPage(image)) =>
       \A p \in Headers(image) : (from <= p /\ p < to) => IsMet(p, d.found)

(* A scan that stops, or fails, before a header.                           *)
LEMMA NothingFound ==
  ASSUME NEW image, NEW from, NEW to, NEW ok \in BOOLEAN,
         (ok /\ NoErasedPage(image)) => \A p \in Headers(image) : ~(from <= p /\ p < to)
  PROVE  GoodScan(image, from, to, Carved(ok, <<>>))
<1> DEFINE none == <<>>
           d == Carved(ok, none)
<1>1. none \in Seq(Candidates(image)) /\ 1..Len(none) = {}
  OBVIOUS
<1> HIDE DEF none
<1>2. d.ok = ok /\ d.found = none /\ d = Carved(d.ok, d.found)
  BY DEF Carved
<1> HIDE DEF d
<1>3. GoodScan(image, from, to, d)
  BY <1>1, <1>2 DEF GoodScan
<1> QED
  BY <1>3 DEF d, none

(* A scan that moves on over no header.                                    *)
LEMMA ScanMoves ==
  ASSUME NEW image \in Seq(Nat), NEW from \in Nat, NEW to \in Nat, NEW next \in Nat, from <= next,
         NEW d, GoodScan(image, next, to, d),
         NoErasedPage(image) => \A p \in Headers(image) : p < from \/ p >= next
  PROVE  GoodScan(image, from, to, d)
<1>1. d.found \in Seq(Candidates(image)) /\ \A i \in 1..Len(d.found) : d.found[i].start >= next
  BY DEF GoodScan
<1>2. \A i \in 1..Len(d.found) : d.found[i] \in Candidates(image) /\ d.found[i].start \in Nat
  BY <1>1, CandidatesAre
<1>3. \A i \in 1..Len(d.found) : d.found[i].start >= from
  BY <1>1, <1>2
<1>4. \A p \in Headers(image) : p \in Nat
  BY DEF Headers
<1>5. ASSUME d.ok, NoErasedPage(image), NEW p \in Headers(image), from <= p, p < to PROVE IsMet(p, d.found)
  BY <1>4, <1>5 DEF GoodScan
<1> QED
  BY <1>3, <1>5 DEF GoodScan

(* A scan that keeps a candidate and goes on after it.                     *)
LEMMA ScanKeeps ==
  ASSUME NEW image \in Seq(Nat), NEW from \in Nat, NEW to \in Nat, NEW c \in Candidates(image),
         from <= c.start, NEW d, GoodScan(image, CandidateEnd(c), to, d),
         \A p \in Headers(image) : p < from \/ p >= c.start
  PROVE  GoodScan(image, from, to, Carved(d.ok, <<c>> \o d.found))
<1> DEFINE C == Candidates(image)
           one == <<c>>
           found == one \o d.found
           e == Carved(d.ok, found)
           End == CandidateEnd(c)
<1>1. /\ d.ok \in BOOLEAN /\ d.found \in Seq(C)
      /\ \A i \in 1..Len(d.found) : d.found[i].start >= End
      /\ \A i, j \in 1..Len(d.found) : i < j => CandidateEnd(d.found[i]) <= d.found[j].start
      /\ (d.ok /\ NoErasedPage(image)) =>
           \A p \in Headers(image) : (End <= p /\ p < to) => IsMet(p, d.found)
  BY DEF GoodScan
<1>2. c.start \in Nat /\ End \in Nat /\ c.start < End
  BY CandidatesAre
<1>3. one \in Seq(C) /\ Len(one) = 1 /\ one[1] = c
  OBVIOUS
<1> HIDE DEF one, C, End
<1>4. /\ found \in Seq(C) /\ Len(d.found) \in Nat /\ Len(found) = Len(d.found) + 1 /\ found[1] = c
      /\ \A i \in 1..Len(d.found) : found[1 + i] = d.found[i]
  <2>1. found \in Seq(C) /\ Len(d.found) \in Nat
    BY <1>1, <1>3
  <2>2. /\ Len(found) = Len(one) + Len(d.found)
        /\ \A i \in 1..Len(one) : found[i] = one[i]
        /\ \A i \in 1..Len(d.found) : found[Len(one) + i] = d.found[i]
    <3> DEFINE rest == d.found
    <3>1. one \in Seq(C) /\ rest \in Seq(C)
      BY <1>1, <1>3
    <3> HIDE DEF rest
    <3>2. /\ Len(one \o rest) = Len(one) + Len(rest)
          /\ \A i \in 1..Len(one) : (one \o rest)[i] = one[i]
          /\ \A i \in 1..Len(rest) : (one \o rest)[Len(one) + i] = rest[i]
      BY <3>1, FrontIs
    <3> QED
      BY <3>2 DEF rest
  <2> HIDE DEF found
  <2> QED
    BY <1>3, <2>1, <2>2
<1>5. e.ok = d.ok /\ e.found = found /\ e = Carved(e.ok, e.found)
  BY DEF Carved
<1> HIDE DEF found, e
<1>6. \A i \in 1..Len(found) : \/ i = 1 /\ found[i] = c
                               \/ i - 1 \in 1..Len(d.found) /\ found[i] = d.found[i - 1]
  <2> SUFFICES ASSUME NEW i \in 1..Len(found), i # 1
               PROVE  i - 1 \in 1..Len(d.found) /\ found[i] = d.found[i - 1]
    BY <1>4
  <2>1. i - 1 \in 1..Len(d.found) /\ 1 + (i - 1) = i
    BY <1>4
  <2> QED
    BY <1>4, <2>1
<1>7. \A i \in 1..Len(d.found) : d.found[i].start \in Nat /\ d.found[i].start >= End
  <2>1. \A i \in 1..Len(d.found) : d.found[i] \in C
    BY <1>1
  <2> QED
    BY <1>1, <2>1, CandidatesAre DEF C
<1>8. \A i \in 1..Len(found) : found[i].start >= from
  <2> SUFFICES ASSUME NEW i \in 1..Len(found) PROVE found[i].start >= from
    OBVIOUS
  <2>1. CASE found[i] = c
    BY <1>2, <2>1
  <2>2. CASE i - 1 \in 1..Len(d.found) /\ found[i] = d.found[i - 1]
    <3> DEFINE a == c.start
               b == d.found[i - 1].start
    <3>1. a \in Nat /\ from <= a /\ a < End /\ End \in Nat /\ b \in Nat /\ b >= End
      BY <1>2, <1>7, <2>2
    <3>2. found[i].start = b
      BY <2>2
    <3> HIDE DEF a, b
    <3> QED
      BY <3>1, <3>2
  <2> QED
    BY <1>6, <2>1, <2>2
<1>9. ASSUME NEW i \in 1..Len(found), NEW j \in 1..Len(found), i < j
      PROVE  CandidateEnd(found[i]) <= found[j].start
  <2>1. j - 1 \in 1..Len(d.found) /\ found[j] = d.found[j - 1]
    BY <1>6, <1>9
  <2>2. CASE i = 1
    BY <1>4, <1>7, <2>1, <2>2 DEF End
  <2>3. CASE i # 1
    <3>1. i - 1 \in 1..Len(d.found) /\ found[i] = d.found[i - 1] /\ i - 1 < j - 1
      BY <1>6, <1>9, <2>3
    <3> QED
      BY <1>1, <2>1, <3>1
  <2> QED
    BY <2>2, <2>3
<1>10. ASSUME d.ok, NoErasedPage(image), NEW p \in Headers(image), from <= p, p < to PROVE IsMet(p, found)
  <2>1. p \in Nat
    BY DEF Headers
  <2>2. p >= c.start
    BY <1>10, <2>1
  <2>3. CASE p < End
    <3>1. 1 \in 1..Len(found)
      BY <1>4
    <3> QED
      BY <1>2, <1>4, <2>1, <2>2, <2>3, <3>1 DEF IsMet, End
  <2>4. CASE p >= End
    <3>1. PICK i \in 1..Len(d.found) : d.found[i].start <= p /\ p < CandidateEnd(d.found[i])
      BY <1>1, <1>2, <1>10, <2>1, <2>4 DEF IsMet
    <3>2. 1 + i \in 1..Len(found) /\ found[1 + i] = d.found[i]
      BY <1>4
    <3> QED
      BY <3>1, <3>2 DEF IsMet
  <2> QED
    BY <1>2, <2>1, <2>3, <2>4
<1>11. GoodScan(image, from, to, e)
  BY <1>1, <1>4, <1>5, <1>8, <1>9, <1>10 DEF GoodScan, C
<1> QED
  BY <1>11 DEF e, found, one

(* The scan of a segment: what carve_segment gives.                        *)
LEMMA SegmentIs ==
  ASSUME NEW image \in Seq(Nat), NEW from \in Nat, NEW to \in Nat
  PROVE  GoodScan(image, from, to, CarveSegment(image, from, to))
<1> DEFINE C == Candidates(image)
           Do(at) == WindowStep(image, at, Window(image, at, CarvingChunkSize),
                                SignatureMatches(Window(image, at, CarvingChunkSize)))
           At(at) == CarvedAt(image, Do(at).start, Do(at).sign)
           After(at) == Max({CandidateEnd(At(at)), Do(at).start + 1})
           Small(at) == TooSmall(At(at), Do(at).sign)
           Body(f, at) ==
             IF at >= to THEN Carved(TRUE, <<>>)
             ELSE CASE Do(at).do = "stop" -> Carved(TRUE, <<>>)
                    [] Do(at).do = "move" -> f[at + Do(at).by]
                    [] Do(at).do = "carve" ->
                         IF Small(at) THEN Carved(FALSE, <<>>)
                         ELSE Carved(f[After(at)].ok, <<At(at)>> \o f[After(at)].found)
           Step(f) == [at \in Nat |-> Body(f, at)]
           scan == CHOOSE f : f = Step(f)
           Ends(at) == at >= to \/ Do(at).do = "stop" \/ (Do(at).do = "carve" /\ Small(at))
           D == {d \in [ok : BOOLEAN, found : Seq(C)] : TRUE}
           T == {at \in Nat : Ends(at)}
           none == <<>>
           base == [at \in Nat |-> IF at >= to \/ Do(at).do = "stop" THEN Carved(TRUE, none) ELSE Carved(FALSE, none)]
           next == [at \in Nat |-> IF Ends(at) THEN at
                                   ELSE IF Do(at).do = "move" THEN at + Do(at).by ELSE After(at)]
           wrap == [x \in Nat \X D |-> IF Do(x[1]).do = "carve" /\ ~Small(x[1])
                                       THEN Carved(x[2].ok, <<At(x[1])>> \o x[2].found) ELSE x[2]]
<1>1. CarveSegment(image, from, to) = scan[from]
  BY DEF CarveSegment
<1>2. ASSUME NEW at \in Nat
      PROVE  /\ Do(at).do \in {"stop", "move", "carve"}
             /\ Do(at).do = "stop" => (NoErasedPage(image) => \A p \in Headers(image) : p < at)
             /\ Do(at).do = "move" =>
                  /\ Do(at).by \in Nat /\ Do(at).by > 0
                  /\ NoErasedPage(image) => \A p \in Headers(image) : p < at \/ p >= at + Do(at).by
             /\ Do(at).do = "carve" =>
                  \E i \in 1..10 : /\ Do(at).sign = Signatures[i] /\ Do(at).start \in Places(image, Signatures[i].header)
                                   /\ Do(at).start \in Nat /\ Do(at).start >= at
                                   /\ \A p \in Headers(image) : p < at \/ p >= Do(at).start
  BY StepIs
<1> HIDE DEF Do
<1>3. ASSUME NEW at \in Nat, Do(at).do = "carve", ~Small(at)
      PROVE  /\ At(at) \in C /\ At(at).start \in Nat /\ At(at).start >= at
             /\ CandidateEnd(At(at)) \in Nat /\ At(at).start < CandidateEnd(At(at))
             /\ After(at) = CandidateEnd(At(at))
             /\ \A p \in Headers(image) : p < at \/ p >= At(at).start
  <2>1. PICK i \in 1..10 : /\ Do(at).sign = Signatures[i] /\ Do(at).start \in Places(image, Signatures[i].header)
                           /\ Do(at).start \in Nat /\ Do(at).start >= at
                           /\ \A p \in Headers(image) : p < at \/ p >= Do(at).start
    BY <1>2, <1>3
  <2>2. At(at) \in C /\ At(at).start = Do(at).start
    <3> DEFINE p == Do(at).start
    <3>1. p \in Places(image, Signatures[i].header)
      BY <2>1
    <3>2. At(at) = CarvedAt(image, p, Signatures[i])
      BY <2>1
    <3>3. ~TooSmall(CarvedAt(image, p, Signatures[i]), Signatures[i])
      BY <1>3, <2>1
    <3> HIDE DEF p
    <3>4. /\ CarvedAt(image, p, Signatures[i]) \in Candidates(image)
          /\ CarvedAt(image, p, Signatures[i]).start = p
      BY <3>1, <3>3, CandidateMade
    <3> QED
      BY <3>2, <3>4 DEF p
  <2>3. At(at).start \in Nat /\ CandidateEnd(At(at)) \in Nat /\ At(at).start < CandidateEnd(At(at))
    BY <2>2, CandidatesAre
  <2> DEFINE s == Do(at).start
             e == CandidateEnd(At(at))
  <2>4. s \in Nat /\ e \in Nat /\ s < e
    BY <2>2, <2>3
  <2>5. After(at) = Max({e, s + 1})
    OBVIOUS
  <2> HIDE DEF s, e, At, After
  <2>6. After(at) = e
    BY <2>4, <2>5, MaxOfTwo
  <2> QED
    BY <2>1, <2>2, <2>3, <2>6 DEF e
<1> HIDE DEF C, At, After, Small
<1>4. T \in SUBSET Nat /\ \A n \in Nat : n >= to => n \in T
  OBVIOUS
<1>5. base \in [Nat -> D]
  <2>1. none \in Seq(C)
    OBVIOUS
  <2> HIDE DEF none
  <2> QED
    BY <2>1 DEF Carved
<1>6. next \in [Nat -> Nat] /\ \A n \in Nat \ T : next[n] > n
  <2>1. ASSUME NEW n \in Nat PROVE next[n] \in Nat /\ (~Ends(n) => next[n] > n)
    <3>1. CASE Ends(n)
      BY <3>1
    <3>2. CASE ~Ends(n) /\ Do(n).do = "move"
      <4>1. next[n] = n + Do(n).by
        BY <3>2
      <4>2. Do(n).by \in Nat /\ Do(n).by > 0
        BY <1>2, <3>2
      <4> HIDE DEF next, Ends
      <4> QED
        BY <4>1, <4>2
    <3>3. CASE ~Ends(n) /\ Do(n).do # "move"
      <4>1. next[n] = After(n)
        BY <3>3
      <4>2. Do(n).do = "carve" /\ ~Small(n)
        BY <1>2, <3>3
      <4>3. After(n) = CandidateEnd(At(n)) /\ CandidateEnd(At(n)) \in Nat /\ CandidateEnd(At(n)) > n
        <5>1. /\ After(n) = CandidateEnd(At(n)) /\ CandidateEnd(At(n)) \in Nat
              /\ At(n).start \in Nat /\ At(n).start >= n /\ At(n).start < CandidateEnd(At(n))
          BY <1>3, <4>2
        <5> QED
          BY <5>1
      <4> HIDE DEF next, Ends
      <4> QED
        BY <4>1, <4>3
    <3> QED
      BY <3>1, <3>2, <3>3
  <2>2. next = [n \in Nat |-> next[n]]
    OBVIOUS
  <2>3. \A n \in Nat \ T : ~Ends(n)
    OBVIOUS
  <2> HIDE DEF next, Ends, T
  <2> QED
    BY <2>1, <2>2, <2>3
<1>7. wrap \in [Nat \X D -> D]
  <2> SUFFICES ASSUME NEW x \in Nat \X D, Do(x[1]).do = "carve" /\ ~Small(x[1])
               PROVE  Carved(x[2].ok, <<At(x[1])>> \o x[2].found) \in D
    OBVIOUS
  <2>1. At(x[1]) \in C
    BY <1>3
  <2>2. x[2].ok \in BOOLEAN /\ x[2].found \in Seq(C)
    OBVIOUS
  <2>3. <<At(x[1])>> \o x[2].found \in Seq(C)
    <3> DEFINE one == <<At(x[1])>>
               rest == x[2].found
    <3>1. one \in Seq(C) /\ rest \in Seq(C)
      BY <2>1, <2>2
    <3> HIDE DEF one, rest
    <3>2. one \o rest \in Seq(C)
      BY <3>1
    <3> QED
      BY <3>2 DEF one, rest
  <2> QED
    BY <2>2, <2>3 DEF Carved
<1>8. \E f \in [Nat -> D] : f = Step(f)
  <2> HIDE DEF D, T, base, next, wrap
  <2>1. PICK f \in [Nat -> D] :
          \A n \in Nat : f[n] = IF n \in T THEN base[n] ELSE wrap[<<n, f[next[n]]>>]
    <3>1. Walk(D, to, T, base, next, wrap)
      BY <1>4, <1>5, <1>6, <1>7 DEF Walk
    <3> QED
      BY <3>1, Unwinds
  <2>2. ASSUME NEW n \in Nat PROVE f[n] = Step(f)[n]
    <3>1. CASE n >= to
      <4>1. f[n] = base[n]
        BY <2>1, <3>1 DEF T
      <4> QED
        BY <3>1, <4>1 DEF base
    <3>2. CASE ~(n >= to) /\ Do(n).do = "stop"
      <4>1. f[n] = base[n]
        BY <2>1, <3>2 DEF T
      <4> QED
        BY <3>2, <4>1 DEF base
    <3>3. CASE ~(n >= to) /\ Do(n).do = "carve" /\ Small(n)
      <4>1. f[n] = base[n]
        BY <2>1, <3>3 DEF T
      <4>2. base[n] = Carved(FALSE, none)
        BY <3>3 DEF base
      <4>3. Step(f)[n] = Carved(FALSE, none)
        BY <3>3
      <4> QED
        BY <4>1, <4>2, <4>3
    <3>4. CASE ~(n >= to) /\ Do(n).do = "move"
      <4>1. n \notin T /\ next[n] = n + Do(n).by
        BY <3>4 DEF T, next
      <4>2. next[n] \in Nat /\ f[next[n]] \in D
        BY <1>6, <4>1
      <4>3. wrap[<<n, f[next[n]]>>] = f[next[n]]
        BY <3>4, <4>2 DEF wrap
      <4>4. Step(f)[n] = f[n + Do(n).by]
        BY <3>4
      <4> QED
        BY <2>1, <4>1, <4>3, <4>4
    <3>5. CASE ~(n >= to) /\ Do(n).do = "carve" /\ ~Small(n)
      <4>1. n \notin T /\ next[n] = After(n)
        BY <3>5 DEF T, next
      <4>2. next[n] \in Nat /\ f[next[n]] \in D
        BY <1>6, <4>1
      <4>3. wrap[<<n, f[next[n]]>>] = Carved(f[After(n)].ok, <<At(n)>> \o f[After(n)].found)
        BY <3>5, <4>1, <4>2 DEF wrap
      <4>4. Step(f)[n] = Carved(f[After(n)].ok, <<At(n)>> \o f[After(n)].found)
        BY <3>5
      <4> QED
        BY <2>1, <4>1, <4>3, <4>4
    <3> QED
      BY <1>2, <3>1, <3>2, <3>3, <3>4, <3>5
  <2>3. f = Step(f)
    <3>1. Step(f) = [n \in Nat |-> Step(f)[n]] /\ f = [n \in Nat |-> f[n]]
      <4> HIDE DEF Body
      <4> QED
        OBVIOUS
    <3> HIDE DEF Step
    <3> QED
      BY <2>2, <3>1
  <2> QED
    BY <2>3
<1>9. scan = Step(scan)
  <2> HIDE DEF Step
  <2> QED
    BY <1>8
<1> DEFINE G == {n \in Nat : GoodScan(image, n, to, scan[n])}
<1> HIDE DEF scan, D, T, base, next, wrap, Ends
<1>10. \A p \in Headers(image) : p \in Nat
  BY DEF Headers
<1>11. ASSUME NEW n \in Nat, n >= to PROVE n \in G
  <2>1. scan[n] = Carved(TRUE, <<>>)
    BY <1>9, <1>11
  <2>2. \A p \in Headers(image) : ~(n <= p /\ p < to)
    BY <1>10, <1>11
  <2> QED
    BY <2>1, <2>2, NothingFound
<1>12. ASSUME NEW n \in Nat, \A k \in Nat : k > n => k \in G, ~(n >= to) PROVE n \in G
  <2>1. CASE Do(n).do = "stop"
    <3>1. scan[n] = Carved(TRUE, <<>>)
      BY <1>9, <1>12, <2>1
    <3>2. NoErasedPage(image) => \A p \in Headers(image) : ~(n <= p /\ p < to)
      BY <1>2, <1>10, <2>1
    <3> QED
      BY <3>1, <3>2, NothingFound
  <2>2. CASE Do(n).do = "carve" /\ Small(n)
    <3>1. scan[n] = Carved(FALSE, <<>>)
      <4> DEFINE c == Do(n).do
                 b == Small(n)
      <4>1. scan[n] = IF n >= to THEN Carved(TRUE, <<>>)
                      ELSE CASE c = "stop" -> Carved(TRUE, <<>>)
                             [] c = "move" -> scan[n + Do(n).by]
                             [] c = "carve" ->
                                  IF b THEN Carved(FALSE, <<>>)
                                  ELSE Carved(scan[After(n)].ok, <<At(n)>> \o scan[After(n)].found)
        BY <1>9
      <4> HIDE DEF c
      <4> QED
        BY <1>12, <2>2, <4>1 DEF c
    <3> QED
      BY <3>1, NothingFound
  <2>3. CASE Do(n).do = "move"
    <3> DEFINE by == Do(n).by
    <3>1. scan[n] = scan[n + by]
      BY <1>9, <1>12, <2>3
    <3>2. by \in Nat /\ by > 0 /\ (NoErasedPage(image) => \A p \in Headers(image) : p < n \/ p >= n + by)
      BY <1>2, <2>3
    <3> HIDE DEF by
    <3>3. n + by \in Nat /\ n + by > n /\ n <= n + by
      BY <3>2
    <3>4. GoodScan(image, n + by, to, scan[n + by])
      BY <1>12, <3>3
    <3>5. GoodScan(image, n, to, scan[n + by])
      BY <3>2, <3>3, <3>4, ScanMoves
    <3> QED
      BY <3>1, <3>5
  <2>4. CASE Do(n).do = "carve" /\ ~Small(n)
    <3> DEFINE c == At(n)
               d == scan[After(n)]
    <3>1. scan[n] = Carved(d.ok, <<c>> \o d.found)
      BY <1>9, <1>12, <2>4
    <3>2. /\ c \in C /\ c.start \in Nat /\ c.start >= n
          /\ CandidateEnd(c) \in Nat /\ c.start < CandidateEnd(c) /\ After(n) = CandidateEnd(c)
          /\ \A p \in Headers(image) : p < n \/ p >= c.start
      BY <1>3, <2>4
    <3> HIDE DEF c
    <3>3. After(n) \in Nat /\ After(n) > n /\ n <= c.start
      BY <3>2
    <3>4. GoodScan(image, CandidateEnd(c), to, d)
      BY <1>12, <3>2, <3>3
    <3> HIDE DEF d
    <3>5. GoodScan(image, n, to, Carved(d.ok, <<c>> \o d.found))
      BY <3>2, <3>3, <3>4, ScanKeeps DEF C
    <3> QED
      BY <3>1, <3>5
  <2> QED
    BY <1>2, <2>1, <2>2, <2>3, <2>4
<1>13. G = Nat
  <2>1. G \in SUBSET Nat
    OBVIOUS
  <2>2. \A n \in Nat : n >= to => n \in G
    BY <1>11
  <2>3. ASSUME NEW n \in Nat, \A k \in Nat : k > n => k \in G PROVE n \in G
    BY <1>11, <1>12, <2>3
  <2> HIDE DEF G
  <2> QED
    BY <2>1, <2>2, <2>3, Backwards
<1> QED
  BY <1>1, <1>13

-------------------------------------------------------------------------------
(* The segments together.                                                  *)

(* Of pairs of numbers one comes first, line by line.                      *)
LEMMA FirstPair ==
  ASSUME NEW S \in SUBSET (Nat \X Nat), S # {}
  PROVE  \E f \in S : \A e \in S : ~(e[1] < f[1] \/ (e[1] = f[1] /\ e[2] < f[2]))
<1> DEFINE rows == {f[1] : f \in S}
<1>1. rows \in SUBSET Nat /\ rows # {}
  OBVIOUS
<1>2. PICK row \in rows : \A r \in rows : row <= r
  <2> HIDE DEF rows
  <2> QED
    BY <1>1, LeastNumber
<1> DEFINE places == {f[2] : f \in {f \in S : f[1] = row}}
<1>3. places \in SUBSET Nat /\ places # {}
  BY <1>2
<1>4. PICK place \in places : \A q \in places : place <= q
  <2> HIDE DEF places
  <2> QED
    BY <1>3, LeastNumber
<1>5. PICK f \in S : f[1] = row /\ f[2] = place
  BY <1>4
<1>6. ASSUME NEW e \in S PROVE ~(e[1] < f[1] \/ (e[1] = f[1] /\ e[2] < f[2]))
  <2>1. e[1] \in Nat /\ e[2] \in Nat /\ f[1] \in Nat /\ f[2] \in Nat
    OBVIOUS
  <2>2. row <= e[1]
    BY <1>2
  <2>3. e[1] = row => place <= e[2]
    BY <1>4
  <2> QED
    BY <1>5, <2>1, <2>2, <2>3
<1> QED
  BY <1>6

\* All that the segments found, once each, in order.
IsMerged(image, k, parts, m) ==
  /\ m.ok <=> \A i \in 1..k : parts[i].ok
  /\ m.found \in Seq(Candidates(image))
  /\ \A i, j \in 1..Len(m.found) : i < j => m.found[i].start < m.found[j].start
  /\ \A i \in 1..k : \A x \in 1..Len(parts[i].found) :
       \E j \in 1..Len(m.found) : m.found[j] = parts[i].found[x]
  /\ \A j \in 1..Len(m.found) :
       \E i \in 1..k : \E x \in 1..Len(parts[i].found) : m.found[j] = parts[i].found[x]

(* What carve_signatures makes of the segments.                            *)
LEMMA MergedIs ==
  ASSUME NEW image \in Seq(Nat), NEW k \in Nat, NEW parts, DOMAIN parts = 1..k,
         \A i \in 1..k : parts[i].found \in Seq(Candidates(image))
  PROVE  IsMerged(image, k, parts, Merged(parts))
<1> DEFINE C == Candidates(image)
           finds == UNION {{<<i, x>> : x \in DOMAIN parts[i].found} : i \in DOMAIN parts}
           At(f) == parts[f[1]].found[f[2]]
           First(f) == \A e \in finds : (e[1] < f[1] \/ (e[1] = f[1] /\ e[2] < f[2])) => At(e).start # At(f).start
           kept == {At(f) : f \in {f \in finds : First(f)}}
           before == {p \in kept \X kept : p[1].start < p[2].start}
           list == Ranked(kept, before)
           m == Merged(parts)
<1>1. m = Carved(\A i \in 1..k : parts[i].ok, list)
  BY DEF Merged
<1>2. (m.ok <=> \A i \in 1..k : parts[i].ok) /\ m.found = list
  <2> DEFINE all == \A i \in 1..k : parts[i].ok
  <2>1. m = Carved(all, list)
    BY <1>1
  <2> HIDE DEF all, list, m
  <2>2. m.ok = all /\ m.found = list
    BY <2>1 DEF Carved
  <2> QED
    BY <2>2, ZenonT(30) DEF all
<1>3. \A i \in 1..k : DOMAIN parts[i].found = 1..Len(parts[i].found) /\ Len(parts[i].found) \in Nat
  OBVIOUS
<1>4. finds = UNION {{<<i, x>> : x \in 1..Len(parts[i].found)} : i \in 1..k}
  BY <1>3
<1> HIDE DEF finds
<1>5. ASSUME NEW f \in finds
      PROVE  /\ f \in Nat \X Nat /\ f[1] \in 1..k /\ f[2] \in 1..Len(parts[f[1]].found) /\ At(f) \in C
  <2>1. PICK i \in 1..k : f \in {<<i, x>> : x \in 1..Len(parts[i].found)}
    BY <1>4
  <2>2. PICK x \in 1..Len(parts[i].found) : f = <<i, x>>
    BY <2>1
  <2>3. f[1] = i /\ f[2] = x /\ i \in Nat /\ x \in Nat
    BY <1>3, <2>2
  <2>4. parts[i].found[x] \in C
    OBVIOUS
  <2> QED
    BY <2>2, <2>3, <2>4
<1>6. \A i \in 1..k : \A x \in 1..Len(parts[i].found) : <<i, x>> \in finds
  BY <1>4
<1> HIDE DEF C, At
<1>7. \A c, d \in C : c.start = d.start => c = d
  BY CandidatesDiffer DEF C
<1>8. \A c \in C : c.start \in Nat
  BY CandidatesAre DEF C
<1>9. kept \in SUBSET C
  BY <1>5
<1>10. IsFiniteSet(kept)
  <2>1. IsFiniteSet(C)
    BY CandidatesDiffer DEF C
  <2> HIDE DEF kept
  <2> QED
    BY <1>9, <2>1, FS_Subset
<1>11. ASSUME NEW f \in finds PROVE At(f) \in kept
  <2> DEFINE same == {e \in finds : At(e).start = At(f).start}
  <2>1. same \in SUBSET (Nat \X Nat) /\ same # {}
    BY <1>5
  <2>2. PICK g \in same : \A e \in same : ~(e[1] < g[1] \/ (e[1] = g[1] /\ e[2] < g[2]))
    <3> HIDE DEF same
    <3> QED
      BY <2>1, FirstPair
  <2>3. g \in finds /\ First(g) /\ At(g).start = At(f).start
    BY <2>2
  <2>4. At(g) = At(f)
    BY <1>5, <1>7, <2>3
  <2>5. At(g) \in kept
    BY <2>3
  <2> QED
    BY <2>4, <2>5
<1>12. \A c \in kept : \E f \in finds : c = At(f)
  OBVIOUS
<1> HIDE DEF kept, First
<1>13. \A c, d \in kept : <<c, d>> \in before <=> c.start < d.start
  OBVIOUS
<1> HIDE DEF before
<1>14. Orders(before, kept)
  <2>1. \A c \in kept : c.start \in Nat
    BY <1>8, <1>9
  <2>2. \A c, d \in kept : c # d => c.start # d.start
    BY <1>7, <1>9
  <2>3. \A c \in kept : <<c, c>> \notin before
    BY <1>13, <2>1
  <2>4. \A c, d, e \in kept : <<c, d>> \in before /\ <<d, e>> \in before => <<c, e>> \in before
    BY <1>13, <2>1
  <2>5. \A c, d \in kept : c # d => <<c, d>> \in before \/ <<d, c>> \in before
    BY <1>13, <2>1, <2>2
  <2> QED
    BY <2>3, <2>4, <2>5 DEF Orders
<1> DEFINE n == Cardinality(kept)
<1>15. /\ n \in Nat /\ list \in [1..n -> kept] /\ Range(list) = kept
       /\ \A i, j \in 1..n : i < j => <<list[i], list[j]>> \in before
  BY <1>10, <1>14, RankedIs
<1> HIDE DEF n, list
<1>16. list \in Seq(kept) /\ Len(list) = n
  BY <1>15, ListMade
<1>17. list \in Seq(C)
  BY <1>9, <1>16
<1>18. \A i, j \in 1..n : i < j => list[i].start < list[j].start
  BY <1>13, <1>15
<1>19. \A c \in kept : \E j \in 1..n : list[j] = c
  BY <1>15 DEF Range
<1>20. ASSUME NEW i \in 1..k, NEW x \in 1..Len(parts[i].found)
       PROVE  \E j \in 1..n : list[j] = parts[i].found[x]
  <2>1. At(<<i, x>>) \in kept
    BY <1>6, <1>11
  <2>2. At(<<i, x>>) = parts[i].found[x]
    BY DEF At
  <2> QED
    BY <1>19, <2>1, <2>2
<1>21. ASSUME NEW j \in 1..n
       PROVE  \E i \in 1..k : \E x \in 1..Len(parts[i].found) : list[j] = parts[i].found[x]
  <2>1. list[j] \in kept
    BY <1>15
  <2>2. PICK f \in finds : list[j] = At(f)
    BY <1>12, <2>1
  <2> QED
    BY <1>5, <2>2 DEF At
<1> HIDE DEF m
<1> QED
  BY <1>2, <1>16, <1>17, <1>18, <1>20, <1>21 DEF IsMerged, C, m

(* Every header lies in a segment, unless segments are longer than they    *)
(* need be and fewer cells follow it than there are threads.               *)
LEMMA SegmentsAre ==
  ASSUME NEW image, NEW threads, IsCarvable(image, threads)
  PROVE  LET pieces == Segments(Len(image), threads)
         IN  \E k \in Nat :
               /\ DOMAIN pieces = 1..k /\ (threads = 1 => k = 1)
               /\ \A i \in 1..k : pieces[i][1] \in Nat /\ pieces[i][2] \in Nat
               /\ \A p \in Headers(image) : InSomeSegment(p, image, threads) =>
                    \E i \in 1..k : pieces[i][1] <= p /\ p < pieces[i][2]
<1> DEFINE size == Len(image)
           segment == Max({size \div threads, MinSegmentSize})
           overlap == 2 + CarvingOverlapSize
           From(i) == IF i = 0 THEN 0 ELSE Max({0, i * segment - overlap})
           To(i) == Min({(i + 1) * segment, size})
           pieces == Segments(size, threads)
<1>1. image \in Seq(Nat) /\ threads \in Nat \ {0} /\ size \in Nat
  BY DEF IsCarvable
<1>2. MinSegmentSize \in Nat \ {0} /\ overlap \in Nat
  BY Lengths
<1>3. pieces = IF size < MinSegmentSize * 2 \/ threads <= 1 THEN <<<<0, size>>>>
               ELSE [i \in 1..threads |-> <<From(i - 1), To(i - 1)>>]
  BY DEF Segments
<1>4. \A p \in Headers(image) : p \in Nat /\ p < size
  BY <1>1 DEF Headers
<1>5. CASE size < MinSegmentSize * 2 \/ threads <= 1
  <2>1. pieces = <<<<0, size>>>>
    BY <1>3, <1>5
  <2> HIDE DEF pieces, size
  <2>2. DOMAIN pieces = 1..1 /\ pieces[1][1] = 0 /\ pieces[1][2] = size
    BY <2>1
  <2>3. \A i \in 1..1 : pieces[i][1] \in Nat /\ pieces[i][2] \in Nat
    BY <1>1, <2>2
  <2>4. \A p \in Headers(image) : \E i \in 1..1 : pieces[i][1] <= p /\ p < pieces[i][2]
    BY <1>4, <2>2
  <2>5. 1 \in Nat /\ (threads = 1 => 1 = 1)
    OBVIOUS
  <2> QED
    BY <2>2, <2>3, <2>4, <2>5 DEF pieces, size
<1>6. CASE ~(size < MinSegmentSize * 2 \/ threads <= 1)
  <2> DEFINE least == size \div threads
             rest == size % threads
  <2>1. least \in Nat /\ rest \in 0..(threads - 1) /\ size = threads * least + rest
    <3> HIDE DEF size
    <3> QED
      BY <1>1, DivMod
  <2>2. segment \in Nat \ {0} /\ segment >= least /\ segment >= MinSegmentSize
    <3>1. segment = Max({least, MinSegmentSize})
      OBVIOUS
    <3> HIDE DEF least, segment
    <3>2. Max({least, MinSegmentSize}) = IF least >= MinSegmentSize THEN least ELSE MinSegmentSize
      BY <1>2, <2>1, MaxOfTwo
    <3> QED
      BY <1>2, <2>1, <3>1, <3>2
  <2> HIDE DEF segment, least, rest, overlap
  <2>3. ASSUME NEW i \in Nat
        PROVE  /\ i * segment \in Nat /\ (i + 1) * segment \in Nat
               /\ From(i) \in Nat /\ From(i) <= i * segment
               /\ To(i) = IF (i + 1) * segment <= size THEN (i + 1) * segment ELSE size
               /\ To(i) \in Nat
    <3> DEFINE a == i * segment
               b == (i + 1) * segment
    <3>1. a \in Nat /\ b \in Nat
      BY <2>2
    <3>2. From(i) = IF i = 0 THEN 0 ELSE Max({0, a - overlap})
      OBVIOUS
    <3>3. To(i) = Min({b, size})
      OBVIOUS
    <3> HIDE DEF a, b, size, From, To
    <3>4. Max({0, a - overlap}) = IF 0 >= a - overlap THEN 0 ELSE a - overlap
      BY <1>2, <3>1, MaxOfTwo
    <3>5. From(i) \in Nat /\ From(i) <= a
      BY <1>2, <3>1, <3>2, <3>4
    <3>6. To(i) = IF b <= size THEN b ELSE size
      BY <1>1, <3>1, <3>3, MinOfTwo
    <3> QED
      BY <1>1, <3>1, <3>5, <3>6 DEF a, b
  <2> HIDE DEF From, To
  <2>4. /\ DOMAIN pieces = 1..threads
        /\ \A i \in 1..threads : pieces[i][1] = From(i - 1) /\ pieces[i][2] = To(i - 1)
    BY <1>3, <1>6
  <2> HIDE DEF pieces
  <2>5. \A i \in 1..threads : pieces[i][1] \in Nat /\ pieces[i][2] \in Nat
    <3>1. \A i \in 1..threads : i - 1 \in Nat
      BY <1>1
    <3> QED
      BY <2>3, <2>4, <3>1
  <2>6. ASSUME NEW p \in Headers(image), InSomeSegment(p, image, threads)
        PROVE  \E i \in 1..threads : pieces[i][1] <= p /\ p < pieces[i][2]
    <3>1. p < threads * MinSegmentSize \/ p + threads <= size
      BY <1>6, <2>6 DEF InSomeSegment
    <3> DEFINE q == p \div segment
               r == p % segment
    <3>2. p \in Nat
      BY <1>4
    <3>3. q \in Nat /\ r \in 0..(segment - 1) /\ p = segment * q + r
      BY <2>2, <3>2, DivMod
    <3> HIDE DEF q, r, size
    <3>4. p < threads * segment
      <4> DEFINE a == threads * segment
                 b == threads * least
                 c == threads * MinSegmentSize
      <4>1. a >= b /\ a >= c
        BY <1>1, <1>2, <2>1, <2>2, ProductGrows
      <4>2. a \in Nat /\ b \in Nat /\ c \in Nat /\ size = b + rest
        BY <1>1, <1>2, <2>1, <2>2
      <4>3. p < c \/ p + threads <= size
        BY <3>1
      <4> HIDE DEF a, b, c
      <4>4. p < a
        BY <1>1, <2>1, <3>2, <4>1, <4>2, <4>3
      <4> QED
        BY <4>4 DEF a
    <3>5. q < threads
      <4> SUFFICES ASSUME q >= threads PROVE FALSE
        BY <1>1, <3>3
      <4>1. segment * q >= segment * threads
        BY <1>1, <2>2, <3>3, ProductGrows
      <4> DEFINE a == segment * q
                 b == segment * threads
      <4>2. a \in Nat /\ b \in Nat /\ a >= b /\ p = a + r /\ b = threads * segment
        BY <1>1, <2>2, <3>3, <4>1
      <4> HIDE DEF a, b
      <4> QED
        BY <3>2, <3>3, <3>4, <4>2
    <3>6. q * segment <= p /\ p < (q + 1) * segment
      <4>1. q * segment = segment * q /\ (q + 1) * segment = segment * q + segment /\ segment * q \in Nat
        BY <2>2, <3>3
      <4> DEFINE a == segment * q
      <4>2. a \in Nat /\ p = a + r
        BY <3>3, <4>1
      <4> HIDE DEF a
      <4>3. a <= p /\ p < a + segment
        BY <2>2, <3>2, <3>3, <4>2
      <4> QED
        BY <4>1, <4>3 DEF a
    <3>7. From(q) <= p /\ p < To(q)
      <4> DEFINE a == q * segment
                 b == (q + 1) * segment
      <4>1. a \in Nat /\ b \in Nat /\ From(q) \in Nat /\ From(q) <= a /\ To(q) = IF b <= size THEN b ELSE size
        BY <2>3, <3>3
      <4>2. a <= p /\ p < b
        BY <3>6
      <4> HIDE DEF a, b
      <4> QED
        BY <1>4, <3>2, <4>1, <4>2 DEF size
    <3>8. q + 1 \in 1..threads /\ (q + 1) - 1 = q
      BY <1>1, <3>3, <3>5
    <3>9. pieces[q + 1][1] = From(q) /\ pieces[q + 1][2] = To(q)
      BY <2>4, <3>8
    <3> QED
      BY <3>7, <3>8, <3>9
  <2>7. threads \in Nat /\ (threads = 1 => threads = 1)
    BY <1>1
  <2> QED
    BY <2>4, <2>5, <2>6, <2>7 DEF pieces
<1> QED
  BY <1>5, <1>6

(* The promise of carving holds for every image and number of threads.     *)
LEMMA CarvingMeets ==
  ASSUME NEW image, NEW threads, WindowsOverlap, IsCarvable(image, threads)
  PROVE  CarvingMeetsEveryHeader(image, threads)
<1> DEFINE pieces == Segments(Len(image), threads)
           parts == [i \in DOMAIN pieces |-> CarveSegment(image, pieces[i][1], pieces[i][2])]
           m == Merged(parts)
           found == m.found
           C == Candidates(image)
           SignatureOf(c) == CHOOSE s \in Range(Signatures) : s.ext = c.ext
<1>1. CarveSignatures(image, threads) = m
  BY DEF CarveSignatures
<1>2. image \in Seq(Nat)
  BY DEF IsCarvable
<1>3. PICK k \in Nat :
        /\ DOMAIN pieces = 1..k /\ (threads = 1 => k = 1)
        /\ \A i \in 1..k : pieces[i][1] \in Nat /\ pieces[i][2] \in Nat
        /\ \A p \in Headers(image) : InSomeSegment(p, image, threads) =>
             \E i \in 1..k : pieces[i][1] <= p /\ p < pieces[i][2]
  BY SegmentsAre
<1> HIDE DEF pieces
<1>4. DOMAIN parts = 1..k
  BY <1>3
<1>5. ASSUME NEW i \in 1..k PROVE GoodScan(image, pieces[i][1], pieces[i][2], parts[i])
  <2> DEFINE from == pieces[i][1]
             to == pieces[i][2]
  <2>1. from \in Nat /\ to \in Nat /\ parts[i] = CarveSegment(image, from, to)
    BY <1>3
  <2> HIDE DEF from, to, parts
  <2>2. GoodScan(image, from, to, CarveSegment(image, from, to))
    BY <1>2, <2>1, SegmentIs
  <2> QED
    BY <2>1, <2>2 DEF from, to
<1> HIDE DEF parts
<1>6. \A i \in 1..k : parts[i].found \in Seq(C)
  BY <1>5 DEF GoodScan
<1>7. /\ m.ok <=> \A i \in 1..k : parts[i].ok
      /\ found \in Seq(C)
      /\ \A i, j \in 1..Len(found) : i < j => found[i].start < found[j].start
      /\ \A i \in 1..k : \A x \in 1..Len(parts[i].found) :
           \E j \in 1..Len(found) : found[j] = parts[i].found[x]
      /\ \A j \in 1..Len(found) :
           \E i \in 1..k : \E x \in 1..Len(parts[i].found) : found[j] = parts[i].found[x]
  <2>1. IsMerged(image, k, parts, m)
    BY <1>2, <1>4, <1>6, MergedIs
  <2> HIDE DEF m
  <2> QED
    BY <2>1 DEF IsMerged
<1> HIDE DEF m
<1>8. DOMAIN found = 1..Len(found) /\ Len(found) \in Nat /\ \A i \in 1..Len(found) : found[i] \in C
  BY <1>7
<1> HIDE DEF found
<1>9. ASSUME m.ok, NoErasedPage(image), NEW p \in Headers(image), InSomeSegment(p, image, threads)
      PROVE  \E i \in DOMAIN found : found[i].start <= p /\ p < CandidateEnd(found[i])
  <2>1. PICK i \in 1..k : pieces[i][1] <= p /\ p < pieces[i][2]
    BY <1>3, <1>9
  <2>2. IsMet(p, parts[i].found)
    BY <1>5, <1>7, <1>9, <2>1 DEF GoodScan
  <2>3. PICK x \in 1..Len(parts[i].found) :
          parts[i].found[x].start <= p /\ p < CandidateEnd(parts[i].found[x])
    BY <2>2 DEF IsMet
  <2>4. PICK j \in 1..Len(found) : found[j] = parts[i].found[x]
    BY <1>7
  <2> QED
    BY <1>8, <2>3, <2>4
<1>10. ASSUME NEW i \in DOMAIN found
       PROVE  /\ CandidateEnd(found[i]) <= Len(image)
              /\ found[i].integrity \in {"intact", "fragmented"} =>
                   Validates(SignatureOf(found[i]), Stitched(image, found[i].runs))
  <2> DEFINE c == found[i]
  <2>1. c \in C
    BY <1>8
  <2> HIDE DEF c
  <2>2. CandidateEnd(c) <= Len(image)
    BY <1>2, <2>1, CandidatesAre
  <2>3. PICK j \in 1..10 :
          /\ c.ext = Signatures[j].ext
          /\ c.integrity \in {"intact", "fragmented"} => Validates(Signatures[j], Stitched(image, c.runs))
    BY <1>2, <2>1, CandidatesAre
  <2>4. \A s \in Range(Signatures) : s.ext = c.ext => s = Signatures[j]
    <3> SUFFICES ASSUME NEW s \in Range(Signatures), s.ext = c.ext PROVE s = Signatures[j]
      OBVIOUS
    <3>1. PICK l \in 1..10 : s = Signatures[l]
      BY SignaturesAre
    <3>2. l = j
      BY <2>3, <3>1, SignaturesDiffer
    <3> QED
      BY <3>1, <3>2
  <2>5. Signatures[j] \in Range(Signatures)
    BY SignaturesAre
  <2>6. SignatureOf(c) = Signatures[j]
    BY <2>3, <2>4, <2>5
  <2> QED
    BY <2>2, <2>3, <2>6 DEF c
<1>11. ASSUME threads = 1, NEW i \in DOMAIN found, i > 1
       PROVE  CandidateEnd(found[i - 1]) <= found[i].start
  <2> DEFINE c == found[i - 1]
             d == found[i]
             all == parts[1].found
  <2>1. i \in 1..Len(found) /\ i - 1 \in 1..Len(found) /\ i - 1 < i /\ k = 1
    BY <1>3, <1>8, <1>11
  <2>2. c \in C /\ d \in C /\ c.start < d.start
    BY <1>7, <1>8, <2>1
  <2>3. PICK x \in 1..Len(all) : c = all[x]
    <3>1. PICK e \in 1..k : \E x \in 1..Len(parts[e].found) : c = parts[e].found[x]
      BY <1>7, <2>1
    <3>2. e = 1
      BY <2>1
    <3> QED
      BY <3>1, <3>2
  <2>4. PICK y \in 1..Len(all) : d = all[y]
    <3>1. PICK e \in 1..k : \E y \in 1..Len(parts[e].found) : d = parts[e].found[y]
      BY <1>7, <2>1
    <3>2. e = 1
      BY <2>1
    <3> QED
      BY <3>1, <3>2
  <2>5. \A a, b \in 1..Len(all) : a < b => CandidateEnd(all[a]) <= all[b].start
    BY <1>5, <2>1 DEF GoodScan
  <2>6. Len(all) \in Nat
    BY <1>6, <2>1
  <2> HIDE DEF c, d, all
  <2>7. c.start \in Nat /\ d.start \in Nat /\ CandidateEnd(d) \in Nat /\ d.start < CandidateEnd(d)
    BY <1>2, <2>2, CandidatesAre
  <2>8. x # y
    BY <2>2, <2>3, <2>4, <2>7
  <2>9. ~(y < x)
    <3> SUFFICES ASSUME y < x PROVE FALSE
      OBVIOUS
    <3>1. CandidateEnd(d) <= c.start
      BY <2>3, <2>4, <2>5
    <3> QED
      BY <2>2, <2>7, <3>1
  <2>10. x < y
    BY <2>6, <2>8, <2>9
  <2>11. CandidateEnd(c) <= d.start
    BY <2>3, <2>4, <2>5, <2>10
  <2> QED
    BY <2>11 DEF c, d
<1>12. m.ok => FoundMeets(image, threads, m.found)
  <2> SUFFICES ASSUME m.ok PROVE FoundMeets(image, threads, found)
    BY DEF found
  <2>1. NoErasedPage(image) =>
          \A p \in Headers(image) : InSomeSegment(p, image, threads) =>
            \E i \in DOMAIN found : found[i].start <= p /\ p < CandidateEnd(found[i])
    BY <1>9
  <2> QED
    BY <1>10, <1>11, <2>1 DEF FoundMeets
<1> QED
  BY <1>1, <1>12 DEF CarvingMeetsEveryHeader

\* What is chosen to be carved is one of the images.
CarvingInv == reader = "carving" /\ input # NoInput => input \in CarvedImages

(* Whatever images are carved, by however many threads: where no page is   *)
(* erased, every header with what must follow it is met, at the edge of a  *)
(* window or of a segment too, unless it is Hidden; what is called intact  *)
(* or fragmented validates; no candidate leaves the image; and those of    *)
(* one scan do not overlap (carve_signatures, carve_segment,               *)
(* find_next_signature, carve_candidate).                                  *)
THEOREM HeadersAreAlwaysMet == ReaderSpec => []HeadersAreMet
<1>1. ReaderInit => CarvingInv
  BY DEF ReaderInit, CarvingInv
<1>2. CarvingInv /\ [ReaderNext]_readerVars => CarvingInv'
  BY DEF CarvingInv, ReaderNext, Chooses, readerVars
<1>3. CarvingInv => HeadersAreMet
  BY CarvingAssumption, CarvingMeets DEF CarvingInv, HeadersAreMet, Chosen
<1> QED
  BY <1>1, <1>2, <1>3, PTL DEF ReaderSpec

=============================================================================
