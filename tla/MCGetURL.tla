------------------------------- MODULE MCGetURL --------------------------------
(* Instances of GetURL for TLC: a page that is first looked for in the     *)
(* cache, an image in its window, and a prefetched link of another window. *)
EXTENDS GetURL

CONSTANTS page, image, link, w1, w2

Urls == {page, image, link}
Windows == {w1, w2}
Places3 == [u \in Urls |-> IF u = link THEN w2 ELSE w1]
Images == {image}
Prefetches == {link}
Sockets == {page, image}
CacheLooks == {page}
================================================================================
