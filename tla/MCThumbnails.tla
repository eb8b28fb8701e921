---- MODULE MCThumbnails ----
EXTENDS Thumbnails
=============================
