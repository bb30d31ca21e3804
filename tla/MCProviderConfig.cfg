SPECIFICATION Spec
CONSTANTS
    x1 = x1
    x2 = x2
    slug1 = slug1
    old = old
    new = new
    url1 = url1
    url2 = url2
    doc1 = doc1
    doc2 = doc2
    doc3 = doc3
    Request = {x1, x2}
    Slug = {slug1}
    Url = {url1, url2}
    Config = {old, new}
    Document = {doc1, doc2, doc3}
    Key = {slug1, url1, url2}
    Value = {old, new, doc1, doc2, doc3}
    Failure = Failure
    Lost = Lost
    UrlOf <- MCUrlOf
    MayAnswer <- MCMayAnswer
    Ttl <- MCTtl
    Flight = 1
    Old = 4
SYMMETRY Symmetry
INVARIANTS
    TypeOK
    ServedConfigsAreRecent
    SecretGoesHome
    RefusalsAreFresh
